# contract_abstract: specifications, model checking, proofs

The repository is a fork of Slither that carries one tool of its own,
`src/slither/tools/contract_abstract/` (about 5000 lines): it derives a
contract's storage layout with Slither, mirrors the contract's transactions
from Etherscan into PostgreSQL, follows the contract's storage in database
tables and keeps Merkle-Patricia proofs of it. That tool is what these modules
are about. The rest of Slither (parsers, detectors, printers, SlithIR) is the
upstream project; what the walker stands on is modelled, too: the graph of a
function, its dominators and its SSA form.

(paths below are relative to `src/slither/tools/contract_abstract/`)

## Inventory

| part | state it keeps | operations | what is hard |
|---|---|---|---|
| `transaction_service.py` | loop variables `i`, `end_block`, `consecutive_errors`; nothing on disk | catch-up in batches of 5000 blocks, monitoring every 12 s | kill and restart at any point; errors counted in one handler and not in the other; ranges that overlap |
| `onchain/transaction_info.py` | the transactions table, one psycopg2 connection | fetch `txlist` and `txlistinternal`, save a range in one database transaction, checkpoint query, paged reads | API faults, rate limit, full pages; primary key shared by two kinds of records; dropped connection; OFFSET paging while the writer runs |
| `database_manager.py` | `db_config`, the server process, the databases of the server | detect, start, create, poll until up | create racing another creator; name case folding; retries |
| `storage_service.py`, `onchain/storage_info.py` | `block_number`, `fact_keys`, one table per state variable, `output/fact_keys.json` | initialise tables, follow storage writes of transactions, export and import known mapping keys | a loop that must advance; partial commits; a cache whose owner is never checked; conversions that do not round-trip |
| `onchain/storage_proof.py` | a trie in memory, the table of saved tries, an open transaction | update slots, save, load, delete, prove and verify | saves of two objects on one row, restarts that load half of what was saved, locks held by transactions left open |
| `contract/entity.py` | per-contract dictionary of storage slots | parse an access path, follow it to a slot, split packed words | packing rules of the Solidity layout |
| `contract/contract_walker.py`, `contract/context.py`, `contract/node.py` | a context per variable, the list of paths still to walk | enumerate paths, walk them, replace calls by the callee's paths, record storage writes | loops in the graph, splicing while walking, contexts left over from other paths, recursion |
| `src/slither/solc_parsing/declarations/function.py` (Slither, under the walker) | the graph of a function while it is parsed, edges kept as sons and as fathers | one parse method per statement, repair of break, continue and return, removal of dead ENDIF nodes | the loop of a jump is searched in the graph, not carried along; both halves of an edge are edited by hand |
| `src/slither/core/dominators/utils.py`, `src/slither/slithir/utils/ssa.py` (Slither) | dominators, tree, frontier per node; versions of each variable | fix point, climbs along the tree, phi functions, renaming | dead code inside the fix point; the order of Python sets |
| `contract/slitherir_parser.py` | bindings of IR temporaries to expressions | one handler per SlithIR operation | aliases through storage pointers |
| `onchain/contract_info.py`, `__main__.py` | none | RPC reads, meta extraction, proxy resolution | proxy chains that do not end |

Interactions: `transaction_service` and `storage_service` each own a
`TransactionInfo`; it calls `DatabaseManager.setup_database()` before it
connects. `storage_service` adds a `StorageInfo`, which reads the transactions
table the service writes, and asks `contract_walker` which variables a function
writes. `entity` is used by both to turn an access path into a slot. There are
no threads inside a process: concurrency is between processes that share
PostgreSQL, and with the chain and the API that change under them.

What makes each part correct: the service, that `MAX(block_number)` never hides
a gap; the readers, that a page boundary never swallows a row; the database
setup, that it ends and that two services reach the same database; the graph
builder, that a jump goes where the program says; the dominators, that they are
what the word means; SSA, that a statement reads a version that can reach it; the
walker, that every branch is on some path, that what it executes is a run of the
program, and that it collects the writes of all runs and no others; the layouts,
that they agree with Solidity; the tries, that a saved one can be opened and that
a save loses nothing another has not touched; the keys of mappings, that the
service never starts with half of them.

## Modules

| module | models | state and actions |
|---|---|---|
| `Chain` | external: the chain and what Etherscan lists | `head`, `mined`; `Mine` |
| `ChainMirror` | the abstract promise of the transactions table | `stored` grows from the history up to one block to the history up to a later one |
| `TransactionSync` | `transaction_service.main`, fetch and save of `TransactionInfo` | one action per HTTP request, SQL statement or branch of `main`; only `db` survives `Crash` |
| `PagedReader` | `get_transactions_paginated`, `get_transactions_by_batch` | one `SELECT` per `ReadPage`; the writer is `ChainMirror`, so it composes with what `TransactionSync` is shown to implement |
| `KeyHarvest` | `StorageInfo.__init__`, `import_fact_keys_from_json`, `get_all_keys_for_mapping`, `export_fact_keys_to_json` | extends `PagedReader`: the harvest is a paged read, begun when the request for the creation block is answered. `file` is two pieces and survives `Crash`; the service and a rival (a service of the same contract or of another one) each open it, which empties it, and write its head and then its tail, in any interleaving |
| `StorageTrie` | `StorageProof`: constructor, save, load, delete, update | several objects, a database transaction each; one action per statement and commit; table locks and the deadlock detector of PostgreSQL are external |
| `DatabaseSetup` | `DatabaseManager.setup_database`, `connect_db` | one action per call to the server or the service manager, several processes |
| `CfgBuilder` | `FunctionSolc._parse_cfg` and the clean-up of its graph | Open/Close actions for the nested parse methods, so that TLC writes the program; then one action per node repaired |
| `SsaForm` | `compute_dominators`, `compute_dominance_frontier`, `add_phi_origins`, `generate_ssa_irs` | extends `CfgBuilder`; one pass of the fix point per `Sweep`, one call of `generate_ssa_irs` per `RenameChild` or `RenameFrontier`; told for one parameter that every statement reads and one writes |
| `PathEnum` | `ContractWalker.get_all_paths` on the graphs of `CfgBuilder`, after `SsaForm` | `stack` is the Python call stack, a frame per call |
| `PathWalk` | `ContractWalker.walk`, `walk_path`; the handlers of `SlitherIRParser` that move storage pointers | paths are given (`PathEnum` makes them); `work` is `all_paths_with_index`, `ctx` and `heap` are the context objects and who shares them; one action per IR, `Expand` for the whole splicing |
| `StructLayout` | `Entity.get_slot_info_for_structure` next to Slither's `storage_size` rule | one turn of both loops per `Declare`; `Close` ends a struct that others have as a field: the recursive call adds what `Entity` counted for it, Slither its own size |
| `TransactionSyncProofs`, `KeyHarvestProofs`, `StorageTrieProofs`, `DatabaseSetupProofs`, `CfgBuilderProofs`, `DominatorProofs`, `PathWalkProofs`, `StructLayoutProofs` | theorems | about the module of their name; `KeyHarvestProofs` first about `PagedReader`, which `KeyHarvest` extends; `DominatorProofs` about the first half of `SsaForm`, on top of `CfgBuilderProofs` |
| `MC*` | instances for TLC | |

Variables named "history" in a module are not in the code; they remember what a
property compares with (where a jump was written, which rows matched when a read
began).

## Runs

| run | what it shows |
|---|---|
| `sync` | with at most two faults (kills, outages, rate limits, dropped connections, refused statements, lost commit answers) no gap hides behind the checkpoint, nothing in front of the loop variables is taken for stored, no range that was stored is fetched again but for the shared block, the normal record of a hash wins, and the service implements `ChainMirror`; every transaction below the last block is stored, unless a range fills a page, the process stopped, hangs in a request without a timeout or its connection dropped; an outage that does not end stops the service, unless it hangs so |
| `sync_paging` (violated) | `AllSynced`, which is `Synced` without its premise, with a page that a range can fill: every poll raises, the range only grows |
| `harvest` | pages read while the writer inserts miss no row, and a settled range is read exactly; where rows tie (internal ones have no index) only their number is right. The storage service that harvests keys through these pages, or imports them from a file that kills cut short and a second service truncates and writes at the same time, works with all keys of the rows stored at harvest and no others (files of two exports or of another contract excepted); every start comes to serve, ends, or waits for the answer to the creation-block request |
| `setup` | two setups at once: one spelling per name, the same database for both, each ends, and with everything allowed one succeeds |
| `graphs` | for every body of up to eight nodes with if, while, do and both kinds of for: edges mirrored, live jumps resolved, no orphan ENDIF; dominators, tree and frontiers are the textbook's; in SSA form each statement that can be reached gets a version, the right one where one version can reach it; where the loops begin with their condition, paths are real, meet no node three times, cover every branch and never fail |
| `cfg_break` (violated) | a `break` of `for (;;)` inside `while` leaves the `while` |
| `cfg_continue` (violated) | a `continue` of a `while` whose body ends in an expression runs that expression |
| `walk` | 1610 programs of two outer and two internal functions, recursive ones among them: what is executed along a path is one run of the program, the writes collected are those of all runs and of no other, the walk ends |
| `walk_reads` (violated) | a field that is only read counts as written when its IR is met twice on a path |
| `trie` | two objects on one row with two kills, any deadlock broken: a saved trie can be opened, one row per key, locks are held by who works (or by who deleted nothing), every save ends, only a stale save loses nodes |
| `layout` | for structs of up to four fields, two of which may be structs gone through before (one of them inside the other), the two layouts agree up to the first field that `Entity` passes by wrongly, and so far no two fields share a byte |
| `layout_overlap` (violated) | two fields of one struct at the same byte, after an array of two slots or a mapping behind a partly filled slot |

Properties with a condition, and what lies outside it:

- `JumpsKeepToTheirLoop` needs loops with a condition: `cfg_break` is the
  counterexample without. A `continue` goes to the increment of its loop, where
  there is one, and else to the condition, unless the body ends in an expression
  (`EndsBody`): `_find_if_loop` takes any expression before the condition
  for the increment of a for loop, so that in a while loop `continue` runs the last
  expression of the body. `JumpsKeepToTheirLoop` admits that expression, of the jump's
  own loop and no other; `ContinueResumesItsLoop` does not, and `cfg_continue` is the
  counterexample.
- `LiveJumpsFound` speaks of jumps that can be reached. A `continue` after
  another jump of its block raises `Continue in no-loop context`
  (`DeadCode = TRUE` lets TLC write such programs).
- `PathsAreReal`, `EveryBranchWalked` need `HeadersFirst`. In a do loop the node
  met again is the first of the body: with one son, `sons[1]` raises
  `IndexError`; with two, the second son is walked as if it left the loop.
- `SsaRight` has three parts. `AllRenamed` excepts functions in which the end of
  an if or a loop has a father that cannot be reached: `generate_ssa_irs` waits
  for that father for ever and the nodes behind never get SSA form.
  `OneVersionKept` speaks of statements one version can reach, and `PhiAtEndif`
  of the frontier of the write itself. Neither holds for all definitions and all
  joins: `add_phi_origins` takes origins from nodes with no child or several in the
  dominator tree, and never from the phi functions it makes, so that in nested
  ifs the outer ENDIF gets none, and the head of `do` and of
  `while` left by `break` may have none either. TLC gives examples when the
  conditions are dropped.
- `WritesFound` needs programs that never set a storage pointer anew
  (`NoMoves`: a pointer keeps the location it had first) and whose functions that
  call others come up with one location (`OneContext`: the inner calls of a
  function met again are replaced by one path each). `WritesReal` needs
  `NoMoves`, results taken only from callees that always return one
  (`TakenReturn`: the context of a call is never cleared), and no IR met twice on
  a path (`~repeats`: `walk_reads` is the counterexample without).
- `WalkEnds` excepts programs in which the first path of a function comes back to
  it: for those `walk_path` splices for ever (`MaxItems` cuts them off).
- `KeysComplete` is about keys of one export of the service's own contract. There is
  one `output/fact_keys.json` for all contracts, and the address in its metadata is
  logged, not compared: when another contract's service exported last, its keys are
  served (`whose = "other"`). Nor does anything lock the file: `json.dump` writes it
  in many pieces, each service at its own place, and the head of one export with the
  tail of another may be valid JSON, with half the keys of each; it is imported
  like any other (`whose = "mixed"`; TLC reaches such states). What is excluded are
  these two; a file with a piece missing or spoilt does not parse and is harvested
  anew. `KeysComplete` needs the harvested rows to have no ties.
- `StartEnds` excepts the time `get_contract_creation_tx` waits for its answer
  (`transaction_info.py:768`): the request has no timeout.
- `SaveEnds` excepts the time somebody sits idle in the transaction of a delete
  that found no row (`Lingers`): there is neither commit nor rollback, and every
  save and every constructor of another object waits for the index lock.
- `LostOnlyWhenStale` speaks of nodes. The root is lost by every load: the comment
  says the trie is loaded, the code opens the saved nodes at the root of an empty
  trie, and the next save writes that root, or one grown from it, into the row.
- `LayoutAgrees`, `SizeAgrees` and `TrustedApart` need the fields passed by to be
  harmless (`Trusted`): not an array of several slots, no array, mapping or struct
  behind a partly filled slot, and no struct with such a field inside, at any depth.
  After a nested `{uint8; mapping}` or `{uint[2]}` `Entity` goes on one slot too
  early, since it adds its own count of the nested struct.
- `SetupSucceeds` promises one of the processes only: of two that create the
  database together, the second gets "already exists" and gives up. It assumes
  lower-case names on the server: a database `TX` is found by the look-up and by
  no connection.
- `Synced` and `OutageStopsService` except a service that hangs (`Hung`) in the request
  for the latest or for the creation block, which are made without a timeout
  (`transaction_info.py:687` and `:768`; only `:207` has one): the
  API may go mute at any time, and such a service neither fetches nor counts an error
  until it answers. In the outages the service stops for, requests fail, or are made by
  `_get_transactions`, which gives up after 30 s.
- `Synced` excludes a dropped connection and full pages (its premise `[]~Overfull`;
  `sync_paging` checks it without), too. After a
  drop `db_connection` stays set, every save over it raises, and the inner
  handler of `main()` logs the error and goes on without counting it: the service
  neither stores anything nor exits after `max_consecutive_errors`, as its log
  message says it would.
- `NormalRecordWins` says which record of a hash is kept. The other one is lost:
  an internal record with the hash of a normal one is dropped by
  `ON CONFLICT (hash) DO NOTHING`, although both kinds are to be kept.

### Bounds

- Chain of four blocks, three transactions (one only normal, one only internal,
  one in both lists), ranges of two blocks, pages of two: several batches, a
  monitor phase, full and empty ranges and shared hashes all occur. Two faults
  let one hit the recovery from the other. More blocks repeat the cycle; the
  proofs do not depend on the number.
- Three rows in two blocks, two of which tie, pages of one, at most three pages for
  who limits them: a page boundary inside a block, rows pushed over it during a
  read that still comes to its end (two rows), the stop at `max_pages` (three), and
  a harvest whose bound was looked up on an empty table and which reads all three.
  Others read only before the first start of the service.
- Three transactions in `KeyHarvest`, one for each kind of key that the file treats
  differently. Two starts of the storage service, so that the second finds what a
  kill or the rival left of the file; one rival at a time.
- Structs of four fields and two that may be nested: every kind of field before and
  after every other one, a struct in a struct in a struct.
- Two processes, three spellings of one name, two polls, two connection
  attempts, one server stop: both races (look and create, poll and use) and both
  ends of each loop.
- Eight nodes hold two nested loops with a jump, and the two nested ifs whose
  branches all return.
- One variable and at most one write in `SsaForm`: renaming treats the variables
  one by one, and two writes only add versions.
- Two outer functions, two internal ones, two structs, paths of at most two
  nodes; 40 items hold every path of the programs that end. Direct recursion, a
  function called with two locations, twice on a path, on two paths, and a result
  taken over.
- Two objects on one row, one slot, two updates, two kills: deadlock needs two
  transactions, staleness two savers. The proofs are for any number.
- Slots of four bytes: every packed size, a field that just fits and one that
  just does not. The proof is for every slot size.

### Fairness

`main()` is one thread, so its next step is weakly fair (`WF_vars(Service)`); so is
the growth of the chain, and the end of a rate limit, which lasts seconds. Fairness
makes no answer come: while the API is `"mute"` (it takes requests and answers none) the
steps that wait for one without a timeout are not enabled, and the one that has a
timeout fails. Nothing restarts the process, and no outage is assumed to end. In `DatabaseSetup` each process is a thread
that runs on (`WF_vars(Step(p))`); the server owes nothing. In `StorageTrie` a
thread goes on again and again whenever its statement can run (`SF` on
`Working(o)`), since PostgreSQL hands out locks in the order of the requests, and
deadlocks are broken (`WF` on `Abort`); nobody has to call anything. In
`KeyHarvest` the service is one thread (`WF` on `Service`), but `Service` leaves out
the answer to the request for the creation block, and the rival owes nothing. In `PathWalk` the
program is sequential (`WF` on `Next`).

## Proofs

`TransactionSyncProofs` proves, for every chain, batch size, page size, number of
faults and error limit, from the named assumptions of `TransactionSync` and
`Chain` alone:

- `InductiveInvariant`: `IInv`. `NoGap` is not inductive: that a commit leaves no
  gap depends on the range being complete, which depends on the records fetched
  but not yet inserted, those inserted but not committed, the connection that
  holds them, and the loop variable the range began at. `RowsTrue`, `LoopState`,
  `RangeCovered` and `RowsUnique` say this. The proof has a step per action.
- `TypeCorrect`, `CheckpointSafe`, `FrontierSafe`, `NormalRecordSafe`,
  `NoReworkSafe`: the safety properties of `sync`. `NoRework` has an
  argument of its own, on top of `IInv`.
- `Refinement`: `Spec => Mirror!Spec`. A commit, and a commit whose answer is
  lost, map to a step of the mirror; all else stutters or is the chain's step.

`KeyHarvestProofs` proves of the readers, for every chain, table, page size and number of pages,
from the assumptions of `PagedReader` and `Chain`; besides their types it needs
`FiniteTable`, since rows are counted:

- `Inductive`: `IInv`. What a read has seen when it stops depends on what each
  `OFFSET` skipped, so the invariant speaks of prefixes of the sorted rows:
  `Covered`, that of the rows that were there at the beginning those in the first
  `Offset` rows *of the table as it is now* have been seen. An insert keeps it
  because it only moves rows back, a page because it extends the prefix by what
  it returned. `Mirrored` (what the writer promises of the table) and `Window`
  say why a range with an upper bound gets no more rows, and `Counted` why its
  pages count each once even when rows tie and their places are arbitrary.
- `SettledReadExact` and `NoRowMissed` follow, and `TypeCorrect`.

It carries these to the storage service, with kills at any point and a rival that
writes the same file: `HarvestReadsExact`, `HarvestTypeCorrect` and `ServesAllKeys`
(`KeysComplete`). `KeysGood` adds to the claim that a file with both pieces of one
writer is complete (`FileGood`), and that while a writer is between them what it has
written and what it has left are (`LeftGood`). That needs to know where the pieces
are: opening truncates, so that what a dump has still to write is nowhere in the file
(`Placed`). `ExportsOwn` says that keys taken from another contract are never exported.

`DatabaseSetupProofs` proves, for any number of processes, names, polls, retries
and stops of the server: `TypeCorrect`, `OneSpelling` (`NoTwin`) and
`ServicesShareDatabase` (`SameDatabase`). `NoTwin` alone is not inductive: that
`CREATE DATABASE` adds no second spelling is due to what the look-up saw some time
ago and to what all others create since, which is `CreatorSawNone`; and who is
ready has to hold a connection to what it looked up (`ReadyConnected`).

`StructLayoutProofs` proves, for every slot size, every set of field types and
every number of fields, that as long as all fields were passed by harmlessly both
loops stand at the same byte (`SameByte`, where a slot filled to the brim is the
beginning of the next one), and that the recursive call counts a nested struct right
if it passed all of its fields harmlessly itself (`StructsCounted`, by `SizesAgree` of
the struct that is closed); `LayoutCorrect` and `SizeCorrect` follow. Slither's
loop keeps fields apart in every struct (`ReferenceApart`: each field ends before
the next one and before the loop's position), and so does `Entity` as long as it
agrees with it (`EntityApart`).
`TypeCorrect` is the type invariant, which `layout` leaves to the proof.

`CfgBuilderProofs` proves, for functions of any size with any nesting of its
statements, from `MaxNodes \in Nat` and the set of `Kinds`:

- `GraphInductive`: `GraphIInv`. The claims about edges and ENDIFs need the whole
  shape of the graph (`Sound`): lists of sons and fathers of all nodes, edges among
  them (`Closed`), as often in one list as in the other (`Mirrors`), none to the
  entry (`EntryFirst`), and edges between ENDIFs only to later ones
  (`EndifsOnward`). The last one needs the frames of the parse methods to hold
  nodes of the kinds these link (`OpenOK`). The searches for the loop of a jump
  end, since every call marks a node visited, and answer with a node that an edge
  may lead to (`JumpTargets`).
- `EdgesKeptTwice` (`FathersMirrorSons`), and `GraphTypeCorrect`.
- `NoAloneEndifLeft` (`NoAloneEndif`). The loop meant to run to a fix point passes
  only once; with `EndifsOnward` once is enough, because removing an ENDIF takes
  fathers only from ENDIFs that the pass has yet to come to.

`DominatorProofs` proves `DominanceIsExact`: in every such function, dead code and
removed nodes included, what `compute_dominators`, `compute_immediate_dominators`
and `compute_dominance_frontier` leave is what the definitions say. The definitions
speak of `Past(n)`, the nodes that can be reached from the entry without passing n.

- While the sweeps go on, none of the dominators of a node is missing
  (`NoneMissed`), whatever is there besides. When a sweep changes nothing, nothing
  is there besides (`SettledIsRight`): the nodes without a wrong dominator would be
  closed under sons, and the entry is one of them.
- The dominators of a node form a chain (`DominatorsOrdered`), so
  `compute_immediate_dominators`, which picks the one with as many dominators as
  are left to the node, has exactly one to pick, and its assertion holds.
- A climb along the tree ends (`Heights`) and passes just the dominators between
  (`ClimbsTo`), which gives the frontiers, with the exception the code makes for an
  IF without else (`IfWithoutElse`).
- `DominanceInductive` puts these together: `DomIInv` says what is right at which
  stage. `GraphSoundLater`: the graph stays as `CfgBuilderProofs` leaves it.

`PathWalkProofs` proves `WalkIsARun` (`TraceIsARun`), for any number of functions,
entry points and paths, for IRs of any order, with recursion and without: what
`walk_path` executes along a path, over all its calls, is one run of the program.
It needs `EntriesAssumption`, `ProgramsAssumption` and `BoundAssumption` (the paths
of entry points, before anything is expanded, are within `MaxItems`).

- A run is told by stacks of activations, each with the path it is on and the IRs
  it has done. `Strung` says of a path, item by item, which stack each item makes
  of which: a beginning pushes an activation, an end pops one that has done all its
  IRs, a node moves the last one on over its IRs, or, with a callee behind it, up to
  its first call and no further. Such a path is `Stacked` if it leads from the empty
  stack to the empty stack.
- `IInv` says that all paths that wait are, that the events recorded come to the
  stack where the walk stands (`Held`), that no call lies behind the place in the
  node (`Marked`), and that what was recorded last is a call just where a callee
  begins (`Noted`). The claim itself is not inductive: it says nothing before the
  end of a path.
- `Splice` is the lemma in the middle. The path of a callee leads from any stack
  back to it (`Called`), what is left of the node goes on from there (`RestRuns`),
  and so the path that takes the place of this one is `Stacked` again, with the
  same stacks up to the call: that is why the walk may go on in it at the same place.
- `Given` (the storage parameter of every internal function that is active has a
  context) is what the argument of an inner call needs. `TypeCorrect` rests on it:
  every context has an object, and an argument is one.

The library's induction theorems take operators and cannot be used with these
provers, so the proofs about recursive functions rest on four lemmas that say the
same with sets and functions: `UpTo` and `ByRank` (induction), `Recursion` and
`RankRecursion` (a function given by its smaller values exists). The searches and
closures of `CfgBuilder` and `SsaForm`, and the runs in `PathWalk`, are recursive
functions for that reason. Of `FlattenSeq`, which is recursive in the library,
`Flattened` proves what the walk needs: where each piece begins in the whole.

`StorageTrieProofs` proves, for any number of objects, keys, slots, values,
updates and kills, from `KeyAssumption` and `ValueAssumption`:

- `Inductive`: `IInv`. That a row can be opened needs the tries in memory to be
  whole (`TriesWhole`), since a commit writes one. That a commit loses no nodes
  needs `Covers`: an object that is not stale has every node of the row.
  `Constructing` says that a constructor that has not loaded yet holds no lock
  when it comes to load, which `IdleHoldsNothing` needs. `LocksExclude`, that index
  builds and writers of the table exclude each other, follows from the server's lock
  rule and is a step of the proof, not a result.
- `TypeCorrect`, `RowsStayWhole`, `NothingHeldIdle` follow.
- `OnlyStaleSavesLose`: the action property. The only step in question is
  `CommitSave` of the object itself, and there `Covers` gives the claim.

Only model-checked:

- Liveness (outside the prover's reach): `Synced`, `OutageStopsService`,
  `SetupEnds`, `SetupSucceeds`, `StartEnds`, `SaveEnds`, `WalkEnds`.
- `LiveJumpsFound` and `JumpsKeepToTheirLoop`: what the search for a loop finds
  depends on the whole text between a jump and its loop, and no invariant for
  nested loops has been worked out yet.
- `SsaRight`: it compares the calls of `generate_ssa_irs`, which wait for each
  other in an order that is left open.
- `PathsAreReal` and `EveryBranchWalked` of `PathEnum`: a proof would stand on the
  one for jumps, since a path leaves a loop rightly only if its header is one.
- `WritesFound` and `WritesReal` of `PathWalk`. Their reference, `Truth`, stops at
  `MaxDepth` nested calls: enough for the programs TLC tries, but with another bound
  the claims would not hold, so there is nothing to prove for all of them.

## Not modelled

- Chain reorganisations: the code keeps a `revert_threshold` it never reads, and
  no row is ever removed, so the models let the chain only grow.
- Etherscan listing several internal records of one hash: the model has one per
  hash; the primary key keeps the first.
- The constructor of `TransactionInfo` is one step in `TransactionSync`;
  `DatabaseSetup` has its steps. Dead servers in between show as `conn = "broken"`.
- In `StorageTrie`, two constructors that race in `CREATE TABLE IF NOT EXISTS`: the
  table and its index are made in one step, so that the unique violation PostgreSQL may
  answer to the second one does not occur.
- In `DatabaseSetup`, a server that accepts a connection and never answers:
  `psycopg2.connect` is called without a `connect_timeout`.
- try/catch, assembly, modifiers, the rewriting of the ternary operator and
  implicit returns in `CfgBuilder`.
- SSA for state variables, call-backs and phi right sides; the copying of IR.
- In the walker: taints, inputs, bit-field analysis with z3, interfaces and
  utilities; contexts of anything but structs in storage.
- `sync_storage_to_block`: its loop never advances `block`, so with work to do it
  repeats one request for ever, and `sync_storage` is the last call of the
  service. The tables of storage values are filled by `init_syn_storage`, which
  nothing calls.
- `sync_slot` and the proofs against the chain: they pass what the RPC library
  returns (bytes) where a hex string is expected, and raise. Hashing and RLP
  are taken for injective and told by contents.
- Access paths: only tests print one (`expr_to_string`).
- `contract_info.py` and `__main__.py`: one RPC call each and a recursion over
  proxies that ends when the answers do.
- Slither's parsers translate one tree into another; its detectors, printers, data
  dependency and other tools are not used by `contract_abstract`. This upstream
  code makes up most of the repository.

## Plan

Modelled: the transaction service, its readers and the harvest over them, the
database setup, the saved tries, the graphs with their SSA form, the paths and
the walk, the layout. Next:

1. Proofs about jumps and paths: an invariant for the loops that are open while a
   body is parsed, from which `LiveJumpsFound`, `JumpsKeepToTheirLoop` and then
   `PathsAreReal` would follow.
2. The splitting of packed words in `entity.py`.
