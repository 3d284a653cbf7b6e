# A TLA+ model of RMDB

RMDB is a small relational database server in C++ (`src/rmdb/src`). This project
models it in TLA+ from the socket to the pages on disk: server threads, parser,
analyzer, planner, executors, catalog, record files, indexes, buffer pool. TLC
checks the model on small instances, and TLAPS proves the central invariants for
every instance. `PROJECT.json` maps each definition to the lines it models.

## The system

| part | source | module |
|---|---|---|
| server: accept loop, client threads, SIGINT | `rmdb.cpp` | `Server` |
| transactions: begin, commit, abort | `transaction/transaction_manager.*` | `Server` |
| SQL parser: flex scanner, Bison parser, AST | `parser/*` | `ParserTables`, `Grammar`, `Parser` |
| analyzer | `analyze/*` | `Analyze` |
| from statement to plan, portal and function | `optimizer/optimizer.h`, `planner.cpp`, `portal.h`, `execution/execution_manager.cpp` | `Dispatch` |
| planner, scan and join executors, subqueries | `optimizer/planner.cpp`, `execution/executor_*.h` | `Query` |
| aggregates and projection | `execution/executor_agg.h`, `executor_projection.h` | `Aggregate` |
| insert, delete, update | `execution/executor_{insert,delete,update}.h`, `portal.h` | `Dml` |
| system manager: DDL, catalog, `db.meta` | `system/*` | `Catalog`, `DbMeta` |
| open table files, close and drop, over the pool | `system/sm_manager.cpp`, `record/rm_manager.h` | `TableFiles` |
| record files: pages of slots, bitmap, free page list | `record/rm_file_handle.*`, `rm_manager.h`, `bitmap.h` | `RecordFile`, `RecordScan`, `RecordInsert`, `Layout` |
| record scan | `record/rm_scan.*` | `RecordScan` |
| B+ tree index and its scan | `index/*` | `BPlusTree`, `Layout` |
| buffer pool: frames, page table, pins, write-back | `storage/buffer_pool_manager.*`, `page.h` | `BufferPool` |
| LRU replacer | `replacer/lru_replacer.*` | `LRUReplacer` |
| disk manager: pages of files, descriptors | `storage/disk_manager.*` | `BufferPool`, `TableFiles`, `Catalog` |
| locks, log, recovery, sort executor | `transaction/concurrency`, `recovery`, `execution/execution_sort.h` | stubs in the code |
| client | `rmdb_client` | not modelled |

`start_server` accepts connections and starts a thread for each. A thread reads a
text, begins a transaction if it has none, parses and analyses under one mutex,
plans and executes without one, answers, and commits unless the client has said
`BEGIN`. Executors use record files and B+ trees; both keep their pages in the one
buffer pool, which reads and writes them through the disk manager. The pool's
operations run under one latch. Nothing between the parser and the pool takes a
lock: the lock manager returns true without locking. So the model has one atomic
step per pool operation, and splits operations above into their steps where threads
can really meet inside them.

## Modules

### Server and SQL

`Server` — `start_server` (`mpc`) and the threads (`pc`), with a step for every call
that blocks or touches what is shared: `sockfd` and its mutex, the scanner
(`yy_buffer`, `yy_start`), `parse_tree` and `buffer_mutex`, the map of
transactions. `sockfd_mutex` is locked by `start_server` and unlocked by the new
thread. A request is the kind of its text; a comment may be left open. Faults are
`accept` failing, SIGINT or a thread that cannot be created (`main_break`), and the
end of the process by the request `crash` or by SIGPIPE, which nothing catches.
`TransactionAbortException` is caught but never thrown, so it is not there.

`Dispatch` — `plan_query`, `Portal::start`, `Portal::run` and the switches of
`QlManager`, as tables from class and tag to class and tag.

`ParserTables` — the tables in `yacc.tab.cpp`, number for number. `Grammar` — the
nodes of `ast.h`, and for each tree the lexemes that spell it, from `yacc.y`.
`Parser` — the loop of `yyparse` over these tables: shift, reduce with the semantic
action, accept, error. Values are `SemValue` structs that are copied whole, with the
fields earlier rules have set, which is where a rule that sets nothing gets its
value from. The scanner yields lexemes; its start condition survives the call.

`Analyze` — `do_analyze` as operators from a statement to a query or `Error`, with
names, types, the sizes of values and whether their `raw` buffer exists; then what
`materialize_subqueries` and `eval_conds` make of the conditions, and what
`AggExecutor` and the projection make of the select list. The statement is the
state, and grows by a part per step.

`Query` — the planner and the executors as operators: `make_one_rel` builds the
plan (`pop_conds`, `get_index_cols`, `push_conds`), `Run` executes it, with the key
range of `make_scan_range` on the sorted entries of an index, and
`materialize_subqueries` comes first. The state is the database and the WHERE
clause, which grows by a condition per step. Columns are integers between `IntMin`
and `IntMax`, the values of `fill_min` and `fill_max`. A position in the leaf chain
is the number of entries before it; that scans between tree positions return the
same entries is what `btree` shows. `Aggregate` — groups, aggregate states, HAVING
and projection over the rows of a plan.

`Dml` — one table as a function from rids to rows, the unique indexes as sets of
`<<key, rid>>`, and for each session its statement and how far it has come. Each
call of a record or index operation in an executor is one action; a statement that
throws, on a duplicate it finds or in `insert_entry` on one that came in after it
looked, goes back to idle and leaves what it did. `create_index` and `drop_index`
run between statements. Three history variables say where the code has no protection:
`torn`, an update has thrown after it changed an index of the row; `touched`, the
rows each statement in progress removes or stores (`Footprint`); `raced`, two
statements in progress touched the same row, or rows with one key of an index.

### Catalog

`DbMeta` — `DbMeta`, `TabMeta`, `ColMeta`, `IndexMeta`, their lookups, and `db.meta` as
the sequence of words `operator<<` writes and `operator>>` takes apart again.
`Layout` — the bytes of a page: how many records or keys go on it, and the file
headers.

`Catalog` — the directory, its files and `db.meta` on one side, `db_`, `fhs_`, `ihs_` and
the open descriptors on the other. Every statement is a sequence of steps with one
disk operation each, so that `crash` (a kill) and a full disk come between any two.
A full disk shows as a header or page that cannot be written: statements throw where
`close_index`, `close_file`, `create_file` or `insert_entry` throws, with what they did so
far left as it is, and `close_db` ends without writing `db.meta`. Writes of `db.meta`
itself fail unnoticed. `acked` has the catalogs the client may expect; `lost` says that a
fault hit one of the windows named below, `torn` that a `drop_table` threw after it had
removed an index, `clean` that nothing was cut short. Names are sequences of parts, as
index files are named after table and columns joined by underscores.

### Storage

`LRUReplacer` — `victim`, `pin` and `unpin` as operators on the list
`LRUlist_`, oldest unpin first. `LRUhash_` is an index into the same list.

`BufferPool` — the frames (`pages`), `page_table`, `free_list`, `LRUlist`,
`fd2pageno` and the disk. A page's content is one value of `Data`. `held` is what
each client thread has: the frame a fetch returned, the page it asked for, and
whether it wrote. One action per operation: `fetch_page`, `unpin_page`, `new_page`,
`delete_page`, `flush_page`, `flush_all_pages`; `WriteData` is a client writing to
a page it holds. `FetchReadThrows`, `FetchWriteThrows` and `NewPageWriteThrows`
are the exceptions of the disk manager, at the point where they leave the
operation. A client unpins what it holds, dirty if it wrote, as all callers do.

`PageStore` — what the pool promises: pages have contents, and whoever has a page
open reads and writes the one content. `BufferPool` implements it
(`ImplementsPageStore`), and so do files that are closed and opened again
(`FilesImplementPageStore`).

`TableFiles` — `BufferPool` with files that have names. `create_file` and
`open_file` give a file the lowest free descriptor, `close_db` writes everything
out and closes all, `drop_file` is the file part of `drop_table`. `DropSpec` adds
`drop_file`, `FilesSpec` leaves it out: after it the pool is inconsistent, see
`stale_frames`.

`RecordFile` — the file header (`num_pages`, `first_free_page_no`), and per page
its header, its bitmap as a set of slots, and the slots. `insert_record`,
`delete_record` and `update_record` are one action each. `RecordScan` — adds
`insert_record` at a rid, and an `RmScan` that visits one page per step while the rest
of the system goes on. `RecordInsert` — `insert_record` split at every access to
shared state.

`BPlusTree` — nodes with keys, rids, parent and leaf links, and the header's root,
first and last leaf. Tree operations are functions from trees to trees, so that
`insert_entry` is the composition the code makes: find the leaf, insert, split,
insert into the parent, on to the root. `Scan` runs `IxScan` from one position to
another. The recursion of the code, over the height of the tree and along the leaf
chain, is recursion of operators.

## Runs

| run | instance | shows |
|---|---|---|
| `server` | 2 clients, 2 requests of 6 kinds, all faults | own socket, own statement, own transaction for every thread; explicit transactions end when asked; requests are answered, connections served |
| `parser` | 864 selects, every other statement, 2,000 damaged texts, comments, deep nesting | what is accepted has the tree that spells it, what is in the grammar is accepted, the scanner is left ready, `yyparse` returns |
| `analyze` | 2 tables with columns of 3 types, statements of up to 4 parts | comparisons never read bytes of another type, results have the columns that were asked for |
| `query` | 4 tables of 0 to 3 rows, 19 conditions, up to 3 at a time, 5 select lists | the plan returns exactly the matching rows, the groups are exact |
| `dml` | 2 sessions with some keys in common, 3 rids, 2 columns, 2 indexes, updates of one and of two columns | table and indexes agree, keys are unique, statements end |
| `catalog` | 2 tables, 3 schemas, 4 keys whose file names collide, 3 faults | catalog, `db.meta`, files and handles agree; the server starts again with what it had answered |
| `table_files` | 2 files, 1 frame, 3 pages | contents survive closing and reopening under other descriptors |
| `stale_frames` | 2 files, 2 frames | **violation**: a page of a dropped file answers for a new one |
| `record_scan` | 2 slots per page, 3 pages | records, counts and free list agree; the scan misses nothing that stays and never goes back |
| `record_race` | 2 sessions | **violation** of the assertion in `insert_record` |
| `btree` | order 3, 9 keys, 10 pages, 3 deletions | chain, search, parents and range scans are exact (three levels) |
| `pool` | 2 frames, 2 files of 2 pages, 2 clients, one I/O error | page table, pins and victim lists survive an exception; without one no frame and no write is lost and the pool implements `PageStore` |

### Bounds

Two frames are the fewest for which the free list and the LRU list can be
non-empty together and a pinned frame can be passed over; there are more
pages than frames, so that a miss evicts. Four tables are the fewest for which a
join condition can join two tables that are both new to the plan. Order 3 is the
smallest the code accepts (`assert(btree_order > 2)`), and ten pages give three
levels. Two requests, one after the other or from two clients, are enough for one
statement to meet the scanner, tree or transaction another left behind. `parser`
has `YYINITDEPTH = 34` instead of 200, so that two levels of subqueries reach the
limit of the stacks. The tables of `catalog` are `t` and `t_a`, with columns `a`, `b` and
`a_b`: `t(a_b)`, `t(a, b)` and `t_a(b)` want the same index file; a record can be too
large and a key too long. `MaxIOErrors`, `MaxFaults`, `MaxRequests`, `MaxIndexes`,
`MaxParts`, `MaxClauses`, `MaxRows`, `MaxConds`, `MaxPages`, `MaxPageNo`, `MaxNodes` and
`MaxDeletes` bound the runs; they are guards of the actions and bound nothing in the
code. In `Dml` no statement begins once an update is torn or two statements have raced,
of which the properties say nothing; those in progress run to their end.

### What the properties except

Where the code breaks a property in a case we know, the property names the case, and
holds in all others. Without its exception TLC finds each property violated in the
instance of its run (`UniqueKeys` when statements may begin after a torn update; of
`HandlesMatchCatalog` the handle it speaks of is missing).

- I/O errors (`NoFrameLost`, `UncachedOnDisk`, `CleanIsOnDisk`,
  `ImplementsPageStore`): when `read_page` throws, `fetch_page` leaves the page mapped to a
  frame of zeros; when the write-back throws, the frame is in no list any more.
- Empty leaves (`ScanIsExact`): deletion never merges, and an index scan that comes
  to an empty leaf throws.
- Torn updates (`IndexMatchesTable`, `UniqueKeys`): an update that finds a duplicate in
  its second index has already changed the first, and nothing undoes it.
- Races of statements (`IndexMatchesTable`, `UniqueKeys`): the check of a key and its
  insertion are separate steps, and so are the scan for rids and the work on them, with
  no lock around them. When two statements in progress touch one row or one key, the
  key can be there twice, and table and indexes can disagree.
- Kills in a window (`SurvivesCrash`): while `db.meta` is truncated and rewritten,
  between the removal of a file and the end of `drop_table` or `drop_index`, in
  `create_db`; and a full disk that `create_db` or `flush_meta` does not notice. Orphan
  files, open or not, are left by statements cut short, by a key that is too long, and by
  a `create_index` that cannot clean up (`FilesMatchCatalog`).
- A `drop_table` that throws on a full disk after it removed an index (`SurvivesCrash`,
  `FilesMatchCatalog`, `HandlesMatchCatalog`): the table stays in the catalog with an index
  that has no file.
- A failed `accept` (`ConnectionsServed`): the loop locks the mutex it holds.
- ORDER BY in a subquery (`TreeSpellsInput`): the empty `opt_order_clause` sets nothing,
  and an outer select can take over the order of the subquery.
- Nesting beyond the parser's stacks (`StatementsAccepted`): the stacks do not grow,
  and the statement is refused.
- CHAR columns of different length (`ComparisonsAreTyped`), compared over the length of
  the left one; and a number against a subquery of strings, where `init_raw` asserts.
- HAVING without GROUP BY, whose plain columns are not checked; and aliases that look
  like the numbered names of `get_select_items`, as `a_2` (`OutputIsAsked`).

The inputs of one run leave out cases. The conditions of `query` have no `>=` on a
prefix of an index (the low key is filled up with the maximum, and rows equal to the
bound are lost), no contradictory bounds on an indexed column (`IxScan` runs past its
end and throws) and no condition on two columns of a table other than the first
(`pop_conds` gives it to the first scan, which throws).

### Fairness

All fairness is weak fairness of a thread that has something to do. `Dml`: the
steps of a session inside a statement; nothing in it waits for another session.
`Parser`: `yyparse` is a loop of one thread. `Server`: `start_server` (a connection that
waits is accepted) and each thread with a request at hand; clients need not send
anything, and faults need not happen. A mutex is not assumed to be fair: a thread
gets it once the others leave it alone, which they do, as the requests are bounded;
this stands for clients that pause. SIGINT is assumed to reach the main thread,
where `longjmp` is meant to run.

The runs of `Analyze`, `BPlusTree`, `Dml`, `Parser`, `Query`, `RecordInsert` and `Server`
turn deadlock checking off because their inputs or bounds exhaust; that no statement
of `Dml` gets stuck is part of `StatementEnds`.

## Proofs

`LRUReplacerProofs` has the lemmas on lists without repetition: taking the head,
removing a position, appending.

`BufferPoolProofs` proves for every pool size, set of files and clients, and any
number of I/O errors: `TypeOK`, `PageTableSync`, `PinsAreHolders`, `VictimsUnused`.
None is inductive alone. That a victim is unused needs the lists to be free of
repetitions and the pin counts to be the numbers of holders; the pin counts need
the page table to be a bijection between cached pages and frames; and that a
new page is not cached yet needs every cached page to be below `fd2pageno`
(`CachedIsAllocated`). The invariant `Inv` is the conjunction, with `HoldsFrame`:
what a client holds is mapped to the frame it has. There is one lemma per action.

`PageStoreProofs` proves, for the same pools and as long as no read or write has
failed, `NoFrameLost`, `UncachedOnDisk`, `CleanIsOnDisk` and the refinement
`ImplementsPageStore`. The three invariants (`DiskInv`) are inductive together with
`Inv`: a page that is evicted is lost by nobody because a clean frame equals its page
on disk and a dirty one is written back first, and a page comes back as it was
because every uncached page is on disk. The content of a page in `PageStore` is that
of its frame if it is cached, else that on disk. One lemma per operation shows at
once that `DiskInv` is kept and which step of `PageStore` the operation is: fetch,
new, unpin and write are the steps of that name, eviction and the flushes stutter.

`RecordFileProofs` proves `TypeOK`, `PagesConsistent` and
`FreeListIsPagesWithRoom` for every page capacity and file length, by the invariant
that some sequence without repetition lists the pages with room, is linked by
`next_free_page_no` and ends in `RM_NO_PAGE`. From it follows that `insert_record`
always finds a slot, when it runs alone. It also proves that the integer arithmetic
of `RmManager::create_file` and `IxManager::create_index` is right for every record size
and key length they accept: records and keys end before the page does, the bitmap
has a bit for every record, and the order of a tree passes the assertion.

`RecordScanProofs` adds `insert_record` at a rid and the scan. The hard part is the
free list: a rid beyond the end prepends several pages at once, and a page that
becomes full is unlinked from the middle by a walk along `next_free_page_no`. The
walk is a recursive function; what it visits is shown by its uniqueness, as the
function that follows the list to its end satisfies the same equations. Then
`ScanIsComplete` and `ScanMovesForward` follow from `ScanInv`: a scan between two steps
has returned only rids behind it, and all records behind it that stayed, whatever
the sessions did meanwhile.

`DmlInvariant` and `DmlProofs` prove `IndexMatchesTable` and `UniqueKeys` for every set
of sessions, rids, columns, values, column lists and work. `IndexMatchesTable` says
nothing of a row in flight, so it is not inductive. The invariant `Good(Own)` says which row
each index has for it (`ShownBy`): up to the index the executor has come to, the new
one (none for a delete), and from there on the old one (none for an insert); and what each executor may rely on where it
stands (`Fits`): the rids it still has to visit are rows of its own that are
there, the row it read is still the row, and no other row has a key it has checked.
These break when another session stores the key between check and insertion, for
which the code has no lock; the theorems say what holds up to that point. So the
invariant `Inv` is: an update was given up half-way, or two statements have raced, or
`Good(touched)` holds and what the sessions touch is separate (`SeparateSessions`). A
statement that begins without a race makes its footprint its own, and keeps it until
it ends; `touched` changes in no step in between (`StepTouches`). `IndexesMatchTable` and
`KeysAreUnique` assume nothing about sessions and statements. `OneSessionIsSafe` adds
that a session alone never races.

`ServerProofs` proves `OwnSocket`, `StatementIsOwn`, `SessionTransactions` and
`ExplicitTransactionsEnd` for every set of clients, of requests and number of
requests. The invariant `IInv` has three parts besides the types. `SockInv`: from
`pthread_create` until the thread has copied its socket, `sockfd` is that socket, the
mutex is locked and `start_server` is not past it. `ScanInv`: whoever is between
lock and unlock holds the mutex and the scanner, and the tree, once made, is that of
the holder's text. `TxnInv`: a thread's transaction is in the map and its own, is
unfinished while a statement runs, and is the only unfinished one of the thread.
`DispatchIsRight` follows the tables of `Dispatch` for every kind of statement.

The proofs rest on the assumptions named in the modules: `PoolAssumption` (a
positive pool size, natural descriptors, a zero page among the data),
`RecordAssumption` (at least one slot per page, which the arithmetic of
`create_file` gives), `DmlAssumption` (rids are numbers, columns of indexes are columns
of the table, statements store values of the columns) and `ServerAssumption` (the texts are of the kinds that exist).

Only model-checked:

- the liveness properties (`StatementEnds`, `ParserReturns`, `RequestsAnswered`,
  `ConnectionsServed`), which the prover does not treat;
- `BPlusTree`, `Query`, `Aggregate`, `Analyze` and `Parser`, which are recursive over
  trees, plans, rows or subqueries, where the prover has no induction;
- `Catalog`: its invariants rest on `db.meta` being read back as it was written, which is
  an induction over the sequence of its words;
- `FilesImplementPageStore`: closing and opening files writes out and reads in whole
  files under other descriptors; only the pool beneath them is proved.

## Not modelled

- The lock manager, the log and recovery: every lock call returns true, the bodies of
  log and recovery are empty. `disk_manager`'s log calls and the (de)serialisation of
  log records are called by nothing.
- The sort executor, a stub that returns no tuples, and with it the plan of ORDER BY.
- The knobs for join methods: they are shared by all sessions; the portal runs both
  kinds of join plan alike, and refuses a join with both knobs off.
- The letters of lexemes: flex's automaton is taken to recognise them. Formatting of
  results, the wording of answers, `output.txt`, the terminal client.
- Concurrent use of one B+ tree and concurrent DDL: the code has no latch for either,
  so there is no protocol to check. What statements do after SIGINT has closed the
  database is undefined for the same reason.
- Rows across a kill: record headers and tree headers reach the disk only when files
  are closed, and nothing recovers them. `db.meta` that is empty is read into
  uninitialised counts; `SurvivesCrash` counts that as lost.
- Overflow of SUM, FLOAT arithmetic and the bytes of strings. Lengths of columns are
  taken to be natural numbers (`CatalogAssumption`).
