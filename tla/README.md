# QFlock: a verification project

QFlock runs TPC-DS queries on a Spark cluster in one data center (dc1) over
tables of which some are stored in another (dc2).  An optimizer rule finds the
scans of remote tables, turns projection and filters into an SQL string and
replaces the scan by a JDBC relation.  Each Spark task of that relation opens a
connection to a Thrift server in dc2, names one row group of the table and sends
the SQL string; the server runs it in a Spark of its own and sends the columns
back, compressed.  A Hive metastore, reached through a proxy that adds
statistics, says where every table lives.

This directory holds TLA+ modules for the parts of that program, TLC
configurations that check them on small instances, and TLAPS proofs of what
matters most.  `PROJECT.json` maps every definition to the lines it models and
lists the runs, the mutants that show each property can fail, the hazards and
the theorems.

## 1. The system

| part | state it keeps | operations | talks to |
|---|---|---|---|
| **Pushdown rule** (`extensions/rules/QflockRule.scala`, `common/PushdownSQL.scala`) | none between plans; a plan | match a project/filter/scan, validate and clip filters, write the query, replace the scan | Spark's optimizer; the metastore's statistics |
| **Spark-side JDBC source** (`extensions/jdbc/`) | per task: connection, rows returned | plan one partition per row group, connect, execute, hand out one batch, close | the driver, by calls; Spark, which runs and retries tasks |
| **JDBC driver** (`jdbc/driver`) | a socket, a fair lock, `isClosed`; cursors | some sixty methods that lock, send, receive, unlock; `close` | the Thrift server, over one socket per connection |
| **Thrift server** (`jdbc/server/thrift_handler.py`) | tables of connections and statements, counters, a lock | create, prepare, execute, close | one thread per socket; the slot pool, through py4j |
| **Request-slot pool** (`datasource/QflockTableDescriptor.scala`) | per view a mutable record: offset, count, free | find and fill a record, free it | the server's threads, and the scans that Spark plans in the same JVM |
| **Row-group scan** (`datasource/QflockScan.scala`, …) | none; reads the record while it plans | one partition per row group of the record | Parquet files in HDFS |
| **Column encoding** (`thrift_handler.py`, `QflockResultSet.java`, `QflockJdbcColumnVector.scala`) | buffers of one answer | encode, compress; decode; read an item | the reply of `executeQuery` |
| **Metastore proxy** (`storage/metastore/hive_metastore_proxy.py`) | an upstream connection per client | forward calls; add statistics to an altered table | the Hive metastore, HDFS |
| **Location tools** (`qflock_metastore_*.py`) | the tables as they read them | two `alter_table` calls per moved table | the metastore |
| **HDFS readers** (`storage/metastore/pyhdfs`) | a prefetch window; a cache of readers and its lock; a byte count | seek, read, prefetch, close; get_reader | WebHDFS |
| **Relation statistics** (`QflockLogicalRelation.scala`, …) | sizes | estimate | Spark's join planning |
| vendored Parquet reader, generated Thrift code, benchmark, deployment scripts | | | not this project's concern |

**What is hard.**  The server is concurrent, and its central idea is fragile:
the row groups of a query do not travel in the SQL but beside it, in a record
that is found, filled, read (three times) and freed without any lock, by server
threads and Spark's planner.  A query that raises does not give its record back.
The connection and statement tables are shared by all clients.  In the driver
threads share one socket whose replies do not say whose they are, and `close`
works partly outside the lock.  On the compute side tasks fail and are run
again, and a reader infers "I am done" from the number of rows it has returned.
The pushdown rule must not change any answer, although it moves filters into a
text in another dialect, with other types and SQL's three-valued logic.  The
tools and the proxy write back whole tables they read earlier, beside each other
and without transactions; a tool moves a table in two calls and may be stopped
between them.  The HDFS readers answer from a window that may end behind the
file, in a buffer that may hold another column, through a reader that threads
share.

**What makes each part correct.**

* Pool: a record in use is in use by somebody; as many views as clients are
  enough; a query is answered from its own row groups; a record comes back.
* Server: handles of different clients never meet; a query runs with the
  properties of its own connection; nothing is forgotten early or kept late.
* Encoding: every item of a column that the decoder recognises is read back, one
  buffer per column, whatever becomes of the others.
* Scan: the rows of every row group are in the result exactly once, under any
  pattern of failures; a reader whose row group has rows leaves no connection open.
* Rule: the text means what the filters mean where it has the brackets and
  constants for it, and the rewritten plan then finds the rows of the plan it was
  given; what is supported throughout can be sent.
* Driver: own reply; the server is told before the socket goes; calls return.
* Metastore: a tool that ends has moved location and path of what it chose; the
  split is even; statistics are those of the files and are not lost; runs end.
* Readers: a read gives the file's bytes; a file is opened once; nobody waits for
  ever unless an opening has failed or a node is silent.

The full list of hazards, each at its line and with the properties that would
catch it, is in `PROJECT.json`.

## 2. The modules

| module | models | extends |
|---|---|---|
| `ScanService` | abstract: what a client is promised | |
| `RequestPool` | slot pool, `exec_query`, planning of the scan | instantiates `ScanService` |
| `JdbcServer` | Thrift handler, its tables, and sockets; composes them with the pool | `RequestPool` |
| `CallService` | abstract: what a driver connection promises its threads | |
| `DriverConnection` | a driver connection shared by threads | instantiates `CallService` |
| `RemoteScan` | partitions, tasks and readers on the compute side | |
| `ColumnWire` | encoding, compression, decoding, item access | |
| `FilterExpressions` | Catalyst trees and their three-valued evaluation, `PushdownSQL`'s text, how the server reads it (pure) | |
| `PushdownRule` | `QflockRule` and what the new plan answers | `FilterExpressions` |
| `Metastore` | tables, location tools, proxy sessions, a metastore that goes down | |
| `HdfsReader` | reader cache, row-group reads, prefetch window | |
| `MC*` | instances for TLC | the module they are named after |
| `RequestPool_proofs`, `JdbcServer_proofs`, `DriverConnection_proofs`, `RemoteScan_proofs`, `ColumnWire_proofs`, `PushdownRule_proofs`, `Metastore_proofs`, `HdfsReader_proofs` | theorems | what they are named after |

A definition named `…Forgets`, `…Skips`, `…NoBound` and so on, marked *Mutant*,
is a plausible bug in the definition that follows it.  It is used by no
specification; put in the place of the real one it makes TLC refute a property.

### RequestPool and ScanService

A thread of the model is a handler thread in `exec_query`; its `pc` is where it
is.  `Ask` is the entry; `FindFree`/`FindBusy`/`Exhausted` are the steps of
`requestMap.find`; `Fill(t, f)` is one of the three stores of `fill`, in any
order, because they are plain fields read by other threads without
synchronisation; `ReadStart`, `ReadBound`, `ReadLength` are the three reads that
`createPartitions` makes of the record; `OutOfRange` is `parquetBlocks.get(i)`
beyond the file; `Raise` any other exception; `FreeRequest` is `freeRequest`.
There is no handler between fill and free, so an exception leaks the record;
`leaked` remembers which.

`ScanService` is the promise: a client's answer is made of exactly the groups it
asked for, and only a client whose queries may raise is refused.  The pool
*does not* keep it for clients that share a table (a finding), and *does* for
clients that share none: `ServesAlone` is the refinement for those, whatever the
others do.

### JdbcServer

Extends the pool with `createConnection`, `createPreparedStatement`,
`preparedStatement_executeQuery`, `preparedStatement_close`, `closeConnection`,
and with the client's end, which sends a call and waits.  The critical section
is split into acquire, read of the counter, and the rest, as `_lock` is what
makes it atomic.  Lookups and deletions take no lock in the code and none here.
`Break` is the loss of a socket: nothing in the server removes the connection,
and `lost` remembers it.

### DriverConnection and CallService

`transportLock` is a fair `ReentrantLock`: a queue with the holder at its head.
A call is `lockClient`, `Send`, `Receive` or `Fail`, and `unlockClient` in the
finally clause; the socket is two queues and the ways in which it can be
unusable.  `Close` tests `isClosed` before it asks for the lock; `MarkClosed` and
`CloseTransport` come after it is released.  All the methods that ask the server
have this one form; the lines mapped are one such method of each class.

`CallService` has neither lock nor socket: a call is made (`Ask`), takes effect at
the server, and returns or raises; one that has raised may take effect later, and
the connection is shut only when the server knows or cannot be told.
`DriverConnection` refines it (`ServesCalls`): a call is *served* once its reply
is on the way back, and *lost* while its request is on the socket and its caller
has given up.

### RemoteScan

`Plan` divides by `numRowGroups`, as `createPartitions` does, so the job fails
when there are none.  A task connects, executes, returns its batch, is polled
again and closed, and may raise or crash at every point; Spark, which is
external, retries it up to `MaxAttempts` times.  `numRowGroups` is any value,
because the metastore's parameter is set when a table is altered and not when
its file changes.

### ColumnWire

A column is its type, the length of each string, numpy's item size and whether it
has a null; a buffer is the items in the clear or zstd's output.  The model follows
`exec_query` column by column and `QflockResultSet` through its loop, in which
`compressedColumnBytes` that equals `columnBytes` means "not compressed".  Such a
column is lost, and the loop's count of columns, by which it looks up their types,
stays behind; `ItemsSurvive` says which columns that leaves alone.

### FilterExpressions and PushdownRule

An expression is a tree: a function from positions, the paths of child numbers
from the root, to nodes.  What a recursive method of the code visits is then a
set of positions (`Reached`): those all of whose ancestors it descends into; a
value is a recursive function over the positions (`Values`).  `Eval` is the
reference: SQL's three-valued evaluation with Spark's type coercion.

The text `PushdownSQL` writes for a filter (`buildFilterExpression`) is modelled by
its pieces, one for each node: a part without a text is a `Hole`, one that nobody can
read (an apostrophe between quotes, a string without them) is `Garbled`, a literal is
a quoted string with its apostrophes doubled, the list of an IN holds the quoted
`toString` of its elements, that of an InSet unquoted numbers and column names, a
prefix is a LIKE pattern, a cast leaves no trace.  What the server reads is a second
step, because the code writes no brackets around comparisons, null tests, IN and LIKE.
A `Phrase` is what stands between two brackets: perhaps a NOT, a first operand, and the
comparisons and predicates that follow it; `Meaning` takes them from the left to the
right and lets the NOT negate all of it, as Spark's grammar does.  `Parses` says which
texts the parser and the analyzer accept.

`PushdownRule` takes a plan (project, filters), location and option through the rule's
guards to the new scan, query and residual filters, and then answers it.  Filters are
those that can come out of Spark's analysis and constant folding (`IsFilter`).
`Legible` and `SupportedThroughout` are properties of filters: the first says that
there are brackets wherever the server needs them and no cast or constant that is
written otherwise, the second that every part has a text that can be parsed.

### Metastore

A table is its location, the path parameter of its serde (some have none), its
size and its number of row groups; 0 row groups stand for "no statistics".  A
tool is a process: `Start` with a command line, `OpenMetastore` (the retry
loop), one `ReadTable` per table, `Sort`, then per table of the sorted list
`Skip`, or `AlterLocation` and `AlterPath`, each of which writes back the whole
table as the tool has it; `Stop` may come at any point.  The two tools differ in
what they pick (`Picks`).  A session is a thread of the proxy with its own
connection: `GetTable`, then `AddStatistics` and `ForwardAlter`, the two halves
of `alter_table_with_environment_context`; `HandlerEnds` is the end of `handle`.
The error of a table without a file with bytes ends in an error reply, which the
generated `process_…` method makes of any exception.  `Down` cuts all
connections; `Up` brings the same tables back.  `inserted` and `foreign` are
histories that the properties need: whose files have changed, and what others
have written since a tool read or wrote a table.

### HdfsReader

The byte at a position of the file *is* that position, so "the right bytes" can
be said without contents.  `GetReaderStep` and `Acquire` are `get_reader` line by
line; `Store` is the end of `ParquetReader.__init__`, and `OpenRaises` its
exception, after which the lock stays taken.  `Prefetch` and `Read` follow
`WebHdfsFile`: the window is what was *asked for*, the buffer keeps what the
answer does not overwrite, and the answer of a data node (`Bodies`) may be
short or an error page, as neither length nor status is looked at.  fastparquet
is external: it seeks in any of the three ways and reads anywhere inside the
chunk, or the footer, it is at.

## 3. The runs

| run | asks | instance | result |
|---|---|---|---|
| `pool_slots` | are records held, are views enough, is the range inside the file? | 2 threads, 1 table, 2 views, 3 row groups, one thread may raise | holds |
| `pool_service` | are clients that share nothing served as by an atomic server, and do records come back? | 3 threads, 2 tables, 1 view, ranges of different length; liveness | holds |
| `pool_wrong_groups` | is every query answered from its own row groups? | 2 threads, 1 table, 2 views | **refuted**: finding |
| `server_tables` | handles, properties, entries | 2 clients, 2 tables, 3 ids of either kind | holds |
| `driver_connection` | replies, closing, atomic calls, progress | 3 threads | holds |
| `remote_scan` | every row group once, and an end | 2 row groups, 2 attempts, 2 polls, every count | holds |
| `column_wire` | are items read back? | 3 columns, 2 rows, strings up to 2, zstd shorter, equal, longer | holds of the columns it is stated for |
| `column_wire_padding` | do strings keep their length? | the same | **refuted**: finding |
| `pushdown_rule` | is an answer ever wrong, is a supported plan answered? | 6 projects, 868 sets of filters of depth up to 4 (the bound is 3), 12 rows with nulls and an apostrophe | holds |
| `pushdown_text` | is the pushed filter the plan's? | the 11 filters whose text means something else, one at a time | **refuted**: finding |
| `metastore` | are tables moved whole, is a split even, are statistics true and kept, do runs end? | 2 tables, a split and a move back, 1 session, 2 starts, 1 insert, kills, a metastore that goes down; liveness | holds |
| `hdfs_readers` | does a read give the file's bytes, is a file opened once, does every caller get a reader? | 2 threads, a file of 3 bytes, 2 columns, windows that overlap and end behind the file; liveness | holds |

**Bounds.**  Two threads on one record are what every race of the pool needs, and
a third one on another table shows that it stays there.  One view makes threads
meet on a record at once; two let the search pass a busy one.  Three row groups
let a torn range (start of one, end of another) be neither of the two requests.
Three ids of each kind in the server let a client come back with a new
connection while old ones are lost or closed.  Three threads on a connection are a holder, one that waits and one
that closes.  Two row groups and two attempts let one task fail while another
succeeds.  A table with every combination of 9, 10 and null in an integer and a
text column tells every operator apart, because 10 comes before 9 as text; the texts
`'`, `''` and `_`, the columns' names and the word that stands for null are what the
code writes otherwise.  Every filter of `Miswritten` alone refutes `ClippedIsPushed`.
Two tables of different sizes, the smaller listed first, tell the sorted order
from the list's; a split and a move back that start in either order, overlap, or
follow a stopped run meet every pair of writes.  A file of three bytes, chunks
`0..1` and `1..2`, a buffer of three and a slack of two put the second window
both inside the first and behind the end of the file, and make the buffer too
short once and reused once.
`MaxId` and the `Max…` constants are the only bounds on what the code leaves
unbounded; each is commented as a bound where it is declared.

**Deadlock** is checked except where the system ends: one scan, one answer, one
plan, the server, whose bounded ids run out, and the readers, where one failed
opening leaves everybody else behind the cache's lock.

**Fairness.**  `PoolFairSpec`: a thread with a query keeps running; no step waits
for another thread.  `ConnFairSpec`: threads that can run do, the lock is fair in
the code (`new ReentrantLock(true)`), and the server answers or the network
reports that it broke.  That last part is an assumption: the socket has no
timeout, so a server that disappears silently blocks its callers for ever, which
is listed as a hazard.  `ScanFairSpec`: Spark runs its tasks and gives up after
`MaxAttempts`.  These are weak fairness.  `MetaFairSpec`: a tool that is not
killed goes on, the metastore is brought up again, and - strongly fair, as it may
go down again in between - a tool that retries its connection every second finds
it up sooner or later.  `ReaderFairSpec`: threads in `get_reader` go on, except
that fastparquet may fail in an opening; taking the lock is strongly fair,
because Python's `threading.Lock` is not: a thread that finds it free again and
again is assumed to get it.  That openings end is an assumption like the driver's:
the connections of `webhdfs.py` (36, 56, 88, 115) have no timeout, so a node that
accepts a connection and says nothing blocks the caller for ever, with the lock in
its hands.

## 4. What is proved

For every number of threads, tables, views, row groups, queries and ids, from
`PoolAssumption` and `ServerAssumption` only (clients ask for row groups the file
has; `None` is no id):

* `PoolTypeCorrect`, `SlotsAreHeldOrLeaked`, `EnoughViewsWithoutLeaks`
  (`RequestPool_proofs`).  The type invariant needs `GivenViewExists`: whoever is
  past the search has an id below `MaxViews`.  That enough views suffice although
  the search is not atomic is the least obvious: a thread could find every record
  in use one after the other, although they never all are at once.  It cannot,
  because it passes a record only while another thread sits there: of N threads at
  most N - i are at record i or beyond (`FewBeyond`).
* `UniformRangesAreInFile` (`RequestPool_proofs`): a torn range ends at the offset
  of one query plus the count of another.  A record's offset is always 0 or one a
  client asked for (`Starts`), so with ranges of one length that end is in the file.
* `AloneClientsAreServed` (`RequestPool_proofs`): `PoolSpec` implements
  `ScanService` for the clients that share no table, with a refinement mapping
  in which a query is pending from `Ask` to `FreeRequest`.  The invariant says
  that such a client's record holds what it wrote (`OwnRecord`), that a record is
  leaked only by a client of its table (`LeakedByUser`), and hence that a client
  that never raises finds record 0 free.
* `ServerTypeCorrect`, `HandlesAreDistinct`, `QueriesUseOwnProperties`, `TableIsOpenOrLost`,
  `OnlyClosedStatementsFail` (`JdbcServer_proofs`).  `ServerInv` adds to them who
  holds the lock (`Locked`), which handles a call may use (`Called`), that ids in
  use are below the counters (`Drawn`) and that a client's handles lead to its
  own properties (`Linked`).
* `ServerUsesThePool` and `ServerServesAlone`: every behaviour of the server is
  one of the pool, so the promise to clients that share no table holds through
  connections and statements.  `ClientsGetTheirRows` is the end-to-end statement:
  what such a client is answered was read from the row groups it connected for.
* `ConnTypeCorrect`, `CallersReadOwnReply`, `ServerToldBeforeClosed`
  (`DriverConnection_proofs`).  `ConnInv` says that only the lock's holder is in
  the middle of a call (`SenderHoldsLock`), that a working socket carries at most
  the holder's request or its reply (`OneInFlight`), and that whoever is back
  from `closeConnection` has left no entry or a broken socket (`ClosersTold`).
* `CallsAreAtomic` (`DriverConnection_proofs`): a connection implements
  `CallService`, for any number of threads.  `OneInFlight` speaks of a socket that
  works; the refinement also needs to know what a call that failed has left behind
  (`Carried`): at most one request or reply, which is that of the only thread in
  the middle of a call or of one that has given up.
* `ScanTypeCorrect`, `GroupsAreReadOnce`, `NoGroupIsMadeUp`,
  `ReadersHoldOneConnection` (`RemoteScan_proofs`), for every number of row groups
  and of attempts and polls.  `ScanInv` says that a task that is done and has not
  raised has output the rows of its group (`GroupReturned`), that the plan has a
  task per group (`PartitionsPlanned`), that no task is retried beyond its
  attempts (`AttemptsLeft`) and which sockets a task may have (`SocketKnown`).
* `WireTypeCorrect`, `ItemsAreReadBack`, `BuffersAreColumns` (`ColumnWire_proofs`),
  for every number, type and order of columns, rows, string lengths, and whatever
  zstd does to the lengths.  `WireInv` says that the sizes told are those of the
  columns at the same place (`SizesTold`) and that the decoder's own count of the
  columns is right as long as none that it has seen was sent with its own length, and
  that a buffer is in the clear if its own column was not (`CountIsRight`).
* `OnlyUniformStringsSurvive` (`ColumnWire_proofs`): the property the
  `column_wire_padding` run refutes is true of a result exactly if the strings of
  each column it speaks of have one length.
* `RuleTypeCorrect`, `RuleKeepsRows`, `SupportedQueriesAreAnswered`
  (`PushdownRule_proofs`), for every table, project and set of filters, of any
  depth.  They rest on three facts about the clause that `PushdownSQL` writes.
  `MeaningOfPiece`: with brackets where they are needed (`Bracketed`) the server reads
  in every part of a text what its pieces mean, so the phrases, which know no tree,
  are the tree again.  `TextKeepsValues`: a text that can be read and whose filter is
  `Legible` has the filter's value on every row, null included; types need not be the
  same, because a literal is a string in the text, and a comparison of which one side
  is no literal does not see the difference (`ComparedAlike`).  `ClauseMeansFilters`:
  hence the clause is implied by the filters, and implies them if all are valid.
  `SupportedParses` is the fact that the third theorem needs: no part is without a
  text, no predicate is followed by an operator, and the whole is a truth value.
  The first three are inductions over a tree from its leaves (`BottomUp`).  `RuleInv`
  adds that a plan was made of the filters it still has (`Planned`).
* `LegibleClippedIsPushed` (`PushdownRule_proofs`): the property the `pushdown_text`
  run refutes is true of every plan whose filters are `Legible`.  That is a sufficient
  condition: some filters that are not happen to mean what their text means.
* `MetaTypeCorrect`, `RunsMoveTables`, `StatisticsOfLoadedFiles`,
  `StatisticsAreKept` (`Metastore_proofs`), for every number of tables, tools,
  sessions, starts and inserts.  `MetaInv` says that every copy of an unchanged
  table has no statistics or those of its files (`CopiesAsLoaded`), that a tool
  past its sort knows the statistics of all tables, and so does whoever is about
  to write (`WritersKnow`), that what a tool has of a table nobody else wrote
  since is what the metastore has (`Mirrors`), and that a chosen table it has
  left behind is moved (`Visited`).
* `SplitsAreEven` (`Metastore_proofs`): what the split tool chooses is at least half
  of the bytes, and at most the largest table more than the rest, for every list of
  tables.  `SplitInv` (`Level`) says so of every prefix of the sorted list, and
  that after an even number of tables the surplus covers what any table to come
  can add (`Balance`); the bytes of a set of tables are the cardinality of a set.
* `ReaderTypeCorrect`, `ReadersAreOpenedOnce`, `ReadersReadTheFile`
  (`HdfsReader_proofs`), for every file size, column layout, buffer size and
  number of threads.  `ReaderInv` says that a thread reads with a file of its own
  (`OwnFiles`), that only the lock's holder opens (`OneOpener`), and that a thread
  that got no broken answer has a window whose part inside the file holds the
  file's bytes.

**How inductions are done.**  The library's induction theorems take an operator
as a parameter, which the provers cannot instantiate.  Two ways around it are
used.  A sum over a set is a cardinality (`Bytes`), whose facts need no
induction; and an induction over natural numbers is a proof by contradiction from
the least counterexample, a set, which `WellFoundedInduction` provides
(`LeastNatural` in `PushdownRule_proofs`).  What is proved never mentions a
RECURSIVE operator; none is left.

**Only model-checked**: liveness (`EverySlotComesBack`, the fair half of
`ServesAloneFair`, `EveryCallReturns`, `EveryJobEnds`, `EveryRunEnds`,
`ReaderOrFailure`), since neither ENABLED nor fairness is in the prover's reach.
Every invariant and every safety property of a passing run is a theorem.

## 5. What the code does otherwise than it says

The three violation runs are the findings of `PROJECT.json`: two queries may share
a record; strings arrive padded; clipped filters select other rows than the query.
The last has many causes, all in the text (`PushdownSQL.scala`), of which `Miswritten`
has one filter each:

* casts leave no trace, and literals are quoted (170, 79): text is compared to text;
  a filter that is a cast of something without a text vanishes from the query;
* comparisons and IS NOT NULL have no brackets (72, 152): `(NOT x) IS NOT NULL` is read
  as `NOT (x IS NOT NULL)`, and `(a = b) = (c < d)` as `((a = b) = c) < d`;
* the list of IN is the quoted `toString` of its elements (100): a null becomes the text
  `null`, a column becomes its name with an expression id;
* the strings of an InSet have no quotes (105) and are read as columns, if there are
  columns of that name, and as an error otherwise;
* apostrophes in a literal are doubled and escaped (76), so one becomes two; in IN and
  LIKE they end the literal;
* `%` and `_` in a prefix are wildcards (159), and what is no constant in a prefix is
  its `toString`.

Noted while reading, without a run:

* A query that raises between `fillRequestInfo` and `freeRequest` loses its
  record for ever (`leaked` in `RequestPool`), so that "out of requests" can be
  thrown although there are as many views as clients; `EnoughViewsUnlessLeaked`
  is what remains true.
* `validateFilterExpression` (`PushdownSQL.scala:348`) says true for IN, CAST, /
  and substring without looking below them, so `upper(s) IN (…)` is clipped from
  the plan and written as ` IN ('…')`, which the server cannot parse;
  `SupportedIsAnswered` leaves such filters out.
* `README.md:67` says that the split tool divides tables evenly.  It only moves
  tables from dc1 to dc2, so after `one_location.py dc2`, the line before, all of
  them are and stay in dc2; `SplitBalances` is about what it *chooses*.
* A failed opening in `get_reader` leaves the cache's lock taken
  (`parquet.py:22-26`): every later call waits for ever.  `ReaderOrFailure` says
  that this is the only way to wait for ever as long as the HTTP nodes answer; one
  that is silent, which no timeout of `webhdfs.py` ends, is the other.
* A compressed column exactly as long as the original is taken for uncompressed
  by the decoder, and the strings after it may be unreadable (`ItemsSurvive` says
  that no more is lost), and a column of whole numbers with a null becomes floating
  point in pandas before it is encoded.
* The loop that prints the tables at the end of the location tools
  (`qflock_metastore_one_location.py:118`) raises for a table without a path, after
  all tables have been moved.
* When every filter of a plan is invalid the rule may still inject a relation
  (`QflockRule.scala:282`), and logs "Plan not modified due to project" at line
  189 before it goes on.
* A reader whose answer is empty connects again if it is polled again, and the
  first connection is never closed.
* `cancel()` waits for the lock that the running query holds.

## 6. What is not modelled

Query ids and their log; calls of the service that only log or return constants;
the session-wide `USE db` (views have no database); the row-wise reader, which
Spark never asks for; in filters, Substring, dates, timestamps and fractions, backslashes
and two apostrophes side by side in a string, and numbers written in another way than
`toString` does; <=, > and >=, EndsWith and Contains, - and * beyond the operator of their
kind that is modelled; the size of an answer that the client logs; the aggregate pushdown, switched off by `if false`; re-application of the
rule to its own relation; byte layouts; the statistics per column; the calls that
the proxy forwards unchanged; `ArrowParquetReader`, which nothing uses.
Components without a module, with the reason, are in `PROJECT.json`.

Of the repository's 74 thousand lines of Python outside its benchmark some 72
thousand are `pymetastore`, which the Thrift compiler generated: readers and
writers of some two hundred message types and one stub per call, without logic
of the program.  The calls the tools and the proxy make through it are in
`Metastore`, with the one thing of it that matters there, what becomes of an
exception.

## 7. Plan

Done: pool, service, server, wire, scan, rule, driver connection, metastore with
its tools and proxy, HDFS readers; proofs of the pool, the refinement, the server,
the driver and its refinement, the scan, the encoding, the rule, the metastore
and the readers.  What would come next:

1. A composition of `RemoteScan` with `ScanService`: rows of a query end to end,
   when the tables are shared and when they are not.
2. `ResultSetCursor`: `next`, `previous`, `absolute` against JDBC's cursor.
3. `PlanSizes`: 32-bit sums of estimates.
4. Proofs: an abstract file that `HdfsReader`'s `Read` implements, a job that
   outputs each row group once or fails for `RemoteScan`, in the manner of
   `CallService`.
