------------------------------- MODULE Metastore -------------------------------
(***************************************************************************)
(* The tables of the Hive metastore, and those who write them.             *)
(*                                                                         *)
(* Spark sessions reach the metastore through a proxy                      *)
(* (hive_metastore_proxy.py), which serves each of them by a thread with a *)
(* connection of its own to the metastore and adds statistics to every     *)
(* table that alter_table_with_environment_context writes: the size of its *)
(* files, and the number of row groups of the first one that is not empty. *)
(* The pushdown rule and the remote scan rely on them.                     *)
(*                                                                         *)
(* Two tools move tables between the data centers, without the proxy:      *)
(* qflock_metastore_one_location.py moves the chosen tables to one of      *)
(* them, qflock_metastore_split_locations.py every second table, by size,  *)
(* to dc2.  They read all the tables first, and then write back, table by  *)
(* table, what they read: once with the new location and once more with    *)
(* the new path.  The metastore (external) replaces the whole table at     *)
(* each write, has no transactions over several calls, and may go down.    *)
(***************************************************************************)
EXTENDS Integers, FiniteSets

CONSTANTS NumTables,   (* a table is its position in get_all_tables        *)
          Tools,       (* processes that run one of the tools              *)
          Sessions,    (* Spark sessions, each a thread of the proxy       *)
          Programs,    (* the command lines each of them is started with   *)
          Loaded,      (* the files of each table, as loaded in both       *)
                       (* data centers                                     *)
          NewFile,     (* what Spark may add to a table later              *)
          WithPath,    (* tables whose serde has the parameter `path`      *)
          MaxStarts,   (* bound: how often tools are started               *)
          MaxInserts   (* bound: to how many tables Spark adds a file      *)

Tables      == 1 .. NumTables
DataCenters == {"dc1", "dc2"}
NoPath      == "none"

\* What the proxy looks at in a table's directory: the size of all files, and
\* the row groups of the first one that is not empty, 0 if there is none.
Directory == [size : Nat, groups : Nat]

\* A table as the metastore keeps it; without row groups it has no statistics
\* among its parameters.
TableRecord == [location : DataCenters, path : DataCenters \cup {NoPath},
                size : Nat, groups : Nat]

Known(row) == row.groups > 0

\* one_location.py <dest> <filters>, or split_locations.py.
Program == [kind : {"one", "split"}, dest : DataCenters, tables : SUBSET Tables]

ASSUME MetastoreAssumption ==
  /\ NumTables \in Nat
  /\ MaxStarts \in Nat
  /\ MaxInserts \in Nat
  /\ Tools \cap Sessions = {}
  /\ Programs \in [Tools -> (SUBSET Program) \ {{}}]
  /\ \A p \in Tools : \A g \in Programs[p] : g.kind = "split" => g.dest = "dc2"
  /\ Loaded \in [Tables -> Directory]
  /\ NewFile \in Directory
  /\ WithPath \subseteq Tables

VARIABLES
  meta,      (* the metastore's tables                                     *)
  files,     (* the directories, by data center and table                  *)
  up,        (* whether the metastore answers                              *)
  pc,        (* where a tool is                                            *)
  program,   (* the command line it runs                                   *)
  copy,      (* the tables as it read them, and changed them since         *)
  todo,      (* the tables it has still to read, or to visit               *)
  chosen,    (* the tables this run has chosen to move                     *)
  link,      (* a session's connection from the proxy to the metastore     *)
  stage,     (* where the proxy's thread is in the session's call          *)
  subject,   (* the table the session works on, 0 if none                  *)
  held,      (* that table, as it was read                                 *)
  starts,    (* bounded by MaxStarts                                       *)
  inserted,  (* history: the tables with files added since they were loaded*)
  foreign    (* history: per tool, what others wrote since it read or wrote*)

toolVars    == <<pc, program, copy, todo, chosen, starts>>
sessionVars == <<link, stage, subject, held>>
metaVars    == <<meta, files, up, toolVars, sessionVars, inserted, foreign>>

\* The table as loaded, with or without statistics.
LoadedTable(t, known) ==
  [location |-> "dc1", path |-> IF t \in WithPath THEN "dc1" ELSE NoPath,
   size |-> IF known THEN Loaded[t].size ELSE 0,
   groups |-> IF known THEN Loaded[t].groups ELSE 0]

\* Before a table is read.
NoTable == [location |-> "dc1", path |-> NoPath, size |-> 0, groups |-> 0]
Unread  == [t \in Tables |-> NoTable]

MetaInit ==
  /\ \E analysed \in SUBSET {t \in Tables : Loaded[t].groups > 0} :
       meta = [t \in Tables |-> LoadedTable(t, t \in analysed)]
  /\ files    = [d \in DataCenters |-> Loaded]
  /\ up       = TRUE
  /\ pc       = [p \in Tools |-> "idle"]
  /\ program  = [p \in Tools |-> CHOOSE g \in Programs[p] : TRUE]
  /\ copy     = [p \in Tools |-> Unread]
  /\ todo     = [p \in Tools |-> {}]
  /\ chosen   = [p \in Tools |-> {}]
  /\ link     = [s \in Sessions |-> "closed"]
  /\ stage    = [s \in Sessions |-> "idle"]
  /\ subject  = [s \in Sessions |-> 0]
  /\ held     = [s \in Sessions |-> NoTable]
  /\ starts   = 0
  /\ inserted = {}
  /\ foreign  = [p \in Tools |-> {}]

\* alter_table and its like: the table is replaced by `row`, whatever it was.
\* For every tool but the writer the table has changed behind its back.
Write(w, t, row) ==
  /\ meta'    = [meta EXCEPT ![t] = row]
  /\ foreign' = [p \in Tools |-> IF p = w THEN foreign[p] ELSE foreign[p] \cup {t}]

-----------------------------------------------------------------------------
(***************************************************************************)
(* The tools.                                                              *)
(***************************************************************************)
Connected == {"reading", "location", "path"}
Running   == Connected \cup {"connect"}

\* What a process knows is gone with it.
Forget(p) ==
  /\ copy'    = [copy EXCEPT ![p] = Unread]
  /\ todo'    = [todo EXCEPT ![p] = {}]
  /\ chosen'  = [chosen EXCEPT ![p] = {}]
  /\ foreign' = [foreign EXCEPT ![p] = {}]

Start(p, g) ==
  /\ pc[p] \notin Running
  /\ starts < MaxStarts
  /\ starts'  = starts + 1
  /\ pc'      = [pc EXCEPT ![p] = "connect"]
  /\ program' = [program EXCEPT ![p] = g]
  /\ Forget(p)
  /\ UNCHANGED <<meta, files, up, sessionVars, inserted>>

\* The loop that retries open every second ends once the metastore is up.
OpenMetastore(p) ==
  /\ pc[p] = "connect"
  /\ up
  /\ pc'   = [pc EXCEPT ![p] = "reading"]
  /\ todo' = [todo EXCEPT ![p] = Tables]
  /\ UNCHANGED <<meta, files, up, program, copy, chosen, starts, sessionVars,
                 inserted, foreign>>

\* get_table, one call per table.
ReadTable(p, t) ==
  /\ pc[p] = "reading"
  /\ t \in todo[p]
  /\ \A u \in todo[p] : t <= u
  /\ copy'    = [copy EXCEPT ![p][t] = meta[t]]
  /\ todo'    = [todo EXCEPT ![p] = @ \ {t}]
  /\ foreign' = [foreign EXCEPT ![p] = @ \ {t}]
  /\ UNCHANGED <<meta, files, up, pc, program, chosen, starts, sessionVars, inserted>>

\* Mutant of Sort: a table without qflock.storage_size counts as empty.
SortAnyway(p) ==
  /\ pc[p] = "reading"
  /\ todo[p] = {}
  /\ pc'   = [pc EXCEPT ![p] = "location"]
  /\ todo' = [todo EXCEPT ![p] = Tables]
  /\ UNCHANGED <<meta, files, up, program, copy, chosen, starts, sessionVars,
                 inserted, foreign>>

\* Mutant of Sort: the tool waits for the statistics, with what it has read.
SortWaits(p) ==
  /\ pc[p] = "reading"
  /\ todo[p] = {}
  /\ \A t \in Tables : Known(copy[p][t])
  /\ pc'   = [pc EXCEPT ![p] = "location"]
  /\ todo' = [todo EXCEPT ![p] = Tables]
  /\ UNCHANGED <<meta, files, up, program, copy, chosen, starts, sessionVars,
                 inserted, foreign>>

\* The sort: its key is a KeyError for a table without statistics, which ends
\* the tool; otherwise all the tables are visited, in the order of Precedes.
Sort(p) ==
  /\ pc[p] = "reading"
  /\ todo[p] = {}
  /\ IF \A t \in Tables : Known(copy[p][t])
     THEN /\ pc'   = [pc EXCEPT ![p] = "location"]
          /\ todo' = [todo EXCEPT ![p] = Tables]
          /\ UNCHANGED <<copy, chosen, foreign>>
     ELSE /\ pc'   = [pc EXCEPT ![p] = "stopped"]
          /\ Forget(p)
  /\ UNCHANGED <<meta, files, up, program, starts, sessionVars, inserted>>

\* Mutant of Precedes: the tables are not sorted.
PrecedesUnsorted(c, t, u) == t <= u

\* The order of a stable sort by size, the largest first.
Precedes(c, t, u) == c[t].size > c[u].size \/ (c[t].size = c[u].size /\ t <= u)

\* The tool is at table t of its loop.
At(p, t) ==
  /\ t \in todo[p]
  /\ \A u \in todo[p] : Precedes(copy[p], t, u)

\* Whether the run is to move the table it is at: a filter matches its name, or
\* its index is even.
Picks(p, t) ==
  IF program[p].kind = "one" THEN t \in program[p].tables
  ELSE Cardinality(Tables \ todo[p]) % 2 = 0

Source(p) == IF program[p].dest = "dc1" THEN "dc2" ELSE "dc1"

Skip(p, t) ==
  /\ pc[p] = "location"
  /\ At(p, t)
  /\ ~Picks(p, t)
  /\ todo' = [todo EXCEPT ![p] = @ \ {t}]
  /\ UNCHANGED <<meta, files, up, pc, program, copy, chosen, starts, sessionVars,
                 inserted, foreign>>

\* Mutant of AlterLocation: a table that is not where the run moves tables from
\* is left out, its path included.
AlterLocationOrSkip(p, t) ==
  /\ pc[p] = "location"
  /\ At(p, t)
  /\ Picks(p, t)
  /\ chosen' = [chosen EXCEPT ![p] = @ \cup {t}]
  /\ IF copy[p][t].location = Source(p)
     THEN /\ copy' = [copy EXCEPT ![p][t].location = program[p].dest]
          /\ Write(p, t, copy'[p][t])
          /\ pc' = [pc EXCEPT ![p] = "path"]
          /\ UNCHANGED todo
     ELSE /\ todo' = [todo EXCEPT ![p] = @ \ {t}]
          /\ UNCHANGED <<meta, foreign, copy, pc>>
  /\ UNCHANGED <<files, up, program, starts, sessionVars, inserted>>

AlterLocation(p, t) ==
  /\ pc[p] = "location"
  /\ At(p, t)
  /\ Picks(p, t)
  /\ chosen' = [chosen EXCEPT ![p] = @ \cup {t}]
  /\ pc'     = [pc EXCEPT ![p] = "path"]
  /\ IF copy[p][t].location = Source(p)
     THEN /\ copy' = [copy EXCEPT ![p][t].location = program[p].dest]
          /\ Write(p, t, copy'[p][t])
     ELSE UNCHANGED <<meta, foreign, copy>>
  /\ UNCHANGED <<files, up, program, todo, starts, sessionVars, inserted>>

AlterPath(p, t) ==
  /\ pc[p] = "path"
  /\ At(p, t)
  /\ pc'   = [pc EXCEPT ![p] = "location"]
  /\ todo' = [todo EXCEPT ![p] = @ \ {t}]
  /\ IF copy[p][t].path = Source(p)
     THEN /\ copy' = [copy EXCEPT ![p][t].path = program[p].dest]
          /\ Write(p, t, copy'[p][t])
     ELSE UNCHANGED <<meta, foreign, copy>>
  /\ UNCHANGED <<files, up, program, chosen, starts, sessionVars, inserted>>

\* All tables are visited.  The loop that prints them follows, and is a KeyError if
\* one has no path: an error exit then, but after all writes, and done either way.
Finish(p) ==
  /\ pc[p] = "location"
  /\ todo[p] = {}
  /\ pc' = [pc EXCEPT ![p] = "done"]
  /\ UNCHANGED <<meta, files, up, program, copy, todo, chosen, starts, sessionVars,
                 inserted, foreign>>

\* A call fails, the last answer is lost or the tool is killed: nothing is undone.
Stop(p) ==
  /\ pc[p] \in Running
  /\ pc' = [pc EXCEPT ![p] = "stopped"]
  /\ Forget(p)
  /\ UNCHANGED <<meta, files, up, program, starts, sessionVars, inserted>>

ToolStep(p) ==
  \/ OpenMetastore(p)
  \/ Sort(p)
  \/ Finish(p)
  \/ \E t \in Tables :
       ReadTable(p, t) \/ Skip(p, t) \/ AlterLocation(p, t) \/ AlterPath(p, t)

-----------------------------------------------------------------------------
(***************************************************************************)
(* Spark's sessions, through the proxy.                                    *)
(***************************************************************************)
\* The session's thread of the proxy creates its handler, which connects to the
\* metastore.  If that is down the constructor raises and the thread ends.
OpenHandler(s) ==
  /\ link[s] = "closed"
  /\ up
  /\ link' = [link EXCEPT ![s] = "open"]
  /\ UNCHANGED <<meta, files, up, toolVars, stage, subject, held, inserted, foreign>>

\* The session has its answer, or an error, and is done with the table.
Answered(s) ==
  /\ stage'   = [stage EXCEPT ![s] = "idle"]
  /\ subject' = [subject EXCEPT ![s] = 0]
  /\ held'    = [held EXCEPT ![s] = NoTable]

\* get_table is forwarded.
GetTable(s, t) ==
  /\ link[s] = "open"
  /\ stage[s] = "idle"
  /\ subject' = [subject EXCEPT ![s] = t]
  /\ held'    = [held EXCEPT ![s] = meta[t]]
  /\ UNCHANGED <<meta, files, up, toolVars, link, stage, inserted, foreign>>

\* Mutant of AddStatistics: only the first file of the directory is sized, and it
\* may be an empty one.
AddStatisticsFirst(s) ==
  /\ link[s] = "open"
  /\ stage[s] = "idle"
  /\ subject[s] # 0
  /\ held'  = [held EXCEPT ![s].size = 0,
                           ![s].groups = files[held[s].location][subject[s]].groups]
  /\ stage' = [stage EXCEPT ![s] = "adding"]
  /\ UNCHANGED <<meta, files, up, toolVars, link, subject, inserted, foreign>>

\* Spark sends alter_table_with_environment_context with the table it has read;
\* the proxy adds the statistics of the files at that table's location.  For a
\* directory without a file that is not empty files[0] raises IndexError, which
\* the generated processor turns into an error reply: nothing is forwarded.
AddStatistics(s) ==
  LET dir == files[held[s].location][subject[s]]
  IN
  /\ link[s] = "open"
  /\ stage[s] = "idle"
  /\ subject[s] # 0
  /\ IF dir.groups > 0
     THEN /\ held'  = [held EXCEPT ![s].size = dir.size,
                                   ![s].groups = dir.groups]
          /\ stage' = [stage EXCEPT ![s] = "adding"]
          /\ UNCHANGED subject
     ELSE Answered(s)
  /\ UNCHANGED <<meta, files, up, toolVars, link, inserted, foreign>>

\* The call is forwarded and answered.
ForwardAlter(s) ==
  /\ link[s] = "open"
  /\ stage[s] = "adding"
  /\ Write(s, subject[s], held[s])
  /\ Answered(s)
  /\ UNCHANGED <<files, up, toolVars, link, inserted>>

\* Mutant of HandlerEnds: the connection to the metastore stays open.
HandlerEndsUnclosed(s) ==
  /\ link[s] = "open"
  /\ link' = [link EXCEPT ![s] = "unclosed"]
  /\ Answered(s)
  /\ UNCHANGED <<meta, files, up, toolVars, inserted, foreign>>

\* The session goes away, or a transport exception reaches the thread's loop: the
\* processor does not answer the call, the loop ends, and both connections are
\* closed.
HandlerEnds(s) ==
  /\ link[s] = "open"
  /\ link' = [link EXCEPT ![s] = "closed"]
  /\ Answered(s)
  /\ UNCHANGED <<meta, files, up, toolVars, inserted, foreign>>

\* Spark adds a file to a table, where the table is, once per table; the file is
\* the first of the directory or another one.
Insert(t) ==
  LET d   == meta[t].location
      dir == files[d][t]
  IN
  /\ t \notin inserted
  /\ Cardinality(inserted) < MaxInserts
  /\ inserted' = inserted \cup {t}
  /\ \E g \in {NewFile.groups, dir.groups} :
       /\ g > 0
       /\ files' = [files EXCEPT ![d][t] = [size |-> dir.size + NewFile.size, groups |-> g]]
  /\ UNCHANGED <<meta, up, toolVars, sessionVars, foreign>>

SessionStep(s) ==
  \/ OpenHandler(s)
  \/ \E t \in Tables : GetTable(s, t)
  \/ AddStatistics(s)
  \/ ForwardAlter(s)
  \/ HandlerEnds(s)

\* The metastore goes down, and all connections to it.  A tool or a handler fails
\* at its next call at the latest, and is taken to have ended here.
Down ==
  LET cut == {p \in Tools : pc[p] \in Connected}
  IN
  /\ up
  /\ up'      = FALSE
  /\ pc'      = [p \in Tools |-> IF p \in cut THEN "stopped" ELSE pc[p]]
  /\ copy'    = [p \in Tools |-> IF p \in cut THEN Unread ELSE copy[p]]
  /\ todo'    = [p \in Tools |-> IF p \in cut THEN {} ELSE todo[p]]
  /\ chosen'  = [p \in Tools |-> IF p \in cut THEN {} ELSE chosen[p]]
  /\ foreign' = [p \in Tools |-> IF p \in cut THEN {} ELSE foreign[p]]
  /\ link'    = [s \in Sessions |-> "closed"]
  /\ stage'   = [s \in Sessions |-> "idle"]
  /\ subject' = [s \in Sessions |-> 0]
  /\ held'    = [s \in Sessions |-> NoTable]
  /\ UNCHANGED <<meta, files, program, starts, inserted>>

\* It comes back with the tables it had.
Up ==
  /\ ~up
  /\ up' = TRUE
  /\ UNCHANGED <<meta, files, toolVars, sessionVars, inserted, foreign>>

MetaNext ==
  \/ \E p \in Tools : (\E g \in Programs[p] : Start(p, g)) \/ ToolStep(p) \/ Stop(p)
  \/ \E s \in Sessions : SessionStep(s)
  \/ \E t \in Tables : Insert(t)
  \/ Down
  \/ Up

MetaSpec == MetaInit /\ [][MetaNext]_metaVars

\* A tool that is not killed goes on; the metastore is brought up again, and a tool
\* that tries to connect finds it up sooner or later.
MetaFairSpec ==
  /\ MetaSpec
  /\ WF_metaVars(Up)
  /\ \A p \in Tools : WF_metaVars(ToolStep(p)) /\ SF_metaVars(OpenMetastore(p))

-----------------------------------------------------------------------------
MetaTypeOK ==
  /\ meta     \in [Tables -> TableRecord]
  /\ files    \in [DataCenters -> [Tables -> Directory]]
  /\ up       \in BOOLEAN
  /\ pc       \in [Tools -> Running \cup {"idle", "done", "stopped"}]
  /\ program  \in [Tools -> Program]
  /\ copy     \in [Tools -> [Tables -> TableRecord]]
  /\ todo     \in [Tools -> SUBSET Tables]
  /\ chosen   \in [Tools -> SUBSET Tables]
  /\ link     \in [Sessions -> {"closed", "open"}]
  /\ stage    \in [Sessions -> {"idle", "adding"}]
  /\ subject  \in [Sessions -> Tables \cup {0}]
  /\ held     \in [Sessions -> TableRecord]
  /\ starts   \in Nat
  /\ inserted \subseteq Tables
  /\ foreign  \in [Tools -> SUBSET Tables]

\* A tool that has run to its end has moved what it chose, location and path
\* alike, whatever an earlier run, stopped between its two calls, had left there,
\* and whatever others wrote before it read the table; only a table that somebody
\* else wrote after it may be elsewhere.
DoneIsMoved ==
  \A p \in Tools : pc[p] = "done" =>
    \A t \in chosen[p] \ foreign[p] :
      /\ meta[t].location = program[p].dest
      /\ meta[t].path \in {program[p].dest, NoPath}

\* The bytes of some tables, by the sizes in a tool's copy.
Bytes(c, S) == Cardinality(UNION {{t} \X (1 .. c[t].size) : t \in S})

\* A split is even up to the largest table: alternating over the sorted tables,
\* it chooses at least half of the bytes, and at most the largest table more.
SplitBalances ==
  \A p \in Tools : pc[p] = "done" /\ program[p].kind = "split" =>
    LET moved == Bytes(copy[p], chosen[p])
        rest  == Bytes(copy[p], Tables \ chosen[p])
    IN  /\ rest <= moved
        /\ moved = 0 \/ \E t \in Tables : moved <= rest + copy[p][t].size

\* The statistics of a table whose files have not changed since the load are
\* those of its files, once they are there, although tools and sessions write
\* back whole tables that they read before others wrote them.
LoadedStatistics ==
  \A t \in Tables \ inserted : Known(meta[t]) =>
    /\ meta[t].size = Loaded[t].size
    /\ meta[t].groups = Loaded[t].groups

\* Statistics, once added, are not lost: a tool that read a table before they
\* were there does not come to write it back.
StatisticsStay ==
  [][\A t \in Tables : Known(meta[t]) => Known(meta'[t])]_metaVars

\* A tool that is started comes to its end, or is stopped, although the metastore
\* may go down again and again.
EveryRunEnds ==
  \A p \in Tools : pc[p] \in Running ~> pc[p] \notin Running
=============================================================================
