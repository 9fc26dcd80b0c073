------------------------------- MODULE HdfsReader -------------------------------
(***************************************************************************)
(* The HDFS readers of the statistics tools (storage/metastore/pyhdfs).    *)
(*                                                                         *)
(* get_reader hands out one ParquetReader per path, from a cache under a   *)
(* lock; the first caller opens it, which reads the footer of the file.    *)
(* read_rg reads a row group with a clone of the reader's WebHdfsFile: for *)
(* each column it prefetches the column's chunk, and some more, into a     *)
(* buffer, and lets fastparquet (external) seek and read in the chunk.     *)
(* WebHdfsFile.read takes bytes from the buffer if they lie in the         *)
(* prefetched window, and asks the data node otherwise.                    *)
(*                                                                         *)
(* The byte at a position of a file is that position.  All files are of    *)
(* one Size.  Buffers and results are functions on 0 .. n - 1.             *)
(***************************************************************************)
EXTENDS Integers, FiniteSets

CONSTANTS Threads,    (* callers of get_reader and read_rg                 *)
          Paths,      (* the files                                         *)
          None,       (* Python's None                                     *)
          Size,       (* of a file, in bytes                               *)
          Footer,     (* where the footer starts                           *)
          Columns,    (* number of columns of a row group                  *)
          ChunkStart, (* where each column's chunk starts                  *)
          ChunkEnd,   (* and where it ends                                 *)
          MinBuffer,  (* 20 << 20 in the code                              *)
          Slack       (* 65536 in the code                                 *)

ASSUME ReaderAssumption ==
  /\ Size \in Nat \ {0} /\ MinBuffer \in Nat /\ Slack \in Nat /\ Columns \in Nat
  /\ Footer \in 0 .. Size
  /\ ChunkStart \in [1 .. Columns -> Nat] /\ ChunkEnd \in [1 .. Columns -> Nat]
  /\ \A c \in 1 .. Columns : ChunkStart[c] <= ChunkEnd[c] /\ ChunkEnd[c] <= Size
  /\ Threads \cap Paths = {}
  /\ None \notin Threads \cup Paths

\* A byte that is not of the file: a buffer's initial zero, or an error message's.
Blank == -1
Byte  == {Blank} \cup 0 .. Size - 1
IsBytes(b) == \E n \in 0 .. MinBuffer + Size + Slack : b \in [0 .. n - 1 -> Byte]

\* WebHdfsFile: the offset, the prefetched window and the buffer.
NoBuffer == [i \in {} |-> Blank]
Opened(o) == [offset |-> o, prefetch_offset |-> -1, prefetch_length |-> -1,
              buffer |-> NoBuffer]

\* A reader's own file is named after its path, a clone after its thread.
Files == Paths \cup Threads

VARIABLES
  lock,     (* reader_cache_lock: its holder                               *)
  cache,    (* reader_cache: the thread that opened each path's reader     *)
  pc,       (* where a thread is                                           *)
  path,     (* the path it asks for                                        *)
  reader,   (* what get_reader gave it                                     *)
  file,     (* the WebHdfsFile objects                                     *)
  using,    (* the object a thread reads from                              *)
  column,   (* the column it is at, in read_rg                             *)
  at,       (* history: where in the file the thread's next read should be *)
  got,      (* history: its last result, None before the first             *)
  broken,   (* history: the threads that got something else than they asked*)
            (* for from a data node                                        *)
  opens     (* history: how often each path was opened successfully        *)

readVars   == <<file, using, column, at, got, broken>>
readerVars == <<lock, cache, pc, path, reader, readVars, opens>>

ReaderInit ==
  /\ lock   = None
  /\ cache  = [p \in Paths |-> None]
  /\ pc     = [t \in Threads |-> "idle"]
  /\ path   \in [Threads -> Paths]
  /\ reader = [t \in Threads |-> None]
  /\ file   = [f \in Files |-> Opened(0)]
  /\ using  = [t \in Threads |-> t]
  /\ column = [t \in Threads |-> 0]
  /\ at     = [t \in Threads |-> 0]
  /\ got    = [t \in Threads |-> None]
  /\ broken = {}
  /\ opens  = [p \in Paths |-> 0]

Goto(t, from, to) == pc[t] = from /\ pc' = [pc EXCEPT ![t] = to]

-----------------------------------------------------------------------------
(***************************************************************************)
(* get_reader                                                              *)
(***************************************************************************)
Call(t, p) ==
  /\ Goto(t, "idle", "acquire")
  /\ path' = [path EXCEPT ![t] = p]
  /\ UNCHANGED <<lock, cache, reader, readVars, opens>>

\* Mutant of Acquire: the lock does not keep others out.
AcquireAnyway(t) ==
  /\ Goto(t, "acquire", "check")
  /\ lock' = t
  /\ UNCHANGED <<cache, path, reader, readVars, opens>>

Acquire(t) ==
  /\ lock = None
  /\ Goto(t, "acquire", "check")
  /\ lock' = t
  /\ UNCHANGED <<cache, path, reader, readVars, opens>>

Hit(t) ==
  /\ cache[path[t]] # None
  /\ Goto(t, "check", "release")
  /\ UNCHANGED <<lock, cache, path, reader, readVars, opens>>

\* ParquetReader.__init__ opens a WebHdfsFile, in which fastparquet then seeks
\* and reads the footer.
Miss(t) ==
  /\ cache[path[t]] = None
  /\ Goto(t, "check", "opening")
  /\ file'   = [file EXCEPT ![path[t]] = Opened(0)]
  /\ using'  = [using EXCEPT ![t] = path[t]]
  /\ at'     = [at EXCEPT ![t] = 0]
  /\ got'    = [got EXCEPT ![t] = None]
  /\ broken' = broken \ {t}
  /\ UNCHANGED <<lock, cache, path, reader, column, opens>>

\* close(): the buffer goes, the window stays.
Closed(f) == [f EXCEPT !.buffer = NoBuffer]

\* The reader is constructed, its file closed, and it is put into the cache.
Store(t) ==
  /\ Goto(t, "opening", "release")
  /\ file'  = [file EXCEPT ![path[t]] = Closed(@)]
  /\ cache' = [cache EXCEPT ![path[t]] = t]
  /\ opens' = [opens EXCEPT ![path[t]] = @ + 1]
  /\ UNCHANGED <<lock, path, reader, using, column, at, got, broken>>

\* The constructor raises: a node refuses or breaks the connection, or what it
\* answers is no Parquet file.  The lock is not released.  A node that is silent
\* raises nothing, as the connections have no timeout: the thread stays where it is,
\* which ReaderFairSpec takes not to happen.
OpenRaises(t) ==
  /\ Goto(t, "opening", "failed")
  /\ UNCHANGED <<lock, cache, path, reader, readVars, opens>>

\* Mutant of Release: only who has opened a reader releases.
ReleaseOpened(t) ==
  /\ cache[path[t]] = t
  /\ Goto(t, "release", "return")
  /\ lock' = None
  /\ UNCHANGED <<cache, path, reader, readVars, opens>>

Release(t) ==
  /\ Goto(t, "release", "return")
  /\ lock' = None
  /\ UNCHANGED <<cache, path, reader, readVars, opens>>

\* return reader_cache[path], after the lock was released.
Return(t) ==
  /\ Goto(t, "return", "have")
  /\ reader' = [reader EXCEPT ![t] = cache[path[t]]]
  /\ UNCHANGED <<lock, cache, path, readVars, opens>>

-----------------------------------------------------------------------------
(***************************************************************************)
(* WebHdfsFile                                                             *)
(***************************************************************************)
Least(a, b) == IF a <= b THEN a ELSE b
Most(a, b)  == IF a >= b THEN a ELSE b

\* The bytes of the file from pos on, n of them or up to its end.
FileBytes(pos, n) == [i \in 0 .. Least(n, Size - pos) - 1 |-> pos + i]

\* The body of the data node's answer to `offset=pos&length=n`.  It is shorter
\* when the connection breaks, which http.client does not report, and something
\* else for an error, whose status is not looked at.
Bodies(pos, n) ==
  {[i \in 0 .. k - 1 |-> pos + i] : k \in 0 .. Least(n, Size - pos)}
    \cup {[i \in 0 .. 0 |-> Blank]}

Deceived(t, body, pos, n) == IF body = FileBytes(pos, n) THEN {} ELSE {t}

\* Mutant of SeekTo: an offset from the end is counted backwards.
SeekToBackwards(f, offset, whence) ==
  CASE whence = "SET" -> offset
    [] whence = "CUR" -> f.offset + offset
    [] whence = "END" -> Size - offset

SeekTo(f, offset, whence) ==
  CASE whence = "SET" -> offset
    [] whence = "CUR" -> f.offset + offset
    [] whence = "END" -> Size + offset

\* fastparquet (external) moves anywhere in the part of the file it is reading:
\* to a position, by a distance, or to a distance from the end.
Seek(t, low, high) ==
  \E to \in low .. high, whence \in {"SET", "CUR", "END"} :
    LET offset == CASE whence = "SET" -> to
                    [] whence = "CUR" -> to - at[t]
                    [] whence = "END" -> to - Size
    IN  /\ file' = [file EXCEPT ![using[t]].offset = SeekTo(file[using[t]], offset, whence)]
        /\ at'   = [at EXCEPT ![t] = to]
        /\ got'  = [got EXCEPT ![t] = None]
        /\ UNCHANGED <<using, column, broken>>

InWindow(f, pos, length) ==
  /\ f.prefetch_offset >= 0
  /\ pos >= f.prefetch_offset
  /\ pos + length <= f.prefetch_offset + f.prefetch_length

\* read(n), or read() for n = -1; readinto is the same with a buffer of n bytes.
\* The offset moves by what was asked for.  (Nobody reads after close; what the
\* buffer does not hold would be no byte of the file.)
Read(t, n) ==
  LET f      == file[using[t]]
      length == IF n = -1 THEN Size - f.offset ELSE n
      want   == IF n = -1 THEN Size - at[t] ELSE n
      begin  == f.offset - f.prefetch_offset
  IN
  /\ file' = [file EXCEPT ![using[t]].offset = @ + length]
  /\ at'   = [at EXCEPT ![t] = @ + want]
  /\ IF InWindow(f, f.offset, length)
     THEN /\ got' = [got EXCEPT ![t] =
                [pos |-> at[t], length |-> want,
                 data |-> [i \in 0 .. length - 1 |->
                             IF begin + i \in DOMAIN f.buffer
                             THEN f.buffer[begin + i] ELSE Blank]]]
          /\ UNCHANGED broken
     ELSE \E body \in Bodies(f.offset, length) :
            /\ got' = [got EXCEPT ![t] = [pos |-> at[t], length |-> want, data |-> body]]
            /\ broken' = broken \cup Deceived(t, body, f.offset, length)
  /\ UNCHANGED <<using, column>>

\* The buffer is made anew if it is too short, and otherwise keeps what the
\* answer does not overwrite.  The window is what was asked for.
Prefetch(t, pos, length) ==
  LET f    == file[using[t]]
      kept == IF length <= Cardinality(DOMAIN f.buffer) THEN f.buffer ELSE NoBuffer
      size == IF kept = NoBuffer THEN Most(MinBuffer, length) ELSE Cardinality(DOMAIN kept)
  IN  \E body \in Bodies(pos, length) :
        /\ file' = [file EXCEPT ![using[t]] =
              [@ EXCEPT !.prefetch_offset = pos, !.prefetch_length = length,
                        !.buffer = [i \in 0 .. size - 1 |->
                                      IF i \in DOMAIN body THEN body[i]
                                      ELSE IF i \in DOMAIN kept THEN kept[i] ELSE Blank]]]
        /\ broken' = broken \cup Deceived(t, body, pos, length)

-----------------------------------------------------------------------------
(***************************************************************************)
(* ParquetReader                                                           *)
(***************************************************************************)
\* fastparquet seeks and reads between low and high.
SeekOrRead(t, low, high) ==
  \/ Seek(t, low, high)
  \/ \E n \in 0 .. high - low :
       /\ at[t] >= low
       /\ at[t] + n <= high
       /\ Read(t, n)
  \/ high = Size /\ at[t] >= low /\ Read(t, -1)

ReadFooter(t) ==
  /\ pc[t] = "opening"
  /\ SeekOrRead(t, Footer, Size)
  /\ UNCHANGED <<lock, cache, pc, path, reader, opens>>

\* Mutant of Fin: a row group is read with the reader's own file.
FinShared(t) == path[t]

\* The file that read_rg reads with: a clone for each call.
Fin(t) == t

\* read_rg clones the file: its offset, but neither window nor buffer.
BeginRowGroup(t) ==
  /\ Goto(t, "have", "columns")
  /\ file'   = [file EXCEPT ![Fin(t)] = Opened(file[path[t]].offset)]
  /\ using'  = [using EXCEPT ![t] = Fin(t)]
  /\ column' = [column EXCEPT ![t] = 1]
  /\ at'     = [at EXCEPT ![t] = file[path[t]].offset]
  /\ got'    = [got EXCEPT ![t] = None]
  /\ broken' = broken \ {t}
  /\ UNCHANGED <<lock, cache, path, reader, opens>>

\* A column that is not asked for.
SkipColumn(t) ==
  /\ pc[t] = "columns"
  /\ column[t] <= Columns
  /\ column' = [column EXCEPT ![t] = @ + 1]
  /\ UNCHANGED <<lock, cache, pc, path, reader, file, using, at, got, broken, opens>>

BeginColumn(t) ==
  /\ column[t] <= Columns
  /\ Goto(t, "columns", "column")
  /\ Prefetch(t, ChunkStart[column[t]], ChunkEnd[column[t]] - ChunkStart[column[t]] + Slack)
  /\ got' = [got EXCEPT ![t] = None]
  /\ UNCHANGED <<lock, cache, path, reader, using, column, at, opens>>

ReadColumn(t) ==
  /\ pc[t] = "column"
  /\ SeekOrRead(t, ChunkStart[column[t]], ChunkEnd[column[t]])
  /\ UNCHANGED <<lock, cache, pc, path, reader, opens>>

EndColumn(t) ==
  /\ Goto(t, "column", "columns")
  /\ column' = [column EXCEPT ![t] = @ + 1]
  /\ UNCHANGED <<lock, cache, path, reader, file, using, at, got, broken, opens>>

\* The clone is closed and dropped.
Leave(t, from) ==
  /\ Goto(t, from, "idle")
  /\ file'   = [file EXCEPT ![t] = Opened(0)]
  /\ column' = [column EXCEPT ![t] = 0]
  /\ at'     = [at EXCEPT ![t] = 0]
  /\ got'    = [got EXCEPT ![t] = None]
  /\ broken' = broken \ {t}
  /\ reader' = [reader EXCEPT ![t] = None]
  /\ using'  = [using EXCEPT ![t] = t]
  /\ UNCHANGED <<lock, cache, path, opens>>

EndRowGroup(t) == column[t] > Columns /\ Leave(t, "columns")

\* A data node breaks the connection, or fastparquet does not take what it reads.
RowGroupRaises(t) == Leave(t, "columns") \/ Leave(t, "column")

GetReaderStep(t) ==
  Hit(t) \/ Miss(t) \/ Store(t) \/ Release(t) \/ Return(t)

ReaderStep(t) ==
  \/ \E p \in Paths : Call(t, p)
  \/ Acquire(t)
  \/ GetReaderStep(t)
  \/ OpenRaises(t)
  \/ ReadFooter(t)
  \/ BeginRowGroup(t)
  \/ SkipColumn(t)
  \/ BeginColumn(t)
  \/ ReadColumn(t)
  \/ EndColumn(t)
  \/ EndRowGroup(t)
  \/ RowGroupRaises(t)

ReaderNext == \E t \in Threads : ReaderStep(t)
ReaderSpec == ReaderInit /\ [][ReaderNext]_readerVars

\* Threads that can run do: the name node and the data nodes answer every request,
\* or break the connection, and fastparquet comes to an end of the footer.  The
\* lock is not fair in the code; a thread that finds it free again and again is
\* taken to get it.
ReaderFairSpec ==
  ReaderSpec /\ \A t \in Threads : /\ WF_readerVars(GetReaderStep(t))
                                   /\ SF_readerVars(Acquire(t))

-----------------------------------------------------------------------------
IsFile(f) ==
  /\ f \in [offset : 0 .. Size, prefetch_offset : -1 .. Size,
            prefetch_length : -1 .. Size + Slack, buffer : {f.buffer}]
  /\ IsBytes(f.buffer)

IsResult(r) ==
  /\ r \in [pos : 0 .. Size, length : 0 .. Size, data : {r.data}]
  /\ IsBytes(r.data)

\* The types of the variables.
ReaderTypeOK ==
  /\ lock   \in Threads \cup {None}
  /\ cache  \in [Paths -> Threads \cup {None}]
  /\ pc     \in [Threads -> {"idle", "acquire", "check", "opening", "release", "return",
                             "have", "columns", "column", "failed"}]
  /\ path   \in [Threads -> Paths]
  /\ reader \in [Threads -> Threads \cup {None}]
  /\ DOMAIN file = Files /\ \A f \in Files : IsFile(file[f])
  /\ using  \in [Threads -> Files]
  /\ column \in [Threads -> 0 .. Columns + 1]
  /\ at     \in [Threads -> 0 .. Size]
  /\ DOMAIN got = Threads /\ \A t \in Threads : got[t] = None \/ IsResult(got[t])
  /\ broken \subseteq Threads
  /\ opens  \in [Paths -> Nat]

\* What a thread reads is what stands in the file where it is, byte for byte,
\* whether it comes from the buffer or from the data node, from a window that
\* ends behind the file or in a buffer that held another column, and whatever
\* other threads read through the same reader; unless an answer was broken.
ReadsAreFile ==
  \A t \in Threads : got[t] # None /\ t \notin broken =>
    got[t].data = FileBytes(got[t].pos, got[t].length)

\* A path is opened once, however many threads ask for it at once.
OpenedOnce == \A p \in Paths : opens[p] <= 1

\* A thread that asks for a reader gets one, as long as nodes answer, unless some
\* thread has failed to open one: the lock it took is then never released.
ReaderOrFailure ==
  \A t \in Threads :
    pc[t] = "acquire" ~> pc[t] = "have" \/ \E u \in Threads : pc[u] = "failed"
=============================================================================
