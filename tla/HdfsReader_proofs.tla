---------------------------- MODULE HdfsReader_proofs ----------------------------
(***************************************************************************)
(* What is proved of HdfsReader for every number of threads and files, and *)
(* every size of a file, its chunks and the buffer.                        *)
(***************************************************************************)
EXTENDS HdfsReader, FiniteSetTheorems, TLAPS

\* A thread reads from a file of its own: the one it opens, or its clone.
Reading(t) == pc[t] \in {"opening", "columns", "column"}

\* The part of the window that lies in the file is in the buffer.
WindowHolds(f) ==
  \A i \in 0 .. f.prefetch_length - 1 :
    f.prefetch_offset >= 0 /\ f.prefetch_offset + i < Size =>
      /\ i \in DOMAIN f.buffer
      /\ f.buffer[i] = f.prefetch_offset + i

OwnFiles ==
  \A t \in Threads :
    /\ pc[t] = "opening" => using[t] = path[t]
    /\ pc[t] \in {"columns", "column"} => using[t] = t /\ column[t] >= 1
    /\ pc[t] = "column" => column[t] <= Columns
    /\ Reading(t) => /\ file[using[t]].offset = at[t]
                     /\ t \notin broken => WindowHolds(file[using[t]])

\* Who is between acquire and release holds the lock, and who opens a path is the
\* first to do so.
OneOpener ==
  /\ \A t \in Threads : pc[t] \in {"check", "opening", "release", "failed"} => lock = t
  /\ \A t \in Threads : pc[t] = "opening" => cache[path[t]] = None
  /\ \A p \in Paths : cache[p] = None => opens[p] = 0

AreFunctions ==
  /\ file = [f \in Files |-> file[f]]
  /\ got  = [t \in Threads |-> got[t]]

ReaderInv ==
  ReaderTypeOK /\ AreFunctions /\ OwnFiles /\ OneOpener /\ OpenedOnce /\ ReadsAreFile

-----------------------------------------------------------------------------
LEMMA EmptyBytes == IsBytes(NoBuffer)
<1>1. NoBuffer \in [0 .. 0 - 1 -> Byte]
  BY DEF NoBuffer
<1>2. 0 \in 0 .. MinBuffer + Size + Slack
  BY ReaderAssumption
<1> QED
  BY <1>1, <1>2 DEF IsBytes

LEMMA OpenedIsFile ==
  ASSUME NEW o \in 0 .. Size
  PROVE  /\ IsFile(Opened(o))
         /\ Opened(o).offset = o
         /\ WindowHolds(Opened(o))
<1>1. Opened(o).buffer = NoBuffer
  BY DEF Opened
<1> QED
  BY <1>1, EmptyBytes, ReaderAssumption DEF IsFile, Opened, WindowHolds

LEMMA ClosedIsFile ==
  ASSUME NEW f, IsFile(f)
  PROVE  IsFile(Closed(f))
<1>1. Closed(f).buffer = NoBuffer
  BY DEF IsFile, Closed
<1> QED
  BY <1>1, EmptyBytes DEF IsFile, Closed

\* A buffer's length.
LEMMA BytesLength ==
  ASSUME NEW b, IsBytes(b)
  PROVE  /\ Cardinality(DOMAIN b) \in 0 .. MinBuffer + Size + Slack
         /\ b \in [0 .. Cardinality(DOMAIN b) - 1 -> Byte]
<1>1. PICK n \in 0 .. MinBuffer + Size + Slack : b \in [0 .. n - 1 -> Byte]
  BY DEF IsBytes
<1>2. n \in Nat /\ 0 \in Int /\ n - 1 \in Int /\ DOMAIN b = 0 .. n - 1
  BY <1>1, ReaderAssumption
<1>3. Cardinality(0 .. n - 1) = IF 0 > n - 1 THEN 0 ELSE n - 1 - 0 + 1
  BY <1>2, FS_Interval
<1>4. Cardinality(DOMAIN b) = n
  BY <1>2, <1>3
<1> QED
  BY <1>1, <1>4

\* An answer is a sequence of bytes; one of the length asked for, and not an error,
\* holds the bytes of the file.
LEMMA BodyIsBytes ==
  ASSUME NEW pos \in 0 .. Size, NEW n \in Nat, NEW body \in Bodies(pos, n)
  PROVE  /\ IsBytes(body)
         /\ FileBytes(pos, n) = body =>
              \A i \in 0 .. n - 1 : pos + i < Size => i \in DOMAIN body /\ body[i] = pos + i
<1>1. Least(n, Size - pos) \in 0 .. Size
  BY ReaderAssumption DEF Least
<1>2. IsBytes(body)
  <2>1. CASE body = [i \in 0 .. 0 |-> Blank]
    <3>1. body \in [0 .. 1 - 1 -> Byte] /\ 1 \in 0 .. MinBuffer + Size + Slack
      BY <2>1, ReaderAssumption DEF Byte
    <3> QED
      BY <3>1 DEF IsBytes
  <2>2. CASE body # [i \in 0 .. 0 |-> Blank]
    <3>1. PICK k \in 0 .. Least(n, Size - pos) : body = [i \in 0 .. k - 1 |-> pos + i]
      BY <2>2 DEF Bodies
    <3>2. k \in 0 .. MinBuffer + Size + Slack
      BY <3>1, <1>1, ReaderAssumption
    <3>3. \A i \in 0 .. k - 1 : pos + i \in Byte
      BY <3>1, <1>1, ReaderAssumption DEF Byte, Least
    <3>4. body \in [0 .. k - 1 -> Byte]
      BY <3>1, <3>3
    <3> QED
      BY <3>2, <3>4 DEF IsBytes
  <2> QED
    BY <2>1, <2>2
<1>3. ASSUME FileBytes(pos, n) = body, NEW i \in 0 .. n - 1, pos + i < Size
      PROVE  i \in DOMAIN body /\ body[i] = pos + i
  <2>1. i \in 0 .. Least(n, Size - pos) - 1
    BY <1>3, ReaderAssumption DEF Least
  <2> QED
    BY <1>3, <2>1 DEF FileBytes
<1> QED
  BY <1>2, <1>3

-----------------------------------------------------------------------------
\* What a read of thread t does: its file becomes f, it is at position a, and its
\* result, if any, is r.
ReadsOwn(t, f, a, r) ==
  /\ file' = [file EXCEPT ![using[t]] = f]
  /\ at'   = [at EXCEPT ![t] = a]
  /\ got'  = [got EXCEPT ![t] = r]
  /\ broken \subseteq broken' /\ broken' \subseteq broken \cup {t}
  /\ IsFile(f) /\ a \in 0 .. Size /\ f.offset = a
  /\ r = None \/ IsResult(r)
  /\ t \notin broken' => /\ WindowHolds(f)
                         /\ r # None => r.data = FileBytes(r.pos, r.length)

LEMMA OwnFile ==
  ASSUME ReaderInv, NEW t \in Threads, Reading(t)
  PROVE  /\ using[t] \in Files /\ IsFile(file[using[t]])
         /\ at[t] \in 0 .. Size
         /\ file[using[t]].offset = at[t]
         /\ t \notin broken => WindowHolds(file[using[t]])
  BY DEF ReaderInv, ReaderTypeOK, OwnFiles

LEMMA SeekReads ==
  ASSUME ReaderInv, NEW t \in Threads, Reading(t),
         NEW low \in 0 .. Size, NEW high \in 0 .. Size, Seek(t, low, high)
  PROVE  \E f, a, r : ReadsOwn(t, f, a, r)
<1> DEFINE f == file[using[t]]
           g(a) == [f EXCEPT !.offset = a]
<1>1. PICK to \in low .. high, whence \in {"SET", "CUR", "END"} :
        LET offset == CASE whence = "SET" -> to
                        [] whence = "CUR" -> to - at[t]
                        [] whence = "END" -> to - Size
        IN  /\ file' = [file EXCEPT ![using[t]].offset = SeekTo(f, offset, whence)]
            /\ at'   = [at EXCEPT ![t] = to]
            /\ got'  = [got EXCEPT ![t] = None]
            /\ UNCHANGED <<using, column, broken>>
  BY DEF Seek
<1>2. to \in 0 .. Size /\ f.offset = at[t] /\ at[t] \in 0 .. Size /\ using[t] \in Files
  BY OwnFile, ReaderAssumption
<1>3. file' = [file EXCEPT ![using[t]].offset = to]
  <2>1. CASE whence = "SET"
    BY <1>1, <2>1 DEF SeekTo
  <2>2. CASE whence = "CUR"
    <3>1. at[t] + (to - at[t]) = to
      BY <1>2
    <3> QED
      BY <1>1, <1>2, <2>2, <3>1 DEF SeekTo
  <2>3. CASE whence = "END"
    <3>1. Size + (to - Size) = to
      BY <1>2, ReaderAssumption
    <3> QED
      BY <1>1, <1>2, <2>3, <3>1 DEF SeekTo
  <2> QED
    BY <2>1, <2>2, <2>3
<1>4. file' = [file EXCEPT ![using[t]] = g(to)]
  BY <1>3
<1>5. IsFile(g(to)) /\ g(to).offset = to /\ (t \notin broken => WindowHolds(g(to)))
  BY <1>2, OwnFile DEF IsFile, WindowHolds
<1>6. ReadsOwn(t, g(to), to, None)
  BY <1>1, <1>2, <1>4, <1>5 DEF ReadsOwn
<1> QED
  BY <1>6

\* n is -1 or what is asked for; want is what that comes to.
LEMMA ReadReads ==
  ASSUME ReaderInv, NEW t \in Threads, Reading(t), NEW n \in Int, NEW want \in Nat,
         want = (IF n = -1 THEN Size - at[t] ELSE n), at[t] + want <= Size, Read(t, n)
  PROVE  \E f, a, r : ReadsOwn(t, f, a, r)
<1> DEFINE f     == file[using[t]]
           a     == at[t] + want
           g     == [f EXCEPT !.offset = a]
           begin == at[t] - f.prefetch_offset
           data  == [i \in 0 .. want - 1 |-> IF begin + i \in DOMAIN f.buffer
                                             THEN f.buffer[begin + i] ELSE Blank]
           r(b)  == [pos |-> at[t], length |-> want, data |-> b]
<1>1. /\ f.offset = at[t] /\ at[t] \in 0 .. Size /\ using[t] \in Files /\ IsFile(f)
      /\ t \notin broken => WindowHolds(f)
  BY OwnFile
<1>2. a \in 0 .. Size /\ want \in 0 .. Size /\ want = (IF n = -1 THEN Size - f.offset ELSE n)
  BY <1>1, ReaderAssumption
<1>3. file' = [file EXCEPT ![using[t]] = g] /\ at' = [at EXCEPT ![t] = a]
  BY <1>1, <1>2 DEF Read
<1>4. IsFile(g) /\ g.offset = a /\ (t \notin broken => WindowHolds(g))
  BY <1>1, <1>2 DEF IsFile, WindowHolds
<1>5. CASE InWindow(f, f.offset, want)
  <2>1. got' = [got EXCEPT ![t] = r(data)] /\ broken' = broken
    BY <1>1, <1>2, <1>5 DEF Read
  <2>2. IsResult(r(data))
    <3>1. ASSUME NEW i \in 0 .. want - 1 PROVE data[i] \in Byte
      <4>1. f.buffer \in [0 .. Cardinality(DOMAIN f.buffer) - 1 -> Byte]
        BY <1>1, BytesLength DEF IsFile
      <4>2. Blank \in Byte
        BY DEF Byte
      <4> QED
        BY <4>1, <4>2
    <3>2. data \in [0 .. want - 1 -> Byte]
      <4>1. data = [i \in 0 .. want - 1 |-> data[i]]
        OBVIOUS
      <4> HIDE DEF data
      <4> QED
        BY <3>1, <4>1
    <3>4. want \in 0 .. MinBuffer + Size + Slack
      BY <1>2, ReaderAssumption
    <3>3. IsBytes(data)
      BY <3>2, <3>4 DEF IsBytes
    <3> QED
      BY <3>3, <1>1, <1>2 DEF IsResult
  <2>3. ASSUME t \notin broken PROVE data = FileBytes(at[t], want)
    <3>1. Least(want, Size - at[t]) = want
      BY <1>1, <1>2, ReaderAssumption DEF Least
    <3>2. ASSUME NEW i \in 0 .. want - 1 PROVE data[i] = at[t] + i
      <4>1. f.prefetch_offset \in Int /\ f.prefetch_length \in Int
        <5>1. f.prefetch_offset \in -1 .. Size /\ f.prefetch_length \in -1 .. Size + Slack
          BY <1>1 DEF IsFile
        <5> QED
          BY <5>1
      <4> HIDE DEF f
      <4>5. f.prefetch_offset >= 0 /\ at[t] >= f.prefetch_offset
              /\ at[t] + want <= f.prefetch_offset + f.prefetch_length
        BY <1>1, <1>5 DEF InWindow
      <4>2. /\ f.prefetch_offset >= 0
            /\ begin + i \in 0 .. f.prefetch_length - 1
            /\ f.prefetch_offset + (begin + i) = at[t] + i
        BY <1>1, <1>2, <4>5, <4>1
      <4>3. at[t] + i < Size
        BY <1>1, <1>2, ReaderAssumption
      <4>4. begin + i \in DOMAIN f.buffer /\ f.buffer[begin + i] = at[t] + i
        BY <1>1, <2>3, <4>2, <4>3 DEF WindowHolds
      <4> QED
        BY <4>4
    <3>3. data = [i \in 0 .. want - 1 |-> at[t] + i]
      BY <3>2
    <3> QED
      BY <3>1, <3>3 DEF FileBytes
  <2>4. ReadsOwn(t, g, a, r(data))
    BY <1>2, <1>3, <1>4, <2>1, <2>2, <2>3 DEF ReadsOwn
  <2> QED
    BY <2>4
<1>6. CASE ~InWindow(f, f.offset, want)
  <2>1. PICK body \in Bodies(f.offset, want) :
          /\ got' = [got EXCEPT ![t] = r(body)]
          /\ broken' = broken \cup Deceived(t, body, f.offset, want)
    BY <1>1, <1>2, <1>6 DEF Read
  <2>2. IsResult(r(body))
    BY <1>1, <1>2, BodyIsBytes DEF IsResult
  <2>3. ASSUME t \notin broken' PROVE t \notin broken /\ body = FileBytes(at[t], want)
    BY <1>1, <2>1, <2>3 DEF Deceived
  <2>4. broken \subseteq broken' /\ broken' \subseteq broken \cup {t}
    BY <2>1 DEF Deceived
  <2>5. ReadsOwn(t, g, a, r(body))
    BY <1>2, <1>3, <1>4, <2>1, <2>2, <2>3, <2>4 DEF ReadsOwn
  <2> QED
    BY <2>5
<1> QED
  BY <1>5, <1>6

LEMMA SeekOrReadReads ==
  ASSUME ReaderInv, NEW t \in Threads, Reading(t),
         NEW low \in 0 .. Size, NEW high \in 0 .. Size, SeekOrRead(t, low, high)
  PROVE  \E f, a, r : ReadsOwn(t, f, a, r)
<1>1. CASE Seek(t, low, high)
  BY <1>1, SeekReads
<1>2. ASSUME NEW n \in 0 .. high - low, at[t] + n <= high, Read(t, n)
      PROVE  \E f, a, r : ReadsOwn(t, f, a, r)
  <2>1. n \in Int /\ n \in Nat /\ n = (IF n = -1 THEN Size - at[t] ELSE n) /\ at[t] + n <= Size
    BY <1>2, OwnFile, ReaderAssumption
  <2> QED
    BY <1>2, <2>1, ReadReads
<1>3. CASE Read(t, -1)
  <2>1. /\ -1 \in Int /\ Size - at[t] \in Nat
        /\ Size - at[t] = (IF -1 = -1 THEN Size - at[t] ELSE -1)
        /\ at[t] + (Size - at[t]) <= Size
    BY OwnFile, ReaderAssumption
  <2> QED
    BY <1>3, <2>1, ReadReads
<1> QED
  BY <1>1, <1>2, <1>3 DEF SeekOrRead

\* A column's chunk is read into the thread's buffer.
LEMMA PrefetchReads ==
  ASSUME ReaderInv, NEW t \in Threads, Reading(t),
         NEW pos \in 0 .. Size, NEW length \in 0 .. Size + Slack,
         Prefetch(t, pos, length), at' = at, got' = [got EXCEPT ![t] = None]
  PROVE  \E f, a, r : ReadsOwn(t, f, a, r)
<1> DEFINE f      == file[using[t]]
           kept   == IF length <= Cardinality(DOMAIN f.buffer) THEN f.buffer ELSE NoBuffer
           size   == IF kept = NoBuffer THEN Most(MinBuffer, length)
                     ELSE Cardinality(DOMAIN kept)
           new(b) == [i \in 0 .. size - 1 |->
                        IF i \in DOMAIN b THEN b[i]
                        ELSE IF i \in DOMAIN kept THEN kept[i] ELSE Blank]
           g(b)   == [f EXCEPT !.prefetch_offset = pos, !.prefetch_length = length,
                               !.buffer = new(b)]
<1>1. PICK body \in Bodies(pos, length) :
        /\ file' = [file EXCEPT ![using[t]] = g(body)]
        /\ broken' = broken \cup Deceived(t, body, pos, length)
  BY DEF Prefetch
<1>2. f.offset = at[t] /\ at[t] \in 0 .. Size /\ IsFile(f)
  BY OwnFile
<1>3. IsBytes(kept)
  BY <1>2, EmptyBytes DEF IsFile
<1>4. size \in 0 .. MinBuffer + Size + Slack /\ length <= size
  <2>1. Cardinality(DOMAIN kept) \in 0 .. MinBuffer + Size + Slack
    BY <1>3, BytesLength
  <2>2. CASE kept = NoBuffer
    BY <2>2, ReaderAssumption DEF Most
  <2>3. CASE kept # NoBuffer
    BY <2>1, <2>3
  <2> QED
    BY <2>2, <2>3
<1>5. IsBytes(body) /\ length \in Nat
  BY BodyIsBytes, ReaderAssumption
<1>6. IsBytes(new(body))
  <2>1. /\ body \in [0 .. Cardinality(DOMAIN body) - 1 -> Byte]
        /\ kept \in [0 .. Cardinality(DOMAIN kept) - 1 -> Byte]
    BY <1>3, <1>5, BytesLength
  <2> HIDE DEF kept, size
  <2>2. ASSUME NEW i \in 0 .. size - 1 PROVE new(body)[i] \in Byte
    <3>1. Blank \in Byte
      BY DEF Byte
    <3> QED
      BY <2>1, <3>1
  <2>3. new(body) \in [0 .. size - 1 -> Byte]
    <3>1. new(body) = [i \in 0 .. size - 1 |-> new(body)[i]]
      OBVIOUS
    <3> HIDE DEF new
    <3> QED
      BY <2>2, <3>1
  <2> QED
    BY <1>4, <2>3 DEF IsBytes
<1>7. IsFile(g(body)) /\ g(body).offset = at[t]
  <2>2. IsFile(g(body)) /\ g(body).offset = f.offset
    <3>1. f \in [offset : 0 .. Size, prefetch_offset : -1 .. Size,
                prefetch_length : -1 .. Size + Slack, buffer : {f.buffer}]
      BY <1>2 DEF IsFile
    <3> HIDE DEF f, new
    <3>2. f = [offset |-> f.offset, prefetch_offset |-> f.prefetch_offset,
               prefetch_length |-> f.prefetch_length, buffer |-> f.buffer]
      BY <3>1
    <3>3. g(body) = [offset |-> f.offset, prefetch_offset |-> pos,
                     prefetch_length |-> length, buffer |-> new(body)]
      <4> DEFINE R == [offset |-> f.offset, prefetch_offset |-> f.prefetch_offset,
                       prefetch_length |-> f.prefetch_length, buffer |-> f.buffer]
      <4>1. g(body) = [R EXCEPT !.prefetch_offset = pos, !.prefetch_length = length,
                                !.buffer = new(body)]
        BY <3>2, Zenon
      <4> HIDE DEF g
      <4> QED
        BY <4>1
    <3>4. pos \in -1 .. Size /\ length \in -1 .. Size + Slack /\ f.offset \in 0 .. Size
      BY <3>1, ReaderAssumption
    <3> HIDE DEF g
    <3>5. g(body).offset = f.offset /\ g(body).buffer = new(body)
      BY <3>3
    <3>6. g(body) \in [offset : 0 .. Size, prefetch_offset : -1 .. Size,
                      prefetch_length : -1 .. Size + Slack, buffer : {g(body).buffer}]
      BY <3>3, <3>4, <3>5
    <3> QED
      BY <1>6, <3>5, <3>6 DEF IsFile
  <2> QED
    BY <1>2, <2>2
<1>8. ASSUME t \notin broken' PROVE WindowHolds(g(body))
  <2>1. body = FileBytes(pos, length)
    BY <1>1, <1>8 DEF Deceived
  <2>2. ASSUME NEW i \in 0 .. length - 1, pos + i < Size
        PROVE  i \in DOMAIN new(body) /\ new(body)[i] = pos + i
    <3>1. i \in DOMAIN body /\ body[i] = pos + i
      BY <2>1, <2>2, <1>5, BodyIsBytes
    <3>2. i \in 0 .. size - 1
      BY <1>4, <1>5
    <3> QED
      BY <3>1, <3>2
  <2>3. g(body).prefetch_offset = pos /\ g(body).prefetch_length = length
          /\ g(body).buffer = new(body)
    BY <1>2 DEF IsFile
  <2> HIDE DEF new, g
  <2> QED
    BY <2>2, <2>3 DEF WindowHolds
<1>9. at' = [at EXCEPT ![t] = at[t]]
  BY DEF ReaderInv, ReaderTypeOK
<1>10. broken \subseteq broken' /\ broken' \subseteq broken \cup {t}
  BY <1>1 DEF Deceived
<1>11. ReadsOwn(t, g(body), at[t], None)
  <2> HIDE DEF g
  <2> QED
    BY <1>1, <1>2, <1>7, <1>8, <1>9, <1>10 DEF ReadsOwn
<1> QED
  BY <1>11

-----------------------------------------------------------------------------
\* What a read of thread t leaves of the other threads' files and results.
LEMMA ReadKeeps ==
  ASSUME ReaderInv, NEW t \in Threads, Reading(t), NEW f, NEW a, NEW r,
         ReadsOwn(t, f, a, r),
         UNCHANGED <<lock, cache, path, reader, using, column, opens>>,
         \/ pc' = pc
         \/ pc[t] = "columns" /\ column[t] <= Columns /\ pc' = [pc EXCEPT ![t] = "column"]
  PROVE  ReaderInv'
<1> USE ReaderAssumption
<1>1. ReaderTypeOK' /\ AreFunctions'
  <2>1. AreFunctions'
    BY DEF ReaderInv, AreFunctions, ReadsOwn
  <2>2. pc' \in [Threads -> {"idle", "acquire", "check", "opening", "release", "return",
                             "have", "columns", "column", "failed"}]
    BY DEF ReaderInv, ReaderTypeOK
  <2>3. DOMAIN file' = Files /\ \A x \in Files : IsFile(file'[x])
    BY DEF ReaderInv, ReaderTypeOK, ReadsOwn
  <2>4. DOMAIN got' = Threads /\ \A u \in Threads : got'[u] = None \/ IsResult(got'[u])
    BY DEF ReaderInv, ReaderTypeOK, ReadsOwn
  <2>5. at' \in [Threads -> 0 .. Size] /\ broken' \subseteq Threads
    BY DEF ReaderInv, ReaderTypeOK, ReadsOwn
  <2> QED
    BY <2>1, <2>2, <2>3, <2>4, <2>5 DEF ReaderInv, ReaderTypeOK, IsFile, IsResult, IsBytes
<1>2. OneOpener' /\ OpenedOnce'
  BY DEF ReaderInv, ReaderTypeOK, OneOpener, OpenedOnce, Reading
<1>3. ReadsAreFile'
  BY DEF ReaderInv, ReaderTypeOK, AreFunctions, ReadsAreFile, ReadsOwn
<1>4. OwnFiles'
  <2> SUFFICES ASSUME NEW u \in Threads
               PROVE  /\ pc'[u] = "opening" => using[u] = path[u]
                      /\ pc'[u] \in {"columns", "column"} => using[u] = u /\ column[u] >= 1
                      /\ pc'[u] = "column" => column[u] <= Columns
                      /\ Reading(u)' => /\ file'[using[u]].offset = at'[u]
                                        /\ u \notin broken' => WindowHolds(file'[using[u]])
    BY DEF OwnFiles, WindowHolds
  <2>1. Reading(u)' => Reading(u)
    BY DEF Reading, ReaderInv, ReaderTypeOK
  <2>2. /\ pc'[u] = "opening" => using[u] = path[u]
        /\ pc'[u] \in {"columns", "column"} => using[u] = u /\ column[u] >= 1
        /\ pc'[u] = "column" => column[u] <= Columns
    BY DEF ReaderInv, ReaderTypeOK, OwnFiles
  <2>3. CASE u = t
    <3>1. file'[using[u]] = f /\ at'[u] = a
      BY <2>3 DEF ReadsOwn, ReaderInv, ReaderTypeOK
    <3> QED
      BY <2>2, <2>3, <3>1 DEF ReadsOwn
  <2>4. ASSUME u # t, Reading(u)
        PROVE  /\ file'[using[u]].offset = at'[u]
               /\ u \notin broken' => WindowHolds(file'[using[u]])
    <3>1. using[u] # using[t]
      BY <2>4 DEF ReaderInv, ReaderTypeOK, OwnFiles, OneOpener, Reading
    <3>2. file'[using[u]] = file[using[u]] /\ at'[u] = at[u] /\ (u \in broken => u \in broken')
      BY <2>4, <3>1 DEF ReadsOwn, ReaderInv, ReaderTypeOK
    <3> QED
      BY <2>4, <3>2 DEF ReaderInv, OwnFiles
  <2> QED
    BY <2>1, <2>2, <2>3, <2>4
<1> QED
  BY <1>1, <1>2, <1>3, <1>4 DEF ReaderInv

\* What a step leaves that only moves thread t, outside of its reads.
LEMMA MoveKeeps ==
  ASSUME ReaderInv, NEW t \in Threads,
         NEW from, NEW to \in {"acquire", "check", "release", "return", "have", "failed"},
         Goto(t, from, to),
         to = "check" => lock' = t,
         to \in {"release", "failed"} => from \in {"check", "opening"} /\ lock' = lock,
         lock' \in Threads \cup {None},
         lock' # lock => lock = None \/ pc[t] = "release",
         path' \in [Threads -> Paths],
         path' = path \/ (from = "idle" /\ \E p \in Paths : path' = [path EXCEPT ![t] = p]),
         reader' \in [Threads -> Threads \cup {None}],
         UNCHANGED <<cache, readVars, opens>>
  PROVE  ReaderInv'
<1> USE ReaderAssumption
<1>1. pc' \in [Threads -> {"idle", "acquire", "check", "opening", "release", "return",
                           "have", "columns", "column", "failed"}]
  BY DEF ReaderInv, ReaderTypeOK, Goto
<1>2. ReaderTypeOK' /\ AreFunctions' /\ OpenedOnce' /\ ReadsAreFile'
  <2>1. AreFunctions' /\ OpenedOnce' /\ ReadsAreFile'
    BY DEF ReaderInv, AreFunctions, OpenedOnce, ReadsAreFile, readVars
  <2>2. ReaderTypeOK'
    BY <1>1 DEF ReaderInv, ReaderTypeOK, IsFile, IsResult, IsBytes, readVars
  <2> QED
    BY <2>1, <2>2
<1>3. \A u \in Threads : u # t => pc'[u] = pc[u] /\ path'[u] = path[u]
  BY DEF ReaderInv, ReaderTypeOK, Goto
<1>4. pc'[t] = to
  BY DEF ReaderInv, ReaderTypeOK, Goto
<1>5. OwnFiles'
  <2> SUFFICES ASSUME NEW u \in Threads
               PROVE  /\ pc'[u] = "opening" => using[u] = path'[u]
                      /\ pc'[u] \in {"columns", "column"} => using[u] = u /\ column[u] >= 1
                      /\ pc'[u] = "column" => column[u] <= Columns
                      /\ pc'[u] \in {"opening", "columns", "column"} =>
                           /\ file[using[u]].offset = at[u]
                           /\ u \notin broken => WindowHolds(file[using[u]])
    BY DEF OwnFiles, Reading, WindowHolds, readVars
  <2> QED
    BY <1>3, <1>4 DEF ReaderInv, OwnFiles, Reading
<1>6. OneOpener'
  <2>1. \A p \in Paths : cache'[p] = None => opens'[p] = 0
    BY DEF ReaderInv, OneOpener
  <2>2. ASSUME NEW u \in Threads
        PROVE  /\ pc'[u] \in {"check", "opening", "release", "failed"} => lock' = u
               /\ pc'[u] = "opening" => cache'[path'[u]] = None
    <3>1. CASE u = t
      BY <3>1, <1>4 DEF ReaderInv, OneOpener, Goto
    <3>2. CASE u # t
      BY <3>2, <1>3 DEF ReaderInv, OneOpener
    <3> QED
      BY <3>1, <3>2
  <2> QED
    BY <2>1, <2>2 DEF OneOpener
<1> QED
  BY <1>2, <1>5, <1>6 DEF ReaderInv

\* What a step leaves that gives thread t a new file, or takes its file away.
LEMMA RenewKeeps ==
  ASSUME ReaderInv, NEW t \in Threads, NEW x \in Files, NEW o \in 0 .. Size,
         \/ pc[t] = "check" /\ x = path[t] /\ cache[path[t]] = None
             /\ pc' = [pc EXCEPT ![t] = "opening"] /\ column' = column
         \/ pc[t] = "have" /\ x = t /\ pc' = [pc EXCEPT ![t] = "columns"]
             /\ column' = [column EXCEPT ![t] = 1]
         \/ pc[t] \in {"columns", "column"} /\ x = t /\ pc' = [pc EXCEPT ![t] = "idle"]
             /\ column' = [column EXCEPT ![t] = 0],
         file' = [file EXCEPT ![x] = Opened(o)],
         using' = [using EXCEPT ![t] = x],
         at' = [at EXCEPT ![t] = o],
         got' = [got EXCEPT ![t] = None],
         broken' = broken \ {t},
         reader' \in [Threads -> Threads \cup {None}],
         UNCHANGED <<lock, cache, path, opens>>
  PROVE  ReaderInv'
<1> USE ReaderAssumption
<1>0. IsFile(Opened(o)) /\ Opened(o).offset = o /\ WindowHolds(Opened(o))
  BY OpenedIsFile
<1>1. /\ pc' \in [Threads -> {"idle", "acquire", "check", "opening", "release", "return",
                              "have", "columns", "column", "failed"}]
      /\ column' \in [Threads -> 0 .. Columns + 1]
      /\ using' \in [Threads -> Files]
      /\ at' \in [Threads -> 0 .. Size]
  <2>1. pc' \in [Threads -> {"idle", "acquire", "check", "opening", "release", "return",
                             "have", "columns", "column", "failed"}]
    BY DEF ReaderInv, ReaderTypeOK
  <2>2. column' \in [Threads -> 0 .. Columns + 1]
    <3>1. 0 \in 0 .. Columns + 1 /\ 1 \in 0 .. Columns + 1
      OBVIOUS
    <3>2. column \in [Threads -> 0 .. Columns + 1]
      BY DEF ReaderInv, ReaderTypeOK
    <3> QED
      BY <3>1, <3>2
  <2>3. using' \in [Threads -> Files] /\ at' \in [Threads -> 0 .. Size]
    BY DEF ReaderInv, ReaderTypeOK
  <2> QED
    BY <2>1, <2>2, <2>3
<1>2. DOMAIN file' = Files /\ \A y \in Files : IsFile(file'[y])
  BY <1>0 DEF ReaderInv, ReaderTypeOK
<1>3. DOMAIN got' = Threads /\ \A u \in Threads : got'[u] = None \/ IsResult(got'[u])
  BY DEF ReaderInv, ReaderTypeOK
<1>4. ReaderTypeOK'
  BY <1>1, <1>2, <1>3 DEF ReaderInv, ReaderTypeOK, IsFile, IsResult, IsBytes
<1>5. AreFunctions'
  BY DEF ReaderInv, AreFunctions
<1>6. OpenedOnce' /\ ReadsAreFile'
  BY DEF ReaderInv, ReaderTypeOK, AreFunctions, OpenedOnce, ReadsAreFile
<1>7. OneOpener'
  <2>1. \A p \in Paths : cache'[p] = None => opens'[p] = 0
    BY DEF ReaderInv, OneOpener
  <2>2. ASSUME NEW u \in Threads
        PROVE  /\ pc'[u] \in {"check", "opening", "release", "failed"} => lock' = u
               /\ pc'[u] = "opening" => cache'[path'[u]] = None
    <3>1. CASE u = t
      BY <3>1 DEF ReaderInv, ReaderTypeOK, OneOpener
    <3>2. CASE u # t
      <4>1. pc'[u] = pc[u]
        BY <3>2 DEF ReaderInv, ReaderTypeOK
      <4> QED
        BY <4>1 DEF ReaderInv, OneOpener
    <3> QED
      BY <3>1, <3>2
  <2> QED
    BY <2>1, <2>2 DEF OneOpener
<1>8. OwnFiles'
  <2> SUFFICES ASSUME NEW u \in Threads
               PROVE  /\ pc'[u] = "opening" => using'[u] = path[u]
                      /\ pc'[u] \in {"columns", "column"} => using'[u] = u /\ column'[u] >= 1
                      /\ pc'[u] = "column" => column'[u] <= Columns
                      /\ pc'[u] \in {"opening", "columns", "column"} =>
                           /\ file'[using'[u]].offset = at'[u]
                           /\ u \notin broken' => WindowHolds(file'[using'[u]])
    BY DEF OwnFiles, Reading, WindowHolds
  <2>1. CASE u = t
    <3>1. using'[u] = x /\ at'[u] = o /\ file'[x] = Opened(o)
      BY <2>1 DEF ReaderInv, ReaderTypeOK
    <3> QED
      BY <2>1, <3>1, <1>0 DEF ReaderInv, ReaderTypeOK
  <2>2. CASE u # t
    <3>1. /\ pc'[u] = pc[u] /\ using'[u] = using[u] /\ column'[u] = column[u]
          /\ at'[u] = at[u] /\ (u \in broken <=> u \in broken')
      BY <2>2 DEF ReaderInv, ReaderTypeOK
    <3>2. Reading(u) => using[u] # x
      BY <2>2 DEF ReaderInv, ReaderTypeOK, OwnFiles, OneOpener, Reading
    <3>3. Reading(u) => file'[using[u]] = file[using[u]]
      BY <3>2 DEF ReaderInv, ReaderTypeOK
    <3> QED
      BY <3>1, <3>3 DEF ReaderInv, OwnFiles, Reading
  <2> QED
    BY <2>1, <2>2
<1> QED
  BY <1>4, <1>5, <1>6, <1>7, <1>8 DEF ReaderInv

-----------------------------------------------------------------------------
LEMMA StoreKeeps ==
  ASSUME ReaderInv, NEW t \in Threads, Store(t)
  PROVE  ReaderInv'
<1> USE ReaderAssumption DEF Store, Goto
<1>1. /\ using[t] = path[t] /\ path[t] \in Files /\ cache[path[t]] = None /\ lock = t
      /\ opens[path[t]] = 0
  BY DEF ReaderInv, ReaderTypeOK, OwnFiles, OneOpener, Files
<1>2. ReaderTypeOK'
  <2>1. DOMAIN file' = Files /\ \A y \in Files : IsFile(file'[y])
    BY <1>1, ClosedIsFile DEF ReaderInv, ReaderTypeOK
  <2>2. /\ pc' \in [Threads -> {"idle", "acquire", "check", "opening", "release", "return",
                                "have", "columns", "column", "failed"}]
        /\ cache' \in [Paths -> Threads \cup {None}]
        /\ opens' \in [Paths -> Nat]
    BY DEF ReaderInv, ReaderTypeOK
  <2> QED
    BY <2>1, <2>2 DEF ReaderInv, ReaderTypeOK, IsFile, IsResult, IsBytes
<1>3. AreFunctions' /\ ReadsAreFile'
  BY DEF ReaderInv, AreFunctions, ReadsAreFile
<1>4. OneOpener' /\ OpenedOnce'
  BY <1>1 DEF ReaderInv, ReaderTypeOK, OneOpener, OpenedOnce
<1>5. OwnFiles'
  <2> SUFFICES ASSUME NEW u \in Threads
               PROVE  /\ pc'[u] = "opening" => using[u] = path[u]
                      /\ pc'[u] \in {"columns", "column"} => using[u] = u /\ column[u] >= 1
                      /\ pc'[u] = "column" => column[u] <= Columns
                      /\ pc'[u] \in {"opening", "columns", "column"} =>
                           /\ file'[using[u]].offset = at[u]
                           /\ u \notin broken => WindowHolds(file'[using[u]])
    BY DEF OwnFiles, Reading, WindowHolds
  <2>1. CASE u = t
    BY <2>1 DEF ReaderInv, ReaderTypeOK
  <2>2. CASE u # t
    <3>1. pc'[u] = pc[u]
      BY <2>2 DEF ReaderInv, ReaderTypeOK
    <3>2. Reading(u) => using[u] # path[t]
      BY <2>2, <1>1 DEF ReaderInv, ReaderTypeOK, OwnFiles, OneOpener, Reading
    <3>3. Reading(u) => file'[using[u]] = file[using[u]]
      BY <3>2 DEF ReaderInv, ReaderTypeOK
    <3> QED
      BY <3>1, <3>3 DEF ReaderInv, OwnFiles, Reading
  <2> QED
    BY <2>1, <2>2
<1> QED
  BY <1>2, <1>3, <1>4, <1>5 DEF ReaderInv

\* The step to the next column.
LEMMA ColumnKeeps ==
  ASSUME ReaderInv, NEW t \in Threads, pc[t] \in {"columns", "column"},
         column[t] <= Columns,
         column' = [column EXCEPT ![t] = @ + 1],
         pc' = [pc EXCEPT ![t] = "columns"],
         UNCHANGED <<lock, cache, path, reader, file, using, at, got, broken, opens>>
  PROVE  ReaderInv'
<1> USE ReaderAssumption
<1>1. /\ pc' \in [Threads -> {"idle", "acquire", "check", "opening", "release", "return",
                              "have", "columns", "column", "failed"}]
      /\ column' \in [Threads -> 0 .. Columns + 1]
  BY DEF ReaderInv, ReaderTypeOK
<1>2. ReaderTypeOK'
  BY <1>1 DEF ReaderInv, ReaderTypeOK, IsFile, IsResult, IsBytes
<1>3. AreFunctions' /\ ReadsAreFile' /\ OpenedOnce'
  BY DEF ReaderInv, AreFunctions, ReadsAreFile, OpenedOnce
<1>4. OneOpener'
  BY DEF ReaderInv, ReaderTypeOK, OneOpener
<1>5. OwnFiles'
  <2> SUFFICES ASSUME NEW u \in Threads
               PROVE  /\ pc'[u] = "opening" => using[u] = path[u]
                      /\ pc'[u] \in {"columns", "column"} => using[u] = u /\ column'[u] >= 1
                      /\ pc'[u] = "column" => column'[u] <= Columns
                      /\ pc'[u] \in {"opening", "columns", "column"} =>
                           /\ file[using[u]].offset = at[u]
                           /\ u \notin broken => WindowHolds(file[using[u]])
    BY DEF OwnFiles, Reading, WindowHolds
  <2>1. CASE u = t
    <3>1. pc'[u] = "columns" /\ column'[u] = column[u] + 1 /\ column[u] \in Nat
      BY <2>1 DEF ReaderInv, ReaderTypeOK
    <3> QED
      BY <2>1, <3>1 DEF ReaderInv, OwnFiles, Reading
  <2>2. CASE u # t
    <3>1. pc'[u] = pc[u] /\ column'[u] = column[u]
      BY <2>2 DEF ReaderInv, ReaderTypeOK
    <3> QED
      BY <3>1 DEF ReaderInv, OwnFiles, Reading
  <2> QED
    BY <2>1, <2>2
<1> QED
  BY <1>2, <1>3, <1>4, <1>5 DEF ReaderInv

\* A chunk lies in the file, and its window begins there.
LEMMA ChunkInFile ==
  ASSUME NEW c \in 1 .. Columns
  PROVE  /\ ChunkStart[c] \in 0 .. Size
         /\ ChunkEnd[c] \in 0 .. Size
         /\ ChunkEnd[c] - ChunkStart[c] + Slack \in 0 .. Size + Slack
<1>1. /\ ChunkStart[c] \in Nat /\ ChunkEnd[c] \in Nat /\ Size \in Nat /\ Slack \in Nat
      /\ ChunkStart[c] <= ChunkEnd[c] /\ ChunkEnd[c] <= Size
  BY ReaderAssumption
<1> QED
  BY <1>1

LEMMA ReaderInit_Inv ==
  ASSUME ReaderInit
  PROVE  ReaderInv
<1> USE ReaderAssumption DEF ReaderInit
<1>1. IsFile(Opened(0))
  BY OpenedIsFile
<1>2. ReaderTypeOK /\ AreFunctions
  <2>1. AreFunctions
    BY DEF AreFunctions
  <2>2. file \in [Files -> {Opened(0)}] /\ using \in [Threads -> Files]
    BY DEF Files
  <2>3. 0 \in 0 .. Size /\ 0 \in 0 .. Columns + 1
    OBVIOUS
  <2> QED
    BY <1>1, <2>1, <2>2, <2>3 DEF ReaderTypeOK
<1>3. OwnFiles /\ OneOpener /\ OpenedOnce /\ ReadsAreFile
  BY DEF OwnFiles, OneOpener, OpenedOnce, ReadsAreFile, Reading
<1> QED
  BY <1>2, <1>3 DEF ReaderInv

LEMMA ReaderStep_Inv ==
  ASSUME ReaderInv, [ReaderNext]_readerVars
  PROVE  ReaderInv'
<1> USE ReaderAssumption
<1>1. CASE UNCHANGED readerVars
  <2> USE <1>1 DEF readerVars, readVars
  <2>1. ReaderTypeOK'
    BY DEF ReaderInv, ReaderTypeOK, IsFile, IsResult, IsBytes
  <2>2. AreFunctions' /\ ReadsAreFile' /\ OpenedOnce'
    BY DEF ReaderInv, AreFunctions, ReadsAreFile, OpenedOnce
  <2>3. OwnFiles'
    BY DEF ReaderInv, OwnFiles, Reading, WindowHolds
  <2>4. OneOpener'
    BY DEF ReaderInv, OneOpener
  <2> QED
    BY <2>1, <2>2, <2>3, <2>4 DEF ReaderInv
<1>2. ASSUME NEW t \in Threads, ReaderStep(t)
      PROVE  ReaderInv'
  <2>0. path[t] \in Paths /\ pc \in [Threads -> {"idle", "acquire", "check", "opening", "release",
          "return", "have", "columns", "column", "failed"}]
    BY DEF ReaderInv, ReaderTypeOK
  <2>1. ASSUME NEW p \in Paths, Call(t, p)
        PROVE  ReaderInv'
    <3>1. path' \in [Threads -> Paths]
      BY <2>1 DEF Call, ReaderInv, ReaderTypeOK
    <3> QED
      BY <2>1, <3>1, MoveKeeps DEF Call, Goto, readVars, ReaderInv, ReaderTypeOK
  <2>2. CASE Acquire(t)
    BY <2>2, MoveKeeps DEF Acquire, Goto, readVars, ReaderInv, ReaderTypeOK
  <2>3. CASE Hit(t)
    BY <2>3, MoveKeeps DEF Hit, Goto, readVars, ReaderInv, ReaderTypeOK
  <2>4. CASE Miss(t)
    <3>1. path[t] \in Files /\ 0 \in 0 .. Size
      BY <2>0 DEF Files
    <3> QED
      BY <2>4, <3>1, RenewKeeps DEF Miss, Goto, ReaderInv, ReaderTypeOK
  <2>5. CASE Store(t)
    BY <2>5, StoreKeeps
  <2>6. CASE OpenRaises(t)
    BY <2>6, MoveKeeps DEF OpenRaises, Goto, readVars, ReaderInv, ReaderTypeOK
  <2>7. CASE Release(t)
    BY <2>7, MoveKeeps DEF Release, Goto, readVars, ReaderInv, ReaderTypeOK
  <2>8. CASE Return(t)
    <3>1. reader' \in [Threads -> Threads \cup {None}]
      BY <2>8 DEF Return, ReaderInv, ReaderTypeOK
    <3> QED
      BY <2>8, <3>1, MoveKeeps DEF Return, Goto, readVars, ReaderInv, ReaderTypeOK
  <2>9. CASE ReadFooter(t)
    <3>1. \E f, a, r : ReadsOwn(t, f, a, r)
      BY <2>9, SeekOrReadReads DEF ReadFooter, Reading
    <3>2. UNCHANGED <<using, column>>
      BY <2>9 DEF ReadFooter, SeekOrRead, Seek, Read
    <3> QED
      BY <2>9, <3>1, <3>2, ReadKeeps DEF ReadFooter, Reading
  <2>10. CASE BeginRowGroup(t)
    <3>1. t \in Files /\ path[t] \in Files
      BY <2>0 DEF Files
    <3>2. file[path[t]].offset \in 0 .. Size
      BY <3>1 DEF ReaderInv, ReaderTypeOK, IsFile
    <3> QED
      BY <2>10, <3>1, <3>2, RenewKeeps DEF BeginRowGroup, Fin, Goto, ReaderInv, ReaderTypeOK
  <2>11. CASE SkipColumn(t)
    BY <2>0, <2>11, ColumnKeeps DEF SkipColumn
  <2>12. CASE BeginColumn(t)
    <3>1. column[t] \in 1 .. Columns
      BY <2>12 DEF BeginColumn, Goto, ReaderInv, ReaderTypeOK, OwnFiles
    <3>2. /\ ChunkStart[column[t]] \in 0 .. Size
          /\ ChunkEnd[column[t]] - ChunkStart[column[t]] + Slack \in 0 .. Size + Slack
      BY <3>1, ChunkInFile
    <3>3. \E f, a, r : ReadsOwn(t, f, a, r)
      BY <2>12, <3>2, PrefetchReads DEF BeginColumn, Goto, Reading
    <3> QED
      BY <2>12, <3>3, ReadKeeps DEF BeginColumn, Goto, Reading
  <2>13. CASE ReadColumn(t)
    <3>1. column[t] \in 1 .. Columns
      BY <2>13 DEF ReadColumn, ReaderInv, ReaderTypeOK, OwnFiles
    <3>2. ChunkStart[column[t]] \in 0 .. Size /\ ChunkEnd[column[t]] \in 0 .. Size
      BY <3>1, ChunkInFile
    <3>3. \E f, a, r : ReadsOwn(t, f, a, r)
      BY <2>13, <3>2, SeekOrReadReads DEF ReadColumn, Reading
    <3>4. UNCHANGED <<using, column>>
      BY <2>13 DEF ReadColumn, SeekOrRead, Seek, Read
    <3> QED
      BY <2>13, <3>3, <3>4, ReadKeeps DEF ReadColumn, Reading
  <2>14. CASE EndColumn(t)
    <3>1. column[t] <= Columns
      BY <2>14 DEF EndColumn, Goto, ReaderInv, OwnFiles
    <3> QED
      BY <2>14, <3>1, ColumnKeeps DEF EndColumn, Goto
  <2>15. CASE Leave(t, "columns") \/ Leave(t, "column")
    <3>1. t \in Files /\ 0 \in 0 .. Size
      BY DEF Files
    <3>2. reader' \in [Threads -> Threads \cup {None}]
      BY <2>15 DEF Leave, ReaderInv, ReaderTypeOK
    <3> QED
      BY <2>15, <3>1, <3>2, RenewKeeps DEF Leave, Goto
  <2> QED
    BY <1>2, <2>1, <2>2, <2>3, <2>4, <2>5, <2>6, <2>7, <2>8, <2>9, <2>10, <2>11, <2>12, <2>13,
       <2>14, <2>15 DEF ReaderStep, GetReaderStep, EndRowGroup, RowGroupRaises
<1> QED
  BY <1>1, <1>2 DEF ReaderNext

LEMMA ReaderAlways == ReaderSpec => []ReaderInv
<1>1. ReaderInit => ReaderInv
  BY ReaderInit_Inv
<1>2. ReaderInv /\ [ReaderNext]_readerVars => ReaderInv'
  BY ReaderStep_Inv
<1> QED
  BY <1>1, <1>2, PTL DEF ReaderSpec

\* The types of the variables.
THEOREM ReaderTypeCorrect == ReaderSpec => []ReaderTypeOK
<1>1. ReaderInv => ReaderTypeOK
  BY DEF ReaderInv
<1> QED
  BY <1>1, ReaderAlways, PTL

\* A path is opened once (get_reader), for every number of threads and paths.
THEOREM ReadersAreOpenedOnce == ReaderSpec => []OpenedOnce
<1>1. ReaderInv => OpenedOnce
  BY DEF ReaderInv
<1> QED
  BY <1>1, ReaderAlways, PTL

\* What WebHdfsFile.read gives is what stands in the file where the thread is,
\* unless an answer was broken, for every layout of a file and size of the buffer.
THEOREM ReadersReadTheFile == ReaderSpec => []ReadsAreFile
<1>1. ReaderInv => ReadsAreFile
  BY DEF ReaderInv
<1> QED
  BY <1>1, ReaderAlways, PTL
=============================================================================
