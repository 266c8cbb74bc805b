----------------------------- MODULE FileBuffer -----------------------------
(***************************************************************************)
(* A file behind its buffer (include/AxleUtil/files_base.h, src/files.cpp, *)
(* src/os/os_windows_files.cpp).  The state is one record, transformed by  *)
(* an operator per function: what the system has (disk, os: its pointer),  *)
(* what FileData has, and what the caller wrote to it (ideal).             *)
(***************************************************************************)
EXTENDS Integers, SequencesExt

CONSTANTS
  BufferSize,     \* BUFFER_SIZE
  FileSizes,      \* the sizes of the files there are
  FileMax,        \* bound: how far a file grows
  AnyRead         \* whether reads go on where the buffer to load is not full

ASSUME FileAssumption == BufferSize \in Nat \ {0} /\ FileSizes \subseteq Nat /\ FileMax \in Nat /\ AnyRead \in BOOLEAN

VARIABLE file

fileVars == <<file>>

Byte == UNION {0..n : n \in FileSizes \union {2}}

FileTypeOK ==
  /\ file.disk \in Seq(Byte) /\ file.ideal \in Seq(Byte) /\ file.got \in Seq(Byte) /\ file.buf \in Seq(Byte)
  /\ {file.os, file.realPtr, file.realSize, file.absPtr, file.absSize, file.bufPtr, file.gotAt} \subseteq Nat
  /\ Len(file.buf) <= BufferSize /\ file.inSync \in BOOLEAN
  /\ file.mode \in {"READ", "WRITE", "closed"}
  /\ file.failed \in {"", "handle_read", "small_buffer_read", "big_buffer_read", "seek_from_start_internal"}

\* FileData: nothing is loaded.
Opened(mode, content) ==
  [mode |-> mode, disk |-> content, os |-> 0, realPtr |-> 0, realSize |-> Len(content),
   absPtr |-> 0, absSize |-> Len(content), bufPtr |-> 0, buf |-> <<>>, inSync |-> TRUE,
   failed |-> "", ideal |-> content, got |-> <<>>, gotAt |-> 0]

\* open of a file there is, create and replace with an empty one.  Every byte differs.
FileInit == \E mode \in {"READ", "WRITE"}, size \in FileSizes \union {0} :
  file = Opened(mode, [i \in 1..size |-> i])

Slice(s, from, n) == SubSeq(s, from + 1, from + n)
BufferEnd(f) == f.bufPtr + Len(f.buf)
Failing(f, place) == [f EXCEPT !.failed = place]

\* A sequence with bytes written over it from position at on.
Overlaid(s, at, bytes) ==
  [i \in 1..Max({Len(s), at + Len(bytes)}) |->
     IF i \in at + 1..at + Len(bytes) THEN bytes[i - at] ELSE IF i <= Len(s) THEN s[i] ELSE 0]

HandleWrite(f, bytes) == [f EXCEPT !.disk = Overlaid(f.disk, f.os, bytes), !.os = @ + Len(bytes)]

\* Mutant: the system's pointer is not moved.
RealSeekNever(f, ptr) == f

RealSeek(f, ptr) == IF f.realPtr = ptr THEN f ELSE [f EXCEPT !.os = ptr, !.realPtr = ptr]

ForceSync(f) ==
  [HandleWrite(RealSeek(f, f.bufPtr), f.buf) EXCEPT
     !.inSync = TRUE, !.realPtr = BufferEnd(f), !.realSize = f.absSize]

SyncBuffer(f) == IF f.inSync THEN f ELSE ForceSync(f)

\* get_loaded_range: which of the bytes from ptr on the buffer has.  Before the buffer the
\* subtraction for the size wraps around, and the size is all of the buffer.
LoadedRange(f, ptr, n) ==
  IF ptr < f.bufPtr
    THEN IF ptr + n <= f.bufPtr
           THEN [ptrStart |-> 0, bufStart |-> 0, size |-> 0]
           ELSE [ptrStart |-> f.bufPtr - ptr, bufStart |-> 0, size |-> Len(f.buf)]
    ELSE IF BufferEnd(f) <= ptr
           THEN [ptrStart |-> 0, bufStart |-> 0, size |-> 0]
           ELSE [ptrStart |-> 0, bufStart |-> ptr - f.bufPtr, size |-> Min({BufferEnd(f) - ptr, n})]

\* What small_buffer_read loads: reckoned from the start of the buffer it had.
NextBuffer(f) == Min({BufferSize, f.realSize - f.bufPtr})

\* handle_read of size bytes, of which the caller takes n after those it has.
Loaded(f, at, size, n, had) ==
  LET bytes == Slice(f.disk, f.os, size)
      kept == Min({size, BufferSize})
  IN IF f.os + size > Len(f.disk)
       THEN Failing(f, "handle_read")
       ELSE [f EXCEPT !.os = @ + size, !.realPtr = @ + size, !.bufPtr = at + size - kept,
                      !.buf = Slice(bytes, size - kept, kept), !.got = had \o Slice(bytes, 0, n)]

SmallRead(f, at, n, had) ==
  IF n > NextBuffer(f) THEN Failing(f, "small_buffer_read") ELSE Loaded(f, at, NextBuffer(f), n, had)

BigRead(f, at, n, had) ==
  IF n > f.realSize - f.bufPtr THEN Failing(f, "big_buffer_read") ELSE Loaded(f, at, n, n, had)

GenericRead(f, at, n, had) == IF n <= BufferSize THEN SmallRead(f, at, n, had) ELSE BigRead(f, at, n, had)

Straddles(r, n) == r.size = BufferSize /\ ~(r.ptrStart = 0 /\ r.ptrStart + r.size = n)

\* read_to_bytes, and read_byte.
Read(f, n) ==
  LET r == LoadedRange(f, f.absPtr, n)
      g == SyncBuffer(f)
      have == Slice(f.buf, r.bufStart, r.size)
      read == IF n <= r.size THEN [f EXCEPT !.got = have]
              ELSE IF Straddles(r, n) THEN BigRead(g, f.absPtr, n, <<>>)
              ELSE IF r.ptrStart = 0 THEN GenericRead(g, f.absPtr + r.size, n - r.size, have)
              ELSE [GenericRead(g, f.absPtr, r.ptrStart, <<>>) EXCEPT !.got = @ \o have]
  IN [read EXCEPT !.absPtr = @ + n, !.gotAt = f.absPtr]

\* Whether a write of n bytes goes to the buffer.
InBuffer(f, n) == f.bufPtr <= f.absPtr /\ f.absPtr + n <= f.bufPtr + BufferSize

\* write_new_buffer: the bytes go to the system, and the buffer keeps the last of them.
WriteNewBuffer(f, bytes) ==
  LET n == Len(bytes)
      kept == Min({n, BufferSize})
  IN [HandleWrite(f, bytes) EXCEPT
        !.realPtr = @ + n, !.realSize = Max({@, f.realPtr + n}), !.bufPtr = f.absPtr + n - kept,
        !.inSync = TRUE, !.buf = Slice(bytes, n - kept, kept)]

Write(f, bytes) ==
  LET n == Len(bytes)
      written ==
        IF InBuffer(f, n)
          THEN [f EXCEPT !.buf = Overlaid(f.buf, f.absPtr - f.bufPtr, bytes), !.inSync = FALSE]
          ELSE IF f.absPtr > f.absSize THEN Failing(SyncBuffer(f), "seek_from_start_internal")
          ELSE WriteNewBuffer(SyncBuffer(f), bytes)
  IN [written EXCEPT !.absPtr = @ + n, !.absSize = Max({@, f.absPtr + n}), !.ideal = Overlaid(@, f.absPtr, bytes)]

\* write_padding_bytes, for no more than a buffer.  abstract_file_size stays.
Pad(f, byte, n) ==
  LET bytes == [i \in 1..n |-> byte]
      g == SyncBuffer(f)
  IN IF f.absPtr > f.absSize THEN Failing(g, "seek_from_start_internal")
     ELSE [ForceSync([g EXCEPT !.buf = bytes, !.bufPtr = f.absPtr]) EXCEPT
             !.absPtr = @ + n, !.ideal = Overlaid(@, f.absPtr, bytes)]

WriteAligned(f, bytes, align) ==
  IF Len(bytes) % align = 0 THEN Write(f, bytes) ELSE Pad(Write(f, bytes), 0, align - (Len(bytes) % align))

\* What a careful caller keeps to: it seeks inside the buffer only, where no read or write
\* that follows finds the system's pointer elsewhere,
CarefulSeek(location) == location \in file.bufPtr..BufferEnd(file)

\* does not read on from a full buffer more than a buffer, or where the last one is not full,
CarefulRead(n) ==
  LET r == LoadedRange(file, file.absPtr, n)
  IN \/ n <= r.size
     \/ ~Straddles(r, n) /\ (n - r.size > BufferSize \/ file.os + NextBuffer(file) <= file.realSize)

\* and writes past the end of the buffer only from there, and not right after padding.
CarefulWrite(n) == InBuffer(file, n) \/ (file.absPtr = BufferEnd(file) /\ file.absPtr <= file.absSize)

FileRead(n) ==
  /\ file.mode = "READ" /\ file.absPtr + n <= file.absSize /\ (AnyRead \/ CarefulRead(n))
  /\ file' = Read(file, n)

FileWrite(bytes) ==
  /\ file.mode = "WRITE" /\ CarefulWrite(Len(bytes))
  /\ file' = Write(file, bytes)

FilePad(byte, n) ==
  /\ file.mode = "WRITE" /\ file.absPtr <= file.absSize
  /\ file' = Pad(file, byte, n)

FileWriteAligned(bytes, align) ==
  /\ file.mode = "WRITE" /\ CarefulWrite(Len(bytes))
  /\ file' = WriteAligned(file, bytes, align)

FileSeek(location) ==
  /\ location <= file.absSize /\ CarefulSeek(location)
  /\ file' = [file EXCEPT !.absPtr = location]

FileFlush == file' = SyncBuffer(file)

\* close: the destructor writes what is not written.
FileClose == file' = [SyncBuffer(file) EXCEPT !.mode = "closed"]

FileNext ==
  /\ file.failed = "" /\ file.mode # "closed"
  /\ \/ \E n \in 1..BufferSize + 1 : FileRead(n)
     \/ \E n \in 1..BufferSize + 1, byte \in 1..2 :
          file.absPtr + n <= FileMax /\ FileWrite([i \in 1..n |-> byte])
     \/ \E n \in 1..BufferSize : file.absPtr + n <= FileMax /\ FilePad(0, n)
     \/ \E n \in 1..BufferSize : file.absPtr + BufferSize + 1 <= FileMax /\ FileWriteAligned([i \in 1..n |-> 1], BufferSize + 1)
     \/ \E location \in 0..FileMax : FileSeek(location)
     \/ FileFlush \/ FileClose

\* What the disk has, with what the buffer still holds back written over it, is what the
\* caller wrote; a buffer in sync is what the disk has there; a read returned what the file
\* has at its place; the recorded pointer is the system's; and a closed file holds nothing back.
FileAgrees ==
  /\ file.failed = ""
  /\ IF file.inSync
       THEN file.disk = file.ideal /\ Slice(file.disk, file.bufPtr, Len(file.buf)) = file.buf
       ELSE Overlaid(file.disk, file.bufPtr, file.buf) = file.ideal
  /\ file.got = Slice(file.ideal, file.gotAt, Len(file.got))
  /\ file.realPtr = file.os
  /\ file.mode = "closed" => file.disk = file.ideal

\* os_windows_files.cpp:46: handle_read reads as many bytes as it was asked for.
ReadsInFull == file.failed # "handle_read"
=============================================================================
