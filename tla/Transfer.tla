------------------------------ MODULE Transfer ------------------------------
(***************************************************************************)
(* RETR and STOR of one path by several sessions: handleRest, handleRetr,  *)
(* handleStor, handleDele (src/server/session.cpp), TransferEngine         *)
(* (src/server/transfer.h) and transmitFile (src/common/platform.cpp).  A  *)
(* session waits for its data connection between the "150" reply and the   *)
(* opening of the file, and moves a byte at a time afterwards, zero-copy   *)
(* or not, so other sessions act in between.                               *)
(*                                                                         *)
(* Files are inodes: on POSIX an open file outlives its name, on win32 it  *)
(* cannot be deleted.  Counts and offsets are kept modulo 2^Width, as      *)
(* uint64_t does; long has LongWidth bits on win32 and Width on POSIX.  A  *)
(* byte given to fwrite() reaches the file some time before fclose()       *)
(* returns, or never: nobody looks at what the two return.                 *)
(***************************************************************************)
EXTENDS Integers, Sequences, FiniteSets

CONSTANTS Sessions,
          Bytes,        \* values a byte can have
          Hole,         \* what a skipped byte reads as
          maxFileSize,  \* maxFileSizeBytes, 0 = no limit
          Width,        \* bits of uint64_t
          LongWidth,    \* bits of long on win32
          RestArgs,     \* bound of the model: arguments of REST
          MaxBytes      \* bound of the model: length of a file or an upload

ASSUME TransferAssumption ==
    /\ Hole \notin Bytes
    /\ IsFiniteSet(Sessions)
    /\ {maxFileSize, Width, LongWidth, MaxBytes} \subseteq Nat
    /\ RestArgs \subseteq Nat

\* maxFileSizeBytes is a number of megabytes modulo 2^64, so never the largest
\* uint64_t; that powers of two are positive is said here for the prover.
ASSUME WidthAssumption ==
    /\ 2 ^ Width \in Nat \ {0}
    /\ 2 ^ LongWidth \in Nat \ {0}
    /\ maxFileSize + 1 < 2 ^ Width

VARIABLES
    build,      \* "posix" (Linux) or "win32": chosen once
    link,       \* inode the path names, 0 = none
    data,       \* contents of each inode
    pc,         \* "idle", "wait" (for the data connection), "recv", "zerocopy",
                \* "fallback" (to reopen the file), "buffered"
    cmd,        \* command being served
    rest,       \* restartOffset_
    ino,        \* inode a session has open
    pos,        \* its file position
    toSend,     \* toSend (POSIX) or sendSize (win32) of transmitFile
    flushed,    \* bytes of an upload that have left the stdio buffer
    bytes,      \* result.bytes
    reply,      \* final reply to the last transfer
    total,      \* context_.totalBytesTransferred
    wire,       \* history: bytes that crossed the data connection
    again,      \* history: how many of them a TransmitFile() had sent that failed
    refused,    \* history: bytes of an upload the file system did not take
    first,      \* history: position of the first byte stored, -1 before
    clean,      \* history: no other session touched the file since the open
    snap        \* history: contents when RETR opened the file

fileVars == <<build, link, data>>
ioVars == <<pos, toSend, flushed, bytes>>
histVars == <<wire, again, refused, first, clean, snap>>
vars == <<build, link, data, pc, cmd, rest, ino, pos, toSend, flushed, bytes, reply, total,
          wire, again, refused, first, clean, snap>>

\* One inode for the name and one for each open file is enough.
Inodes == 1 .. Cardinality(Sessions) + 1

\* An inode that has neither a name nor a reader or writer is free again.
Reclaim(d, l, open) ==
    [i \in Inodes |-> IF i = l \/ \E s \in Sessions : open[s] = i THEN d[i] ELSE <<>>]

Free(l, open) == CHOOSE i \in Inodes : i # l /\ \A s \in Sessions : open[s] # i

\* Mutant: a counter that never wraps.
NoWrap(n) == n

U64(n) == n % 2 ^ Width

\* An offset that is not negative once it is taken for an off_t or a LONGLONG.
Positive(offset) == 2 * offset < 2 ^ Width

\* Where fseek(file, (long)offset) leaves the position of a file just opened:
\* long keeps the low bits, and a seek to a negative position fails, unnoticed.
Sought(offset) ==
    LET range == IF build = "win32" THEN 2 ^ LongWidth ELSE 2 ^ Width
        low == offset % range
    IN  IF 2 * low < range THEN low ELSE 0

Init ==
    /\ build \in {"posix", "win32"}
    /\ link = 0 /\ data = [i \in Inodes |-> <<>>]
    /\ pc = [s \in Sessions |-> "idle"]
    /\ cmd = [s \in Sessions |-> "none"]
    /\ rest = [s \in Sessions |-> 0]
    /\ ino = [s \in Sessions |-> 0]
    /\ pos = [s \in Sessions |-> 0]
    /\ toSend = [s \in Sessions |-> 0]
    /\ flushed = [s \in Sessions |-> 0]
    /\ bytes = [s \in Sessions |-> 0]
    /\ reply = [s \in Sessions |-> "none"]
    /\ total = 0
    /\ wire = [s \in Sessions |-> <<>>]
    /\ again = [s \in Sessions |-> 0]
    /\ refused = [s \in Sessions |-> 0]
    /\ first = [s \in Sessions |-> -1]
    /\ clean = [s \in Sessions |-> TRUE]
    /\ snap = [s \in Sessions |-> <<>>]

\* The other sessions that have a file open see it change under them.
Disturb(s) ==
    /\ clean' = [x \in Sessions |-> (x = s \/ ino[x] = 0) /\ clean[x]]
    /\ snap' = [x \in Sessions |-> IF clean'[x] THEN snap[x] ELSE <<>>]

\* What is local to a transfer, and its histories, end with it.
Forget(s) ==
    /\ cmd' = [cmd EXCEPT ![s] = "none"]
    /\ pos' = [pos EXCEPT ![s] = 0]
    /\ toSend' = [toSend EXCEPT ![s] = 0]
    /\ flushed' = [flushed EXCEPT ![s] = 0]
    /\ bytes' = [bytes EXCEPT ![s] = 0]
    /\ wire' = [wire EXCEPT ![s] = <<>>]
    /\ again' = [again EXCEPT ![s] = 0]
    /\ refused' = [refused EXCEPT ![s] = 0]
    /\ first' = [first EXCEPT ![s] = -1]

\* The file is closed, the reply sent, the offset used up and the byte count
\* recorded; l is what the path names then.
Finish(s, l, code, n) ==
    /\ link' = l
    /\ pc' = [pc EXCEPT ![s] = "idle"]
    /\ reply' = [reply EXCEPT ![s] = code]
    /\ rest' = [rest EXCEPT ![s] = 0]
    /\ total' = U64(total + n)
    /\ ino' = [ino EXCEPT ![s] = 0]
    /\ data' = Reclaim(data, l, ino')
    /\ clean' = [x \in Sessions |-> x = s \/ ((l = link \/ ino[x] = 0) /\ clean[x])]
    /\ snap' = [x \in Sessions |-> IF x # s /\ clean'[x] THEN snap[x] ELSE <<>>]
    /\ Forget(s)
    /\ UNCHANGED build

-----------------------------------------------------------------------------
(* Commands.                                                               *)

\* The digits are added up in a uint64_t, without a look at its width.
handleRest(s) ==
    /\ pc[s] = "idle"
    /\ \E k \in RestArgs : rest' = [rest EXCEPT ![s] = U64(k)]
    /\ UNCHANGED <<fileVars, pc, cmd, ino, ioVars, reply, total, histVars>>

\* handleRetr and handleStor up to the wait in dataChannel_.open().
Begin(s, c) ==
    /\ pc[s] = "idle"
    /\ \/ /\ c = "RETR" /\ link = 0
          /\ reply' = [reply EXCEPT ![s] = "550"]
          /\ UNCHANGED <<pc, cmd>>
       \/ /\ c = "RETR" => link # 0
          /\ pc' = [pc EXCEPT ![s] = "wait"]
          /\ cmd' = [cmd EXCEPT ![s] = c]
          /\ reply' = [reply EXCEPT ![s] = "none"]
    /\ UNCHANGED <<fileVars, rest, ino, ioVars, total, histVars>>

\* No data connection: 425, and restartOffset_ stays.
OpenFails(s) ==
    /\ pc[s] = "wait"
    /\ pc' = [pc EXCEPT ![s] = "idle"]
    /\ cmd' = [cmd EXCEPT ![s] = "none"]
    /\ reply' = [reply EXCEPT ![s] = "425"]
    /\ UNCHANGED <<fileVars, rest, ino, ioVars, total, histVars>>

\* DeleteFile fails while another session has the file open.
Held(s) == build = "win32" /\ \E x \in Sessions \ {s} : ino[x] = link

handleDele(s) ==
    /\ pc[s] = "idle"
    /\ link # 0 /\ ~Held(s)
    /\ link' = 0
    /\ data' = Reclaim(data, 0, ino)
    /\ Disturb(s)
    /\ UNCHANGED <<build, pc, cmd, rest, ino, ioVars, reply, total,
                   wire, again, refused, first>>

-----------------------------------------------------------------------------
(* recvFile.                                                               *)

\* CreateFileA shares the file with readers only while TransmitFile() sends it.
Locked == build = "win32" /\ \E x \in Sessions : pc[x] = "zerocopy" /\ ino[x] = link

\* Mutant: mode "ab" whatever the offset.
AppendAlways(s) ==
    /\ pc[s] = "wait" /\ cmd[s] = "STOR"
    /\ link # 0 => ~Locked
    /\ pc' = [pc EXCEPT ![s] = "recv"]
    /\ link' = IF link = 0 THEN Free(link, ino) ELSE link
    /\ ino' = [ino EXCEPT ![s] = link']
    /\ pos' = [pos EXCEPT ![s] = Len(data[link'])]
    /\ Disturb(s)
    /\ UNCHANGED <<build, data, cmd, rest, toSend, flushed, bytes, reply, total,
                   wire, again, refused, first>>

\* fopen with "wb" creates or truncates, with "ab" creates or keeps.
StorOpen(s) ==
    /\ pc[s] = "wait" /\ cmd[s] = "STOR"
    /\ link # 0 => ~Locked
    /\ pc' = [pc EXCEPT ![s] = "recv"]
    /\ link' = IF link = 0 THEN Free(link, ino) ELSE link
    /\ data' = IF rest[s] > 0 THEN data ELSE [data EXCEPT ![link'] = <<>>]
    /\ ino' = [ino EXCEPT ![s] = link']
    /\ Disturb(s)
    /\ UNCHANGED <<build, cmd, rest, ioVars, reply, total, wire, again, refused, first>>

\* fopen fails: the result is empty and not ok.
StorOpenFails(s) ==
    /\ pc[s] = "wait" /\ cmd[s] = "STOR"
    /\ Finish(s, link, "426", 0)

TooBig(s) == maxFileSize > 0 /\ U64(bytes[s] + 1) > maxFileSize

\* Mutant: the guard compares before it adds.
StorWriteUnguarded(s) ==
    /\ pc[s] = "recv" /\ Len(wire[s]) <= MaxBytes
    /\ ~(maxFileSize > 0 /\ bytes[s] > maxFileSize)
    /\ \E b \in Bytes : wire' = [wire EXCEPT ![s] = Append(@, b)]
    /\ bytes' = [bytes EXCEPT ![s] = U64(@ + 1)]
    /\ UNCHANGED <<fileVars, pc, cmd, rest, ino, pos, toSend, flushed, reply, total,
                   again, refused, first, clean, snap>>

\* A byte arrives, is given to fwrite() and counted.
StorWrite(s) ==
    /\ pc[s] = "recv" /\ Len(wire[s]) <= MaxBytes
    /\ ~TooBig(s)
    /\ \E b \in Bytes : wire' = [wire EXCEPT ![s] = Append(@, b)]
    /\ bytes' = [bytes EXCEPT ![s] = U64(@ + 1)]
    /\ UNCHANGED <<fileVars, pc, cmd, rest, ino, pos, toSend, flushed, reply, total,
                   again, refused, first, clean, snap>>

\* A byte stored at position p; a gap reads as zeros.
Put(d, p, b) ==
    [i \in 1 .. (IF p + 1 > Len(d) THEN p + 1 ELSE Len(d)) |->
        IF i = p + 1 THEN b ELSE IF i <= Len(d) THEN d[i] ELSE Hole]

Buffered(s) == pc[s] = "recv" /\ flushed[s] < Len(wire[s])

\* The stdio buffer gives its next byte to the file, in append mode at its end.
StorFlush(s) ==
    /\ Buffered(s)
    /\ LET p == IF rest[s] > 0 THEN Len(data[ino[s]]) ELSE pos[s] IN
         /\ p < MaxBytes
         /\ data' = [data EXCEPT ![ino[s]] = Put(@, p, wire[s][flushed[s] + 1])]
         /\ pos' = [pos EXCEPT ![s] = p + 1]
         /\ first' = [first EXCEPT ![s] = IF @ = -1 THEN p ELSE @]
    /\ flushed' = [flushed EXCEPT ![s] = @ + 1]
    /\ Disturb(s)
    /\ UNCHANGED <<build, link, pc, cmd, rest, ino, toSend, bytes, reply, total,
                   wire, again, refused>>

\* The disk is full: the byte is dropped, and what fwrite() or fclose() returns
\* is ignored.
StorRefused(s) ==
    /\ Buffered(s)
    /\ flushed' = [flushed EXCEPT ![s] = @ + 1]
    /\ refused' = [refused EXCEPT ![s] = @ + 1]
    /\ UNCHANGED <<fileVars, pc, cmd, rest, ino, pos, toSend, bytes, reply, total,
                   wire, again, first, clean, snap>>

\* A byte arrives and would exceed the limit: fclose() empties the buffer, the
\* path is deleted, whatever file it names by now, if it can be, and the count
\* is not recorded.
StorOverflow(s) ==
    /\ pc[s] = "recv" /\ ~Buffered(s)
    /\ TooBig(s)
    /\ Finish(s, IF Held(s) THEN link ELSE 0, "552", 0)

\* recv() returns 0 or an error, which the loop does not tell apart, and fclose()
\* has emptied the buffer.
StorEnd(s) ==
    /\ pc[s] = "recv" /\ ~Buffered(s)
    /\ Finish(s, link, "226", bytes[s])

-----------------------------------------------------------------------------
(* sendFile.                                                               *)

Code(n, offset) == IF n > 0 \/ offset = 0 THEN "226" ELSE "426"

\* CreateFileA fails beside a writer.
NoWriter == \A x \in Sessions : ino[x] = link => pc[x] # "recv"

\* Mutant: the offset is not passed to sendfile.
RetrFromStart(s) ==
    /\ pc[s] = "wait" /\ cmd[s] = "RETR"
    /\ link # 0
    /\ build = "win32" => NoWriter /\ Positive(rest[s])
    /\ pc' = [pc EXCEPT ![s] = "zerocopy"]
    /\ ino' = [ino EXCEPT ![s] = link]
    /\ pos' = [pos EXCEPT ![s] = 0]
    /\ toSend' = [toSend EXCEPT ![s] = U64(Len(data[link]) - rest[s])]
    /\ snap' = [snap EXCEPT ![s] = data[link]]
    /\ UNCHANGED <<fileVars, cmd, rest, flushed, bytes, reply, total,
                   wire, again, refused, first, clean>>

\* transmitFile opens the file and takes its size; the difference to the offset
\* wraps.  SetFilePointerEx refuses a negative position.
RetrOpen(s) ==
    /\ pc[s] = "wait" /\ cmd[s] = "RETR"
    /\ link # 0
    /\ build = "win32" => NoWriter /\ Positive(rest[s])
    /\ pc' = [pc EXCEPT ![s] = "zerocopy"]
    /\ ino' = [ino EXCEPT ![s] = link]
    /\ pos' = [pos EXCEPT ![s] = rest[s]]
    /\ toSend' = [toSend EXCEPT ![s] = U64(Len(data[link]) - rest[s])]
    /\ snap' = [snap EXCEPT ![s] = data[link]]
    /\ UNCHANGED <<fileVars, cmd, rest, flushed, bytes, reply, total,
                   wire, again, refused, first, clean>>

\* sendfile() sends at most toSend bytes and nothing from a negative position;
\* TransmitFile() all there are.
MayCopy(s) ==
    /\ pos[s] < Len(data[ino[s]])
    /\ build = "posix" => Len(wire[s]) < toSend[s] /\ Positive(rest[s])

ZeroCopy(s) ==
    /\ pc[s] = "zerocopy" /\ MayCopy(s)
    /\ wire' = [wire EXCEPT ![s] = Append(@, data[ino[s]][pos[s] + 1])]
    /\ pos' = [pos EXCEPT ![s] = @ + 1]
    /\ UNCHANGED <<fileVars, pc, cmd, rest, ino, toSend, flushed, bytes, reply, total,
                   again, refused, first, clean, snap>>

\* The call succeeds.  sendfile() says how much it sent, and may stop early;
\* TransmitFile() has sent all, and the difference computed before is counted.
ZeroCopyEnds(s) ==
    /\ pc[s] = "zerocopy"
    /\ IF build = "posix" THEN Positive(rest[s]) /\ (wire[s] # <<>> \/ ~MayCopy(s))
                          ELSE ~MayCopy(s)
    /\ LET n == IF build = "posix" THEN U64(Len(wire[s])) ELSE toSend[s]
       IN  Finish(s, link, Code(n, rest[s]), n)

\* The file cannot be opened, or the call fails: sendfile() before it has sent
\* anything, TransmitFile() at any point.  The file is closed.
ZeroCopyFails(s) ==
    /\ cmd[s] = "RETR"
    /\ \/ pc[s] = "wait"
       \/ pc[s] = "zerocopy" /\ (build = "posix" => wire[s] = <<>>)
    /\ pc' = [pc EXCEPT ![s] = "fallback"]
    /\ ino' = [ino EXCEPT ![s] = 0]
    /\ data' = Reclaim(data, link, ino')
    /\ again' = [again EXCEPT ![s] = Len(wire[s])]
    /\ clean' = [clean EXCEPT ![s] = TRUE]
    /\ pos' = [pos EXCEPT ![s] = 0]
    /\ toSend' = [toSend EXCEPT ![s] = 0]
    /\ bytes' = [bytes EXCEPT ![s] = 0]
    /\ snap' = [snap EXCEPT ![s] = <<>>]
    /\ UNCHANGED <<build, link, cmd, rest, flushed, reply, total, wire, refused, first>>

\* sendFileBuffered opens what the path names now and seeks to the offset, as
\* far as long can hold it.
RetrFallBack(s) ==
    /\ pc[s] = "fallback"
    /\ link # 0
    /\ pc' = [pc EXCEPT ![s] = "buffered"]
    /\ ino' = [ino EXCEPT ![s] = link]
    /\ pos' = [pos EXCEPT ![s] = Sought(rest[s])]
    /\ snap' = [snap EXCEPT ![s] = data[link]]
    /\ UNCHANGED <<fileVars, cmd, rest, toSend, flushed, bytes, reply, total,
                   wire, again, refused, first, clean>>

\* The file has gone since "150", or fopen() fails for another reason.
RetrGone(s) ==
    /\ pc[s] = "fallback"
    /\ Finish(s, link, Code(0, rest[s]), 0)

RetrSend(s) ==
    /\ pc[s] = "buffered"
    /\ pos[s] < Len(data[ino[s]])
    /\ wire' = [wire EXCEPT ![s] = Append(@, data[ino[s]][pos[s] + 1])]
    /\ pos' = [pos EXCEPT ![s] = @ + 1]
    /\ bytes' = [bytes EXCEPT ![s] = U64(@ + 1)]
    /\ UNCHANGED <<fileVars, pc, cmd, rest, ino, toSend, flushed, reply, total,
                   again, refused, first, clean, snap>>

\* End of the file, or send() failed.
RetrEnd(s) ==
    /\ pc[s] = "buffered"
    /\ Finish(s, link, Code(bytes[s], rest[s]), bytes[s])

-----------------------------------------------------------------------------
Next ==
    \E s \in Sessions :
        \/ handleRest(s) \/ handleDele(s) \/ OpenFails(s)
        \/ \E c \in {"RETR", "STOR"} : Begin(s, c)
        \/ StorOpen(s) \/ StorOpenFails(s) \/ StorWrite(s) \/ StorFlush(s) \/ StorRefused(s)
        \/ StorOverflow(s) \/ StorEnd(s)
        \/ RetrOpen(s) \/ ZeroCopy(s) \/ ZeroCopyEnds(s) \/ ZeroCopyFails(s)
        \/ RetrFallBack(s) \/ RetrGone(s) \/ RetrSend(s) \/ RetrEnd(s)

Spec == Init /\ [][Next]_vars

-----------------------------------------------------------------------------
TypeOK ==
    /\ build \in {"posix", "win32"}
    /\ link \in {0} \cup Inodes
    /\ \A i \in Inodes : data[i] \in Seq(Bytes \cup {Hole})
    /\ pc \in [Sessions -> {"idle", "wait", "recv", "zerocopy", "fallback", "buffered"}]
    /\ cmd \in [Sessions -> {"none", "RETR", "STOR"}]
    /\ rest \in [Sessions -> 0 .. 2 ^ Width - 1]
    /\ ino \in [Sessions -> {0} \cup Inodes]
    /\ pos \in [Sessions -> Nat]
    /\ toSend \in [Sessions -> 0 .. 2 ^ Width - 1]
    /\ flushed \in [Sessions -> Nat]
    /\ bytes \in [Sessions -> 0 .. 2 ^ Width - 1]
    /\ reply \in [Sessions -> {"none", "226", "425", "426", "550", "552"}]
    /\ total \in 0 .. 2 ^ Width - 1

\* When an upload from the start that no other session disturbed is answered
\* 226, the path names a file that holds what came over the data connection: all
\* of it if the disk took every byte, otherwise as much less as it refused,
\* which the 226 does not tell.
UploadFaithful ==
    [][\A s \in Sessions :
         cmd[s] = "STOR" /\ rest[s] = 0 /\ clean[s] /\ pc[s] = "recv" /\ reply'[s] = "226" =>
            /\ link' # 0
            /\ Len(data'[link']) = Len(wire[s]) - refused[s]
            /\ refused[s] = 0 => data'[link'] = wire[s]]_vars

\* The bytes session s has sent are the file's from position k on.
SentFrom(s, k) ==
    /\ k + Len(wire[s]) <= Len(snap[s])
    /\ wire[s] = SubSeq(snap[s], k + 1, k + Len(wire[s]))

\* When a download that sent something is answered, the statistics grow by what
\* was sent, even if the file was written, truncated or deleted meanwhile, less
\* what a failed TransmitFile() had sent.  If nothing changed the file and no
\* TransmitFile() failed half-way, the bytes sent are the file's from the offset
\* on; where long cannot hold the offset, sendFileBuffered starts elsewhere.
DownloadFaithful ==
    [][\A s \in Sessions :
         cmd[s] = "RETR" /\ pc'[s] = "idle" /\ wire[s] # <<>> =>
            /\ total' = U64(total + U64(Len(wire[s]) - again[s]))
            /\ clean[s] /\ again[s] = 0 =>
                  \/ SentFrom(s, rest[s])
                  \/ pc[s] = "buffered" /\ SentFrom(s, Sought(rest[s]))]_vars

\* One STOR never takes more than maxFileSize bytes, even when the file is
\* deleted, truncated or extended by others while it runs.
UploadBounded ==
    \A s \in Sessions :
        maxFileSize > 0 /\ cmd[s] = "STOR" => Len(wire[s]) <= maxFileSize

\* "Sets the byte offset where the next RETR or STOR begins": a STOR after
\* REST k stores its first byte at position k.
RestartPosition ==
    \A s \in Sessions :
        pc[s] = "recv" /\ rest[s] > 0 /\ first[s] # -1 => first[s] = rest[s]
=============================================================================
