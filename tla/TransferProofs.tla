--------------------------- MODULE TransferProofs ---------------------------
(***************************************************************************)
(* For any sessions, bytes, widths and limits: what an upload nobody       *)
(* interferes with has stored when it is answered, what a download has     *)
(* sent and counted, and that no upload exceeds the limit, whatever        *)
(* happens to the file meanwhile.                                          *)
(***************************************************************************)
EXTENDS Transfer, FiniteSetTheorems, SequenceTheorems, TLAPS

-----------------------------------------------------------------------------
(* The strengthening.                                                      *)

Contents == Seq(Bytes \cup {Hole})

Places == {"idle", "wait", "recv", "zerocopy", "fallback", "buffered"}

Replies == {"none", "226", "425", "426", "550", "552"}

\* The types of the variables, histories included.
TypeInv ==
    /\ TypeOK
    /\ data \in [Inodes -> Contents]
    /\ wire \in [Sessions -> Contents]
    /\ again \in [Sessions -> Nat]
    /\ refused \in [Sessions -> Nat]
    /\ first \in [Sessions -> Int]
    /\ clean \in [Sessions -> BOOLEAN]
    /\ snap \in [Sessions -> Contents]

\* A file is open exactly during the three loops, each of which serves its own
\* command; a transfer that waits has moved nothing and none has been answered.
Phase(s) ==
    /\ pc[s] \in {"recv", "zerocopy", "buffered"} => ino[s] \in Inodes
    /\ pc[s] \in {"idle", "wait", "fallback"} => ino[s] = 0
    /\ pc[s] = "recv" => cmd[s] = "STOR"
    /\ pc[s] \in {"zerocopy", "fallback", "buffered"} => cmd[s] = "RETR"
    /\ pc[s] # "idle" => reply[s] = "none"
    /\ pc[s] \in {"idle", "wait"} =>
         wire[s] = <<>> /\ bytes[s] = 0 /\ flushed[s] = 0 /\ pos[s] = 0
    /\ pc[s] # "recv" => refused[s] = 0

\* An undisturbed upload from the start is the file the path names: the bytes
\* that left the buffer less those the disk refused.
Stored(s) ==
    pc[s] = "recv" /\ rest[s] = 0 /\ clean[s] =>
        /\ link = ino[s]
        /\ flushed[s] <= Len(wire[s])
        /\ pos[s] = Len(data[ino[s]])
        /\ Len(data[ino[s]]) = flushed[s] - refused[s]
        /\ refused[s] = 0 => data[ino[s]] = SubSeq(wire[s], 1, flushed[s])

\* The counter the limit is compared with has not wrapped.
Metered(s) ==
    cmd[s] = "STOR" /\ maxFileSize > 0 =>
        /\ bytes[s] = Len(wire[s])
        /\ Len(wire[s]) <= maxFileSize

\* What a failed TransmitFile() had sent is not counted, the rest is; on win32
\* the size taken before TransmitFile() is still the size of the file.
Counted(s) ==
    /\ again[s] <= Len(wire[s])
    /\ pc[s] = "zerocopy" => again[s] = 0
    /\ pc[s] = "fallback" => again[s] = Len(wire[s]) /\ bytes[s] = 0
    /\ pc[s] = "buffered" => bytes[s] = U64(Len(wire[s]) - again[s])
    /\ pc[s] = "zerocopy" /\ build = "win32" =>
         /\ toSend[s] = U64(Len(data[ino[s]]) - rest[s])
         /\ pos[s] = rest[s] + Len(wire[s])
         /\ wire[s] # <<>> => pos[s] <= Len(data[ino[s]])

\* Where the download in progress started.
From(s) == IF pc[s] = "buffered" THEN Sought(rest[s]) ELSE rest[s]

\* An undisturbed download reads the file it opened, from where it stopped.
Reading(s) ==
    pc[s] \in {"zerocopy", "buffered"} /\ clean[s] /\ again[s] = 0 =>
        /\ data[ino[s]] = snap[s]
        /\ pos[s] = From(s) + Len(wire[s])
        /\ wire[s] # <<>> => SentFrom(s, From(s))

\* What each session can rely on.
SessionInv(s) ==
    Phase(s) /\ Stored(s) /\ Metered(s) /\ Counted(s) /\ Reading(s)

\* Nobody writes a file that TransmitFile() sends.
Apart ==
    build = "win32" =>
        \A s, x \in Sessions : pc[s] = "zerocopy" /\ pc[x] = "recv" => ino[s] # ino[x]

IInv == TypeInv /\ Apart /\ \A s \in Sessions : SessionInv(s)

-----------------------------------------------------------------------------
(* Counters.                                                               *)

\* A division leaves a remainder.
LEMMA Division ==
    ASSUME NEW m \in Nat \ {0}, NEW k \in Nat
    PROVE  k \div m \in Nat /\ k % m \in 0 .. m - 1 /\ k = m * (k \div m) + (k % m)
  OBVIOUS

\* The remainder is the only one.
LEMMA Remainder ==
    ASSUME NEW m \in Nat \ {0}, NEW q \in Nat, NEW r \in 0 .. m - 1
    PROVE  (m * q + r) % m = r
  OBVIOUS

\* Adding one to a counter that has wrapped gives what the full count wraps to.
LEMMA WrapSucc ==
    ASSUME NEW m \in Nat \ {0}, NEW k \in Nat
    PROVE  ((k % m) + 1) % m = (k + 1) % m
  <1> DEFINE q == k \div m
             r == k % m
  <1>1. q \in Nat /\ r \in 0 .. m - 1 /\ k = m * q + r
    BY Division
  <1> HIDE DEF q, r
  <1>2. CASE r + 1 < m
    <2>1. (m * q + (r + 1)) % m = r + 1
      BY <1>1, <1>2, Remainder
    <2>2. (m * 0 + (r + 1)) % m = r + 1
      BY <1>1, <1>2, Remainder
    <2>3. m * q + (r + 1) = k + 1 /\ m * 0 + (r + 1) = r + 1
      BY <1>1
    <2> QED
      BY <2>1, <2>2, <2>3 DEF r
  <1>3. CASE r + 1 = m
    <2>1. (m * (q + 1) + 0) % m = 0
      BY <1>1, <1>3, Remainder
    <2>2. (m * 1 + 0) % m = 0
      BY <1>1, <1>3, Remainder
    <2>3. m * (q + 1) + 0 = k + 1 /\ m * 1 + 0 = r + 1
      BY <1>1, <1>3
    <2> QED
      BY <2>1, <2>2, <2>3 DEF r
  <1> QED
    BY <1>1, <1>2, <1>3

\* A counter of the code is a number of its width and, below the width, exact.
LEMMA Counter ==
    /\ \A n \in Int : U64(n) \in 0 .. 2 ^ Width - 1
    /\ \A n \in 0 .. 2 ^ Width - 1 : U64(n) = n
    /\ \A k \in Nat : U64(U64(k) + 1) = U64(k + 1)
  <1> DEFINE m == 2 ^ Width
  <1>1. m \in Nat \ {0}
    BY WidthAssumption
  <1> HIDE DEF m
  <1>2. /\ \A n \in Int : n % m \in 0 .. m - 1
        /\ \A n \in 0 .. m - 1 : n % m = n
    BY <1>1
  <1>3. \A k \in Nat : ((k % m) + 1) % m = (k + 1) % m
    BY <1>1, WrapSucc
  <1> QED
    BY <1>2, <1>3 DEF m, U64

-----------------------------------------------------------------------------
(* Files.                                                                  *)

\* There are more inodes than sessions: one is left to create a file with.
LEMMA FreeInode ==
    ASSUME NEW f \in [Sessions -> {0} \cup Inodes]
    PROVE  /\ Free(0, f) \in Inodes
           /\ \A s \in Sessions : f[s] # Free(0, f)
  <1> DEFINE n == Cardinality(Sessions)
  <1>1. n \in Nat /\ IsFiniteSet(Sessions)
    BY TransferAssumption, FS_CardinalityType
  <1>2. IsFiniteSet(Inodes) /\ Cardinality(Inodes) = n + 1
    BY <1>1, FS_Interval DEF Inodes
  <1>3. \E i \in Inodes : i # 0 /\ \A s \in Sessions : f[s] # i
    <2> SUFFICES ASSUME \A i \in Inodes : \E s \in Sessions : f[s] = i
                 PROVE  FALSE
      BY <1>1 DEF Inodes
    <2> DEFINE g == [i \in Inodes |-> CHOOSE s \in Sessions : f[s] = i]
    <2>1. \A i \in Inodes : g[i] \in Sessions /\ f[g[i]] = i
      OBVIOUS
    <2>2. g \in [Inodes -> Sessions]
      BY <2>1
    <2> HIDE DEF g
    <2>3. \E i, j \in Inodes : i # j /\ g[i] = g[j]
      BY <1>1, <1>2, <2>2, FS_PigeonHole
    <2> QED
      BY <2>1, <2>3
  <1> QED
    BY <1>3 DEF Free

\* What has a name or is open is not reclaimed.
LEMMA Kept ==
    ASSUME NEW d \in [Inodes -> Contents], NEW l, NEW f
    PROVE  /\ Reclaim(d, l, f) \in [Inodes -> Contents]
           /\ \A s \in Sessions : f[s] \in Inodes => Reclaim(d, l, f)[f[s]] = d[f[s]]
  BY EmptySeq DEF Reclaim, Contents

\* A byte written at the end of a file is appended to it; a write anywhere
\* leaves a file.
LEMMA PutFacts ==
    ASSUME NEW d \in Contents, NEW p \in Nat, NEW b \in Bytes \cup {Hole}
    PROVE  /\ Put(d, p, b) \in Contents
           /\ p = Len(d) => Put(d, p, b) = Append(d, b)
  <1>1. Put(d, p, b) \in Contents
    BY DEF Put, Contents
  <1>2. ASSUME p = Len(d)
        PROVE  Put(d, p, b) = Append(d, b)
    <2> DEFINE e == Put(d, p, b)
    <2>1. e \in Contents /\ Len(e) = Len(d) + 1
      BY <1>2 DEF Put, Contents
    <2>2. Append(d, b) \in Contents /\ Len(Append(d, b)) = Len(d) + 1
      BY DEF Contents
    <2>3. \A i \in 1 .. Len(d) + 1 : e[i] = Append(d, b)[i]
      BY <1>2 DEF Put, Contents
    <2> HIDE DEF e
    <2> QED
      BY <2>1, <2>2, <2>3, SeqEqual DEF Contents, e
  <1> QED
    BY <1>1, <1>2

\* A part of a file, and the part that is one byte longer.
LEMMA PartFacts ==
    ASSUME NEW d \in Contents, NEW k \in Nat, NEW n \in Nat, k + n <= Len(d)
    PROVE  /\ SubSeq(d, k + 1, k + n) \in Contents
           /\ Len(SubSeq(d, k + 1, k + n)) = n
           /\ k + n < Len(d) =>
                Append(SubSeq(d, k + 1, k + n), d[k + n + 1]) = SubSeq(d, k + 1, k + n + 1)
  <1>1. \A i \in 1 .. Len(d) : d[i] \in Bytes \cup {Hole}
    BY DEF Contents
  <1>2. /\ SubSeq(d, k + 1, k + n) \in Contents
        /\ Len(SubSeq(d, k + 1, k + n)) = n
        /\ \A i \in 1 .. n : SubSeq(d, k + 1, k + n)[i] = d[k + i]
    BY DEF Contents
  <1>3. ASSUME k + n < Len(d)
        PROVE  Append(SubSeq(d, k + 1, k + n), d[k + n + 1]) = SubSeq(d, k + 1, k + n + 1)
    <2> DEFINE u == SubSeq(d, k + 1, k + n)
               v == Append(u, d[k + n + 1])
               w == SubSeq(d, k + 1, k + n + 1)
    <2>1. d[k + n + 1] \in Bytes \cup {Hole}
      BY <1>1, <1>3 DEF Contents
    <2>2. /\ w \in Contents
          /\ Len(w) = n + 1
          /\ \A i \in 1 .. n + 1 : w[i] = d[k + i]
      BY <1>3 DEF Contents
    <2>3. v \in Contents /\ Len(v) = n + 1 /\ \A i \in 1 .. n + 1 : v[i] = d[k + i]
      <3> HIDE DEF u
      <3> QED
        BY <1>2, <2>1 DEF u, Contents
    <2> HIDE DEF u, v, w
    <2>4. v = w
      BY <2>2, <2>3, SeqEqual DEF Contents
    <2> QED
      BY <2>4 DEF u, v, w
  <1> QED
    BY <1>2, <1>3

\* A longer sequence has the same prefix.
LEMMA AppendPrefix ==
    ASSUME NEW d \in Contents, NEW n \in Nat, n <= Len(d), NEW b \in Bytes \cup {Hole}
    PROVE  SubSeq(Append(d, b), 1, n) = SubSeq(d, 1, n)
  <1> DEFINE u == SubSeq(Append(d, b), 1, n)
             v == SubSeq(d, 1, n)
  <1>1. u \in Contents /\ Len(u) = n /\ \A i \in 1 .. n : u[i] = d[i]
    BY DEF Contents
  <1>2. v \in Contents /\ Len(v) = n /\ \A i \in 1 .. n : v[i] = d[i]
    BY DEF Contents
  <1> HIDE DEF u, v
  <1>3. u = v
    BY <1>1, <1>2, SeqEqual DEF Contents
  <1> QED
    BY <1>3 DEF u, v

\* A prefix and the byte after it.
LEMMA PrefixGrows ==
    ASSUME NEW d \in Contents, NEW n \in Nat, n < Len(d)
    PROVE  Append(SubSeq(d, 1, n), d[n + 1]) = SubSeq(d, 1, n + 1)
  <1>1. Append(SubSeq(d, 0 + 1, 0 + n), d[0 + n + 1]) = SubSeq(d, 0 + 1, 0 + n + 1)
    BY PartFacts DEF Contents
  <1>2. 0 + 1 = 1 /\ 0 + n = n /\ 0 + n + 1 = n + 1
    OBVIOUS
  <1> QED
    BY <1>1, <1>2

\* All of a sequence is the sequence.
LEMMA WholeSeq ==
    ASSUME NEW d \in Contents
    PROVE  SubSeq(d, 1, Len(d)) = d
  <1> DEFINE v == SubSeq(d, 1, Len(d))
  <1>1. v \in Contents /\ Len(v) = Len(d) /\ \A i \in 1 .. Len(d) : v[i] = d[i]
    BY DEF Contents
  <1> HIDE DEF v
  <1>2. v = d
    BY <1>1, SeqEqual DEF Contents
  <1> QED
    BY <1>2 DEF v

\* fseek() leaves the position at a natural number.
LEMMA SoughtNat ==
    ASSUME IInv, NEW k \in Nat
    PROVE  Sought(k) \in Nat
  <1> DEFINE m == IF build = "win32" THEN 2 ^ LongWidth ELSE 2 ^ Width
  <1>1. m \in Nat \ {0}
    BY WidthAssumption
  <1> HIDE DEF m
  <1>2. k % m \in Nat
    BY <1>1
  <1>3. Sought(k) = IF 2 * (k % m) < m THEN k % m ELSE 0
    BY DEF Sought, m
  <1> QED
    BY <1>2, <1>3

-----------------------------------------------------------------------------
(* Steps.                                                                  *)

\* A step of another session may change the file under a transfer, but then
\* the transfer is no longer undisturbed; it never changes what TransmitFile()
\* sends.
Unmoved(x) ==
    /\ pc'[x] = pc[x] /\ cmd'[x] = cmd[x] /\ rest'[x] = rest[x]
    /\ ino'[x] = ino[x] /\ pos'[x] = pos[x] /\ bytes'[x] = bytes[x]
    /\ toSend'[x] = toSend[x] /\ flushed'[x] = flushed[x] /\ reply'[x] = reply[x]
    /\ wire'[x] = wire[x] /\ again'[x] = again[x] /\ refused'[x] = refused[x]
    /\ clean'[x] => clean[x] /\ snap'[x] = snap[x]
    /\ ino[x] \in Inodes /\ clean'[x] => link' = link /\ data'[ino[x]] = data[ino[x]]
    /\ build = "win32" /\ pc[x] = "zerocopy" => data'[ino[x]] = data[ino[x]]

\* What a session relies on survives the steps of the others.
LEMMA OthersKeep ==
    ASSUME IInv, NEW x \in Sessions, Unmoved(x), build' = build
    PROVE  SessionInv(x)'
  <1>0. Phase(x)
    BY DEF IInv, SessionInv
  <1>1. Phase(x)'
    BY <1>0 DEF Phase, Unmoved
  <1>2. Stored(x)'
    <2> SUFFICES ASSUME pc[x] = "recv", rest[x] = 0, clean'[x]
                 PROVE  (/\ link = ino[x]
                         /\ flushed[x] <= Len(wire[x])
                         /\ pos[x] = Len(data[ino[x]])
                         /\ Len(data[ino[x]]) = flushed[x] - refused[x]
                         /\ refused[x] = 0 => data[ino[x]] = SubSeq(wire[x], 1, flushed[x]))'
      BY DEF Stored, Unmoved
    <2>1. /\ link = ino[x]
          /\ flushed[x] <= Len(wire[x])
          /\ pos[x] = Len(data[ino[x]])
          /\ Len(data[ino[x]]) = flushed[x] - refused[x]
          /\ refused[x] = 0 => data[ino[x]] = SubSeq(wire[x], 1, flushed[x])
      BY DEF IInv, SessionInv, Stored, Unmoved
    <2>2. ino[x] \in Inodes
      BY <1>0 DEF Phase
    <2>3. /\ link' = link /\ data'[ino[x]] = data[ino[x]] /\ ino'[x] = ino[x]
          /\ wire'[x] = wire[x] /\ pos'[x] = pos[x] /\ flushed'[x] = flushed[x]
          /\ refused'[x] = refused[x]
      BY <2>2 DEF Unmoved
    <2> QED
      BY <2>1, <2>3
  <1>3. Metered(x)'
    BY DEF IInv, SessionInv, Metered, Unmoved
  <1>4. Counted(x)'
    <2>1. Counted(x)
      BY DEF IInv, SessionInv
    <2>2. \A k : U64(k)' = U64(k)
      BY DEF U64
    <2> QED
      BY <2>1, <2>2 DEF Counted, Unmoved
  <1>5. Reading(x)'
    <2>1. Reading(x)
      BY DEF IInv, SessionInv
    <2>2. From(x)' = From(x)
      BY DEF From, Sought, Unmoved
    <2>3. SUFFICES ASSUME pc[x] \in {"zerocopy", "buffered"}, clean'[x], again[x] = 0
                   PROVE  (/\ data[ino[x]] = snap[x]
                           /\ pos[x] = From(x) + Len(wire[x])
                           /\ wire[x] # <<>> => SentFrom(x, From(x)))'
      BY DEF Reading, Unmoved
    <2>4. /\ data[ino[x]] = snap[x]
          /\ pos[x] = From(x) + Len(wire[x])
          /\ wire[x] # <<>> => SentFrom(x, From(x))
      BY <2>1, <2>3 DEF Reading, Unmoved
    <2>5. ino[x] \in Inodes
      BY <1>0, <2>3 DEF Phase
    <2>6. /\ data'[ino[x]] = data[ino[x]] /\ snap'[x] = snap[x] /\ ino'[x] = ino[x]
          /\ wire'[x] = wire[x] /\ pos'[x] = pos[x]
      BY <2>3, <2>5 DEF Unmoved
    <2> QED
      BY <2>2, <2>4, <2>6 DEF SentFrom
  <1> QED
    BY <1>1, <1>2, <1>3, <1>4, <1>5 DEF SessionInv

\* The types, spelled out.
LEMMA Types ==
    ASSUME IInv
    PROVE  /\ build \in {"posix", "win32"}
           /\ link \in {0} \cup Inodes
           /\ data \in [Inodes -> Contents]
           /\ pc \in [Sessions -> Places]
           /\ cmd \in [Sessions -> {"none", "RETR", "STOR"}]
           /\ rest \in [Sessions -> 0 .. 2 ^ Width - 1]
           /\ ino \in [Sessions -> {0} \cup Inodes]
           /\ pos \in [Sessions -> Nat]
           /\ toSend \in [Sessions -> 0 .. 2 ^ Width - 1]
           /\ flushed \in [Sessions -> Nat]
           /\ bytes \in [Sessions -> 0 .. 2 ^ Width - 1]
           /\ reply \in [Sessions -> Replies]
           /\ total \in 0 .. 2 ^ Width - 1
           /\ wire \in [Sessions -> Contents]
           /\ again \in [Sessions -> Nat]
           /\ refused \in [Sessions -> Nat]
           /\ first \in [Sessions -> Int]
           /\ clean \in [Sessions -> BOOLEAN]
           /\ snap \in [Sessions -> Contents]
           /\ 2 ^ Width \in Nat /\ 0 \in 0 .. 2 ^ Width - 1
           /\ <<>> \in Contents
           /\ 0 \notin Inodes
  <1>2. 2 ^ Width \in Nat /\ 0 \in 0 .. 2 ^ Width - 1
    BY WidthAssumption
  <1>3. <<>> \in Contents
    BY EmptySeq DEF Contents
  <1>4. 0 \notin Inodes
    BY DEF Inodes
  <1> QED
    BY <1>2, <1>3, <1>4 DEF IInv, TypeInv, TypeOK, Places, Replies

\* Disturb leaves the session itself and those without an open file alone.
LEMMA Disturbed ==
    ASSUME IInv, NEW s \in Sessions, Disturb(s)
    PROVE  /\ clean' \in [Sessions -> BOOLEAN] /\ snap' \in [Sessions -> Contents]
           /\ clean'[s] = clean[s]
           /\ clean[s] => snap'[s] = snap[s]
           /\ \A x \in Sessions \ {s} :
                /\ clean'[x] => clean[x] /\ snap'[x] = snap[x]
                /\ ino[x] \in Inodes => ~clean'[x]
  <1>1. clean \in [Sessions -> BOOLEAN] /\ snap \in [Sessions -> Contents]
        /\ <<>> \in Contents /\ 0 \notin Inodes
    BY Types
  <1>2. \A x \in Sessions : clean'[x] = ((x = s \/ ino[x] = 0) /\ clean[x])
    BY DEF Disturb
  <1>3. clean' \in [Sessions -> BOOLEAN]
    BY <1>1, Zenon DEF Disturb
  <1>4. \A x \in Sessions : snap'[x] = IF clean'[x] THEN snap[x] ELSE <<>>
    BY DEF Disturb
  <1>5. snap' \in [Sessions -> Contents]
    BY <1>1 DEF Disturb
  <1>6. clean'[s] = clean[s]
    BY <1>1, <1>2
  <1> QED
    BY <1>1, <1>2, <1>3, <1>4, <1>5, <1>6

\* The types after a step, spelled out, and what win32 keeps apart.
TypesNext ==
    /\ build' = build
    /\ link' \in {0} \cup Inodes
    /\ data' \in [Inodes -> Contents]
    /\ pc' \in [Sessions -> Places]
    /\ cmd' \in [Sessions -> {"none", "RETR", "STOR"}]
    /\ rest' \in [Sessions -> 0 .. 2 ^ Width - 1]
    /\ ino' \in [Sessions -> {0} \cup Inodes]
    /\ pos' \in [Sessions -> Nat]
    /\ toSend' \in [Sessions -> 0 .. 2 ^ Width - 1]
    /\ flushed' \in [Sessions -> Nat]
    /\ bytes' \in [Sessions -> 0 .. 2 ^ Width - 1]
    /\ reply' \in [Sessions -> Replies]
    /\ total' \in 0 .. 2 ^ Width - 1
    /\ wire' \in [Sessions -> Contents]
    /\ again' \in [Sessions -> Nat]
    /\ refused' \in [Sessions -> Nat]
    /\ first' \in [Sessions -> Int]
    /\ clean' \in [Sessions -> BOOLEAN]
    /\ snap' \in [Sessions -> Contents]

\* Session s neither starts to write nor to send zero-copy, or nobody else has
\* its file open in the other way.
NoClash(s) ==
    build = "win32" =>
        /\ pc'[s] = "recv" =>
             \A x \in Sessions \ {s} : pc[x] = "zerocopy" => ino[x] # ino'[s]
        /\ pc'[s] = "zerocopy" =>
             \A x \in Sessions \ {s} : pc[x] = "recv" => ino[x] # ino'[s]

\* What has to be shown of a step of session s.
Good(s) ==
    /\ TypesNext
    /\ NoClash(s)
    /\ \A x \in Sessions \ {s} : Unmoved(x)
    /\ SessionInv(s)'

\* A good step of one session keeps the whole invariant.
LEMMA GoodSuffices ==
    ASSUME IInv, NEW s \in Sessions, Good(s)
    PROVE  IInv'
  <1>1. TypeInv'
    BY Types DEF Good, TypesNext, TypeInv, TypeOK, Contents, Places, Replies
  <1>2. \A x \in Sessions : SessionInv(x)'
    BY OthersKeep DEF Good, TypesNext
  <1>3. Apart'
    <2> SUFFICES ASSUME build = "win32", NEW y \in Sessions, NEW x \in Sessions,
                        pc'[y] = "zerocopy", pc'[x] = "recv"
                 PROVE  ino'[y] # ino'[x]
      BY DEF Apart, Good, TypesNext
    <2>1. y # x
      OBVIOUS
    <2>2. CASE y = s
      BY <2>1, <2>2 DEF Good, NoClash, Unmoved
    <2>3. CASE x = s
      BY <2>1, <2>3 DEF Good, NoClash, Unmoved
    <2>4. CASE x # s /\ y # s
      BY <2>4 DEF Good, Unmoved, IInv, Apart
    <2> QED
      BY <2>2, <2>3, <2>4
  <1> QED
    BY <1>1, <1>2, <1>3 DEF IInv

\* Finish ends a transfer in a good state, whatever it leaves the path naming.
LEMMA Finished ==
    ASSUME IInv, NEW s \in Sessions,
           NEW l \in {0} \cup Inodes, NEW n \in Int, NEW code \in Replies,
           Finish(s, l, code, n)
    PROVE  /\ Good(s)
           /\ pc'[s] = "idle" /\ reply'[s] = code /\ total' = U64(total + n) /\ link' = l
           /\ l \in Inodes => data'[l] = data[l]
  <1>1. total' = U64(total + n) /\ total' \in 0 .. 2 ^ Width - 1
    <2>1. total + n \in Int
      BY Types
    <2> QED
      BY <2>1, Counter DEF Finish
  <1>2. data' = Reclaim(data, l, ino') /\ data' \in [Inodes -> Contents]
    BY Kept, Types DEF Finish
  <1>3. \A i \in Inodes : i = l \/ (\E x \in Sessions : ino'[x] = i) => data'[i] = data[i]
    BY <1>2 DEF Reclaim
  <1>4. ino' = [ino EXCEPT ![s] = 0] /\ link' = l /\ build' = build
        /\ pc' = [pc EXCEPT ![s] = "idle"] /\ rest' = [rest EXCEPT ![s] = 0]
        /\ reply' = [reply EXCEPT ![s] = code] /\ Forget(s)
    BY DEF Finish
  <1>5. clean' \in [Sessions -> BOOLEAN]
    BY Types, Zenon DEF Finish
  <1>6. \A x \in Sessions \ {s} :
           /\ clean'[x] => clean[x]
           /\ ino[x] \in Inodes /\ clean'[x] => l = link
    BY Types DEF Finish
  <1>7. snap' \in [Sessions -> Contents]
        /\ \A x \in Sessions \ {s} : clean'[x] => snap'[x] = snap[x]
    BY Types DEF Finish
  <1>8. \A x \in Sessions \ {s} : ino[x] \in Inodes => data'[ino[x]] = data[ino[x]]
    BY <1>3, <1>4, Types
  <1>9. TypesNext
    <2>1. /\ cmd' \in [Sessions -> {"none", "RETR", "STOR"}]
          /\ pos' \in [Sessions -> Nat] /\ toSend' \in [Sessions -> 0 .. 2 ^ Width - 1]
          /\ flushed' \in [Sessions -> Nat] /\ bytes' \in [Sessions -> 0 .. 2 ^ Width - 1]
          /\ wire' \in [Sessions -> Contents] /\ again' \in [Sessions -> Nat]
          /\ refused' \in [Sessions -> Nat] /\ first' \in [Sessions -> Int]
      BY <1>4, Types DEF Forget
    <2>2. /\ link' \in {0} \cup Inodes /\ pc' \in [Sessions -> Places]
          /\ rest' \in [Sessions -> 0 .. 2 ^ Width - 1]
          /\ ino' \in [Sessions -> {0} \cup Inodes] /\ reply' \in [Sessions -> Replies]
      BY <1>4, Types DEF Places
    <2> QED
      BY <1>1, <1>2, <1>4, <1>5, <1>7, <2>1, <2>2 DEF TypesNext
  <1>10. pc'[s] = "idle" /\ ino'[s] = 0 /\ reply'[s] = code /\ cmd'[s] = "none"
         /\ wire'[s] = <<>> /\ bytes'[s] = 0 /\ flushed'[s] = 0 /\ pos'[s] = 0
         /\ again'[s] = 0 /\ refused'[s] = 0
    BY <1>4, Types DEF Forget
  <1>11. \A x \in Sessions \ {s} : Unmoved(x)
    <2> SUFFICES ASSUME NEW x \in Sessions \ {s}
                 PROVE  Unmoved(x)
      OBVIOUS
    <2>1. /\ pc'[x] = pc[x] /\ rest'[x] = rest[x] /\ ino'[x] = ino[x] /\ reply'[x] = reply[x]
      BY <1>4, Types
    <2>2. /\ cmd'[x] = cmd[x] /\ pos'[x] = pos[x] /\ bytes'[x] = bytes[x]
          /\ toSend'[x] = toSend[x] /\ flushed'[x] = flushed[x] /\ wire'[x] = wire[x]
          /\ again'[x] = again[x] /\ refused'[x] = refused[x]
      BY <1>4, Types DEF Forget
    <2>3. pc[x] = "zerocopy" => ino[x] \in Inodes
      BY DEF IInv, SessionInv, Phase
    <2> QED
      BY <1>4, <1>6, <1>7, <1>8, <2>1, <2>2, <2>3 DEF Unmoved
  <1>12. SessionInv(s)'
    <2>1. Len(wire'[s]) = 0
      BY <1>10
    <2> QED
      BY <1>10, <2>1 DEF SessionInv, Phase, Stored, Metered, Counted, Reading
  <1>13. NoClash(s)
    BY <1>10 DEF NoClash
  <1> QED
    BY <1>1, <1>3, <1>4, <1>9, <1>10, <1>11, <1>12, <1>13 DEF Good

\* A session between commands, or about to start a transfer.
LEMMA CommandStep ==
    ASSUME IInv, NEW s \in Sessions,
           \/ handleRest(s) \/ handleDele(s) \/ OpenFails(s)
           \/ \E c \in {"RETR", "STOR"} : Begin(s, c)
    PROVE  Good(s)
  <1>0. SessionInv(s)
    BY DEF IInv
  <1>i. \A x \in Sessions : pc[x] = "zerocopy" => ino[x] \in Inodes
    BY DEF IInv, SessionInv, Phase
  <1>1. CASE handleRest(s)
    <2>1. PICK k \in RestArgs : rest' = [rest EXCEPT ![s] = U64(k)]
      BY <1>1 DEF handleRest
    <2>2. U64(k) \in 0 .. 2 ^ Width - 1
      <3>1. k \in Int
        BY TransferAssumption
      <3> QED
        BY <3>1, Counter
    <2>3. pc[s] = "idle"
          /\ UNCHANGED <<build, link, data, pc, cmd, ino, pos, toSend, flushed, bytes, reply,
                         total, wire, again, refused, first, clean, snap>>
      BY <1>1 DEF handleRest, fileVars, ioVars, histVars
    <2>4. TypesNext
      BY <2>1, <2>2, <2>3, Types DEF TypesNext
    <2>5. \A x \in Sessions \ {s} : Unmoved(x)
      BY <2>1, <2>3, Types DEF Unmoved
    <2>6. SessionInv(s)'
      BY <1>0, <2>3 DEF SessionInv, Phase, Stored, Metered, Counted, Reading
    <2>7. NoClash(s)
      BY <2>3 DEF NoClash
    <2> QED
      BY <2>4, <2>5, <2>6, <2>7 DEF Good
  <1>2. CASE handleDele(s)
    <2>1. pc[s] = "idle" /\ link' = 0 /\ data' = Reclaim(data, 0, ino) /\ Disturb(s)
          /\ UNCHANGED <<build, pc, cmd, rest, ino, pos, toSend, flushed, bytes, reply, total,
                         wire, again, refused, first>>
      BY <1>2 DEF handleDele, ioVars
    <2>2. data' \in [Inodes -> Contents]
          /\ \A x \in Sessions : ino[x] \in Inodes => data'[ino[x]] = data[ino[x]]
      <3>1. data \in [Inodes -> Contents]
        BY Types
      <3>2. /\ Reclaim(data, 0, ino) \in [Inodes -> Contents]
            /\ \A x \in Sessions :
                 ino[x] \in Inodes => Reclaim(data, 0, ino)[ino[x]] = data[ino[x]]
        BY <3>1, Kept
      <3> QED
        BY <2>1, <3>2, Zenon
    <2>3. TypesNext
      BY <2>1, <2>2, Types, Disturbed DEF TypesNext
    <2>4. \A x \in Sessions \ {s} : Unmoved(x)
      BY <1>i, <2>1, <2>2, Types, Disturbed DEF Unmoved
    <2>5. SessionInv(s)'
      BY <1>0, <2>1 DEF SessionInv, Phase, Stored, Metered, Counted, Reading
    <2>6. NoClash(s)
      BY <2>1 DEF NoClash
    <2> QED
      BY <2>3, <2>4, <2>5, <2>6 DEF Good
  <1>3. CASE OpenFails(s)
    <2>1. pc[s] = "wait" /\ pc' = [pc EXCEPT ![s] = "idle"]
          /\ cmd' = [cmd EXCEPT ![s] = "none"] /\ reply' = [reply EXCEPT ![s] = "425"]
          /\ UNCHANGED <<build, link, data, rest, ino, pos, toSend, flushed, bytes, total,
                         wire, again, refused, first, clean, snap>>
      BY <1>3 DEF OpenFails, fileVars, ioVars, histVars
    <2>2. TypesNext
      BY <2>1, Types DEF TypesNext, Places, Replies
    <2>3. \A x \in Sessions \ {s} : Unmoved(x)
      BY <2>1, Types DEF Unmoved
    <2>4. pc'[s] = "idle" /\ cmd'[s] = "none"
      BY <2>1, Types
    <2>5. SessionInv(s)'
      BY <1>0, <2>1, <2>4 DEF SessionInv, Phase, Stored, Metered, Counted, Reading
    <2>6. NoClash(s)
      BY <2>4 DEF NoClash
    <2> QED
      BY <2>2, <2>3, <2>5, <2>6 DEF Good
  <1>4. ASSUME NEW c \in {"RETR", "STOR"}, Begin(s, c)
        PROVE  Good(s)
    <2>0. pc[s] = "idle"
          /\ UNCHANGED <<build, link, data, rest, ino, pos, toSend, flushed, bytes, total,
                         wire, again, refused, first, clean, snap>>
      BY <1>4 DEF Begin, fileVars, ioVars, histVars
    <2>1. CASE reply' = [reply EXCEPT ![s] = "550"] /\ UNCHANGED <<pc, cmd>>
      <3>2. TypesNext
        BY <2>0, <2>1, Types DEF TypesNext, Replies
      <3>3. \A x \in Sessions \ {s} : Unmoved(x)
        BY <2>0, <2>1, Types DEF Unmoved
      <3>4. SessionInv(s)'
        BY <1>0, <2>0, <2>1 DEF SessionInv, Phase, Stored, Metered, Counted, Reading
      <3>5. NoClash(s)
        BY <2>0, <2>1 DEF NoClash
      <3> QED
        BY <3>2, <3>3, <3>4, <3>5 DEF Good
    <2>2. CASE /\ pc' = [pc EXCEPT ![s] = "wait"]
               /\ cmd' = [cmd EXCEPT ![s] = c]
               /\ reply' = [reply EXCEPT ![s] = "none"]
      <3>2. TypesNext
        BY <2>0, <2>2, Types DEF TypesNext, Places, Replies
      <3>3. \A x \in Sessions \ {s} : Unmoved(x)
        BY <2>0, <2>2, Types DEF Unmoved
      <3>4. wire[s] = <<>> /\ Len(wire[s]) = 0 /\ pc'[s] = "wait" /\ bytes[s] = 0
            /\ reply'[s] = "none"
        BY <1>0, <2>0, <2>2, Types DEF SessionInv, Phase
      <3>5. maxFileSize \in Nat
        BY TransferAssumption
      <3>6. SessionInv(s)'
        BY <1>0, <2>0, <3>4, <3>5 DEF SessionInv, Phase, Stored, Metered, Counted, Reading
      <3>7. NoClash(s)
        BY <3>4 DEF NoClash
      <3> QED
        BY <3>2, <3>3, <3>6, <3>7 DEF Good
    <2> QED
      BY <1>4, <2>1, <2>2 DEF Begin
  <1> QED
    BY <1>1, <1>2, <1>3, <1>4

\* An upload: opening, a byte, what becomes of it, and the ways it ends.
LEMMA UploadStep ==
    ASSUME IInv, NEW s \in Sessions,
           \/ StorOpen(s) \/ StorOpenFails(s) \/ StorWrite(s) \/ StorFlush(s) \/ StorRefused(s)
           \/ StorOverflow(s) \/ StorEnd(s)
    PROVE  Good(s)
  <1>0. /\ SessionInv(s)
        /\ \A x \in Sessions : pc[x] \in {"recv", "zerocopy"} => ino[x] \in Inodes
    BY DEF IInv, SessionInv, Phase
  <1>1. CASE StorOpen(s)
    <2>1. /\ pc[s] = "wait" /\ cmd[s] = "STOR" /\ (link # 0 => ~Locked)
          /\ pc' = [pc EXCEPT ![s] = "recv"]
          /\ link' = IF link = 0 THEN Free(0, ino) ELSE link
          /\ data' = IF rest[s] > 0 THEN data ELSE [data EXCEPT ![link'] = <<>>]
          /\ ino' = [ino EXCEPT ![s] = link'] /\ Disturb(s)
          /\ UNCHANGED <<build, cmd, rest, pos, toSend, flushed, bytes, reply, total,
                         wire, again, refused, first>>
      BY <1>1 DEF StorOpen, ioVars
    <2>2. /\ Free(0, ino) \in Inodes
          /\ \A x \in Sessions : ino[x] # Free(0, ino)
      BY FreeInode, Types
    <2>3. link' \in Inodes
      BY <2>1, <2>2, Types
    <2>4. \A x \in Sessions : build = "win32" /\ pc[x] = "zerocopy" => ino[x] # link'
      BY <2>1, <2>2 DEF Locked
    <2>5. /\ data' \in [Inodes -> Contents]
          /\ rest[s] = 0 => data'[link'] = <<>>
          /\ \A i \in Inodes : i # link' => data'[i] = data[i]
      BY <2>1, <2>3, Types
    <2>6. TypesNext
      BY <2>1, <2>3, <2>5, Types, Disturbed DEF TypesNext, Places
    <2>7. \A x \in Sessions \ {s} : Unmoved(x)
      <3> SUFFICES ASSUME NEW x \in Sessions \ {s}
                   PROVE  Unmoved(x)
        OBVIOUS
      <3>1. pc'[x] = pc[x] /\ ino'[x] = ino[x]
        BY <2>1, Types
      <3>2. /\ clean'[x] => clean[x] /\ snap'[x] = snap[x]
            /\ ino[x] \in Inodes => ~clean'[x]
        BY <2>1, Disturbed
      <3>3. build = "win32" /\ pc[x] = "zerocopy" => data'[ino[x]] = data[ino[x]]
        BY <1>0, <2>4, <2>5
      <3> QED
        BY <2>1, <3>1, <3>2, <3>3 DEF Unmoved
    <2>8. /\ pc'[s] = "recv" /\ cmd'[s] = "STOR" /\ ino'[s] = link' /\ pos'[s] = 0
          /\ wire'[s] = <<>> /\ Len(wire'[s]) = 0 /\ bytes'[s] = 0 /\ rest'[s] = rest[s]
          /\ flushed'[s] = 0 /\ refused'[s] = 0 /\ reply'[s] = "none"
      BY <1>0, <2>1, Types DEF SessionInv, Phase
    <2>9. maxFileSize \in Nat
      BY TransferAssumption
    <2>10. Stored(s)'
      <3> SUFFICES ASSUME rest[s] = 0
                   PROVE  (/\ link = ino[s]
                           /\ flushed[s] <= Len(wire[s])
                           /\ pos[s] = Len(data[ino[s]])
                           /\ Len(data[ino[s]]) = flushed[s] - refused[s]
                           /\ data[ino[s]] = SubSeq(wire[s], 1, flushed[s]))'
        BY <2>8 DEF Stored
      <3>1. data'[ino'[s]] = <<>> /\ Len(data'[ino'[s]]) = 0
        BY <2>5, <2>8
      <3>2. SubSeq(wire'[s], 1, flushed'[s]) = <<>>
        BY <2>8, SubSeqEmpty
      <3> QED
        BY <2>8, <3>1, <3>2
    <2>11. SessionInv(s)'
      BY <1>0, <2>1, <2>3, <2>8, <2>9, <2>10
         DEF SessionInv, Phase, Metered, Counted, Reading
    <2>12. NoClash(s)
      BY <2>4, <2>8 DEF NoClash
    <2> QED
      BY <2>6, <2>7, <2>11, <2>12 DEF Good
  <1>2. CASE StorOpenFails(s)
    <2>1. Finish(s, link, "426", 0)
      BY <1>2 DEF StorOpenFails
    <2>2. link \in {0} \cup Inodes
      BY Types
    <2> QED
      BY <2>1, <2>2, Finished DEF Replies
  <1>3. CASE StorOverflow(s)
    <2> DEFINE l == IF Held(s) THEN link ELSE 0
    <2>1. Finish(s, l, "552", 0)
      BY <1>3 DEF StorOverflow
    <2>2. l \in {0} \cup Inodes
      BY Types
    <2> HIDE DEF l
    <2> QED
      BY <2>1, <2>2, Finished DEF Replies
  <1>4. CASE StorEnd(s)
    <2>1. Finish(s, link, "226", bytes[s])
      BY <1>4 DEF StorEnd
    <2>2. link \in {0} \cup Inodes /\ bytes[s] \in Int
      BY Types
    <2> QED
      BY <2>1, <2>2, Finished DEF Replies
  <1>5. CASE StorWrite(s)
    <2>1. PICK b \in Bytes : wire' = [wire EXCEPT ![s] = Append(wire[s], b)]
      BY <1>5 DEF StorWrite
    <2>2. /\ pc[s] = "recv" /\ ~TooBig(s)
          /\ bytes' = [bytes EXCEPT ![s] = U64(bytes[s] + 1)]
          /\ UNCHANGED <<build, link, data, pc, cmd, rest, ino, pos, toSend, flushed, reply,
                         total, again, refused, first, clean, snap>>
      BY <1>5 DEF StorWrite, fileVars
    <2>3. wire[s] \in Contents /\ Append(wire[s], b) \in Contents
          /\ Len(Append(wire[s], b)) = Len(wire[s]) + 1 /\ Len(wire[s]) \in Nat
      BY Types DEF Contents
    <2>4. bytes[s] + 1 \in Nat /\ U64(bytes[s] + 1) \in 0 .. 2 ^ Width - 1
      <3>1. bytes[s] \in 0 .. 2 ^ Width - 1
        BY Types
      <3> QED
        BY <3>1, Counter, WidthAssumption
    <2>5. TypesNext
      <3>1. wire' \in [Sessions -> Contents] /\ bytes' \in [Sessions -> 0 .. 2 ^ Width - 1]
        BY <2>1, <2>2, <2>3, <2>4, Types
      <3> QED
        BY <2>2, <3>1, Types DEF TypesNext
    <2>6. \A x \in Sessions \ {s} : Unmoved(x)
      BY <2>1, <2>2, Types DEF Unmoved
    <2>7. wire'[s] = Append(wire[s], b) /\ bytes'[s] = U64(bytes[s] + 1)
      BY <2>1, <2>2, Types
    <2>8. cmd[s] = "STOR" /\ flushed[s] \in Nat /\ refused[s] \in Nat /\ again[s] \in Nat
      BY <1>0, <2>2, Types DEF SessionInv, Phase
    <2>9. Stored(s)'
      <3> SUFFICES ASSUME rest[s] = 0, clean[s]
                   PROVE  (/\ link = ino[s]
                           /\ flushed[s] <= Len(wire[s])
                           /\ pos[s] = Len(data[ino[s]])
                           /\ Len(data[ino[s]]) = flushed[s] - refused[s]
                           /\ refused[s] = 0 => data[ino[s]] = SubSeq(wire[s], 1, flushed[s]))'
        BY <2>2 DEF Stored
      <3>1. /\ link = ino[s]
            /\ flushed[s] <= Len(wire[s])
            /\ pos[s] = Len(data[ino[s]])
            /\ Len(data[ino[s]]) = flushed[s] - refused[s]
            /\ refused[s] = 0 => data[ino[s]] = SubSeq(wire[s], 1, flushed[s])
        BY <1>0, <2>2 DEF SessionInv, Stored
      <3>2. SubSeq(Append(wire[s], b), 1, flushed[s]) = SubSeq(wire[s], 1, flushed[s])
        BY <2>3, <2>8, <3>1, AppendPrefix
      <3>3. flushed[s] <= Len(wire'[s])
        BY <2>3, <2>7, <2>8, <3>1
      <3> QED
        BY <2>2, <2>7, <3>1, <3>2, <3>3
    <2>10. Metered(s)'
      <3> SUFFICES ASSUME maxFileSize > 0
                   PROVE  bytes'[s] = Len(wire'[s]) /\ Len(wire'[s]) <= maxFileSize
        BY DEF Metered
      <3>1. bytes[s] = Len(wire[s]) /\ Len(wire[s]) <= maxFileSize
        BY <1>0, <2>8 DEF SessionInv, Metered
      <3>2. maxFileSize \in Nat
        BY TransferAssumption
      <3>3. bytes[s] + 1 \in 0 .. 2 ^ Width - 1
        BY <2>3, <3>1, <3>2, WidthAssumption
      <3>4. U64(bytes[s] + 1) = bytes[s] + 1
        BY <3>3, Counter
      <3>5. bytes[s] + 1 <= maxFileSize
        BY <2>2, <2>3, <3>1, <3>2, <3>4 DEF TooBig
      <3> QED
        BY <2>3, <2>7, <3>1, <3>4, <3>5
    <2>11. Counted(s)'
      BY <1>0, <2>2, <2>3, <2>7, <2>8 DEF SessionInv, Counted
    <2>12. SessionInv(s)'
      BY <1>0, <2>2, <2>9, <2>10, <2>11 DEF SessionInv, Phase, Reading
    <2>13. NoClash(s)
      BY <2>2 DEF NoClash, IInv, Apart
    <2> QED
      BY <2>5, <2>6, <2>12, <2>13 DEF Good
  <1>6. CASE StorFlush(s)
    <2> DEFINE i == ino[s]
               p == IF rest[s] > 0 THEN Len(data[i]) ELSE pos[s]
               b == wire[s][flushed[s] + 1]
    <2>1. pc[s] = "recv" /\ cmd[s] = "STOR" /\ i \in Inodes /\ data[i] \in Contents
          /\ flushed[s] < Len(wire[s])
      BY <1>0, <1>6, Types DEF StorFlush, Buffered, SessionInv, Phase
    <2>2. p \in Nat /\ flushed[s] \in Nat /\ refused[s] \in Nat
      BY <2>1, Types DEF Contents
    <2>3. wire[s] \in Contents /\ b \in Bytes \cup {Hole} /\ Len(wire[s]) \in Nat
      <3>1. wire[s] \in Contents
        BY Types
      <3> QED
        BY <2>1, <2>2, <3>1 DEF Contents
    <2>4. /\ data' = [data EXCEPT ![i] = Put(data[i], p, b)]
          /\ pos' = [pos EXCEPT ![s] = p + 1]
          /\ first' = [first EXCEPT ![s] = IF first[s] = -1 THEN p ELSE first[s]]
          /\ flushed' = [flushed EXCEPT ![s] = flushed[s] + 1]
          /\ Disturb(s)
          /\ UNCHANGED <<build, link, pc, cmd, rest, ino, toSend, bytes, reply, total,
                         wire, again, refused>>
      BY <1>6 DEF StorFlush
    <2> HIDE DEF p, b
    <2>5. /\ Put(data[i], p, b) \in Contents
          /\ p = Len(data[i]) => Put(data[i], p, b) = Append(data[i], b)
      BY <2>1, <2>2, <2>3, PutFacts
    <2>6. TypesNext
      <3>1. /\ data' \in [Inodes -> Contents]
            /\ pos' \in [Sessions -> Nat]
            /\ first' \in [Sessions -> Int]
            /\ flushed' \in [Sessions -> Nat]
        <4>1. /\ data \in [Inodes -> Contents] /\ pos \in [Sessions -> Nat]
              /\ first \in [Sessions -> Int] /\ flushed \in [Sessions -> Nat]
          BY Types
        <4>2. data' \in [Inodes -> Contents]
          BY <2>1, <2>4, <2>5, <4>1
        <4>3. pos' \in [Sessions -> Nat] /\ flushed' \in [Sessions -> Nat]
          BY <2>2, <2>4, <4>1
        <4>4. first' \in [Sessions -> Int]
          BY <2>2, <2>4, <4>1
        <4> QED
          BY <4>2, <4>3, <4>4
      <3> QED
        BY <2>4, <3>1, Types, Disturbed DEF TypesNext
    <2>7. \A x \in Sessions : build = "win32" /\ pc[x] = "zerocopy" => ino[x] # i
      BY <2>1 DEF IInv, Apart
    <2>8. \A x \in Sessions \ {s} : Unmoved(x)
      BY <1>0, <2>1, <2>4, <2>7, Types, Disturbed DEF Unmoved
    <2>9. /\ data'[i] = Put(data[i], p, b) /\ pos'[s] = p + 1
          /\ flushed'[s] = flushed[s] + 1 /\ clean'[s] = clean[s]
      BY <2>1, <2>4, Types, Disturbed
    <2>10. Stored(s)'
      <3> SUFFICES ASSUME rest[s] = 0, clean[s]
                   PROVE  (/\ link = ino[s]
                           /\ flushed[s] <= Len(wire[s])
                           /\ pos[s] = Len(data[ino[s]])
                           /\ Len(data[ino[s]]) = flushed[s] - refused[s]
                           /\ refused[s] = 0 => data[ino[s]] = SubSeq(wire[s], 1, flushed[s]))'
        BY <2>4, <2>9 DEF Stored
      <3>1. /\ link = ino[s]
            /\ pos[s] = Len(data[i])
            /\ Len(data[i]) = flushed[s] - refused[s]
            /\ refused[s] = 0 => data[i] = SubSeq(wire[s], 1, flushed[s])
        BY <1>0, <2>1 DEF SessionInv, Stored
      <3>2. p = Len(data[i])
        BY <3>1 DEF p
      <3>3. data'[i] = Append(data[i], b) /\ Len(data'[i]) = Len(data[i]) + 1
        <4>1. data'[i] = Append(data[i], b)
          BY <2>5, <2>9, <3>2
        <4> QED
          BY <2>1, <2>3, <4>1 DEF Contents
      <3>4. Append(SubSeq(wire[s], 1, flushed[s]), b) = SubSeq(wire[s], 1, flushed[s] + 1)
        BY <2>1, <2>2, <2>3, PrefixGrows DEF b
      <3>5. flushed[s] + 1 <= Len(wire[s]) /\ pos'[s] = Len(data'[i])
            /\ Len(data'[i]) = (flushed[s] + 1) - refused[s]
        BY <2>1, <2>2, <2>3, <2>9, <3>1, <3>2, <3>3
      <3>6. refused[s] = 0 => data'[i] = SubSeq(wire[s], 1, flushed[s] + 1)
        BY <3>1, <3>3, <3>4
      <3> QED
        BY <2>4, <2>9, <3>1, <3>5, <3>6
    <2>11. SessionInv(s)'
      BY <1>0, <2>1, <2>4, <2>10
         DEF SessionInv, Phase, Metered, Counted, Reading
    <2>12. NoClash(s)
      BY <2>1, <2>4, <2>7 DEF NoClash
    <2> QED
      BY <2>6, <2>8, <2>11, <2>12 DEF Good
  <1>7. CASE StorRefused(s)
    <2>1. /\ pc[s] = "recv" /\ flushed[s] < Len(wire[s])
          /\ flushed' = [flushed EXCEPT ![s] = flushed[s] + 1]
          /\ refused' = [refused EXCEPT ![s] = refused[s] + 1]
          /\ UNCHANGED <<build, link, data, pc, cmd, rest, ino, pos, toSend, bytes, reply, total,
                         wire, again, first, clean, snap>>
      BY <1>7 DEF StorRefused, Buffered, fileVars
    <2>2. flushed[s] \in Nat /\ refused[s] \in Nat /\ Len(wire[s]) \in Nat
      BY Types DEF Contents
    <2>3. TypesNext
      <3>1. flushed \in [Sessions -> Nat] /\ refused \in [Sessions -> Nat]
        BY Types
      <3>2. flushed' = [flushed EXCEPT ![s] = flushed[s] + 1]
            /\ refused' = [refused EXCEPT ![s] = refused[s] + 1]
        BY <2>1
      <3>3. flushed' \in [Sessions -> Nat] /\ refused' \in [Sessions -> Nat]
        BY <2>2, <3>1, <3>2
      <3> QED
        BY <2>1, <3>3, Types DEF TypesNext
    <2>4. \A x \in Sessions \ {s} : Unmoved(x)
      BY <2>1, Types DEF Unmoved
    <2>5. flushed'[s] = flushed[s] + 1 /\ refused'[s] = refused[s] + 1
      BY <2>1, Types
    <2>6. Stored(s)'
      BY <1>0, <2>1, <2>2, <2>5 DEF SessionInv, Stored
    <2>7. SessionInv(s)'
      BY <1>0, <2>1, <2>6 DEF SessionInv, Phase, Metered, Counted, Reading
    <2>8. NoClash(s)
      BY <2>1 DEF NoClash, IInv, Apart
    <2> QED
      BY <2>3, <2>4, <2>7, <2>8 DEF Good
  <1> QED
    BY <1>1, <1>2, <1>3, <1>4, <1>5, <1>6, <1>7

\* A byte of the file d goes out after the bytes w that were sent from k on.
LEMMA OneMore ==
    ASSUME NEW d \in Contents, NEW w \in Contents, NEW k \in Nat,
           k + Len(w) < Len(d),
           w # <<>> => w = SubSeq(d, k + 1, k + Len(w)),
           NEW v, v = Append(w, d[k + Len(w) + 1])
    PROVE  k + Len(v) <= Len(d) /\ v = SubSeq(d, k + 1, k + Len(v))
  <1> DEFINE n == Len(w)
             b == d[k + n + 1]
  <1>1. n \in Nat /\ Len(d) \in Nat /\ b \in Bytes \cup {Hole}
    BY DEF Contents
  <1>2. w = SubSeq(d, k + 1, k + n)
    <2>1. CASE w = <<>>
      <3>1. n = 0
        BY <2>1
      <3>2. SubSeq(d, k + 1, k + n) = <<>>
        BY <3>1, SubSeqEmpty
      <3> QED
        BY <2>1, <3>2
    <2>2. CASE w # <<>>
      BY <2>2
    <2> QED
      BY <2>1, <2>2
  <1>3. k + n < Len(d) /\ k + n <= Len(d)
    BY <1>1
  <1> HIDE DEF n
  <1>4. Append(SubSeq(d, k + 1, k + n), d[k + n + 1]) = SubSeq(d, k + 1, k + n + 1)
    BY <1>1, <1>3, PartFacts
  <1>v. v = Append(w, b)
    BY DEF n
  <1>5. v = SubSeq(d, k + 1, k + n + 1)
    BY <1>2, <1>4, <1>v, Zenon
  <1>6. Len(v) = n + 1
    <2> HIDE DEF b
    <2> QED
      BY <1>1, <1>v DEF Contents, n
  <1>7. k + Len(v) = k + n + 1 /\ k + Len(v) <= Len(d)
    BY <1>1, <1>3, <1>6
  <1> QED
    BY <1>5, <1>7

\* A download: opened, sent zero-copy or, when that fails, a buffer at a time.
LEMMA DownloadStep ==
    ASSUME IInv, NEW s \in Sessions,
           \/ RetrOpen(s) \/ ZeroCopy(s) \/ ZeroCopyEnds(s) \/ ZeroCopyFails(s)
           \/ RetrFallBack(s) \/ RetrGone(s) \/ RetrSend(s) \/ RetrEnd(s)
    PROVE  Good(s)
  <1>0. SessionInv(s)
    BY DEF IInv
  <1>r. rest[s] \in Nat /\ link \in {0} \cup Inodes /\ again[s] \in Nat
    BY Types
  <1>s. Sought(rest[s]) \in Nat
    BY <1>r, SoughtNat
  <1>c. \A n \in Int : Code(n, rest[s]) \in Replies
    BY DEF Code, Replies
  <1>d. ASSUME link # 0
        PROVE  data[link] \in Contents /\ Len(data[link]) \in Nat
    <2>1. data[link] \in Contents
      BY <1>d, Types
    <2> QED
      BY <2>1 DEF Contents
  <1>u. U64(0) = 0
    BY Counter, Types
  <1>i. \A x \in Sessions : pc[x] = "zerocopy" => ino[x] \in Inodes
    BY DEF IInv, SessionInv, Phase
  <1>1. CASE RetrOpen(s)
    <2>1. /\ pc[s] = "wait" /\ cmd[s] = "RETR" /\ link # 0
          /\ build = "win32" => NoWriter
          /\ pc' = [pc EXCEPT ![s] = "zerocopy"]
          /\ ino' = [ino EXCEPT ![s] = link]
          /\ pos' = [pos EXCEPT ![s] = rest[s]]
          /\ toSend' = [toSend EXCEPT ![s] = U64(Len(data[link]) - rest[s])]
          /\ snap' = [snap EXCEPT ![s] = data[link]]
          /\ UNCHANGED <<build, link, data, cmd, rest, flushed, bytes, reply, total,
                         wire, again, refused, first, clean>>
      BY <1>1 DEF RetrOpen, fileVars
    <2>2. U64(Len(data[link]) - rest[s]) \in 0 .. 2 ^ Width - 1
      <3>1. Len(data[link]) - rest[s] \in Int
        BY <1>d, <1>r, <2>1
      <3> QED
        BY <3>1, Counter
    <2>3. TypesNext
      <3>1. /\ pc' \in [Sessions -> Places] /\ ino' \in [Sessions -> {0} \cup Inodes]
            /\ pos' \in [Sessions -> Nat] /\ snap' \in [Sessions -> Contents]
            /\ toSend' \in [Sessions -> 0 .. 2 ^ Width - 1]
        BY <1>d, <1>r, <2>1, <2>2, Types DEF Places
      <3> QED
        BY <2>1, <3>1, Types DEF TypesNext
    <2>4. \A x \in Sessions \ {s} : Unmoved(x)
      BY <2>1, Types DEF Unmoved
    <2>5. /\ pc'[s] = "zerocopy" /\ ino'[s] = link /\ pos'[s] = rest[s]
          /\ snap'[s] = data[link] /\ toSend'[s] = U64(Len(data[link]) - rest[s])
          /\ wire[s] = <<>> /\ Len(wire[s]) = 0 /\ link \in Inodes
          /\ again[s] = 0 /\ refused[s] = 0 /\ reply[s] = "none"
      BY <1>0, <1>r, <2>1, Types DEF SessionInv, Phase, Counted
    <2>6. Counted(s)'
      <3>1. (U64(Len(data[ino[s]]) - rest[s]))' = U64(Len(data[link]) - rest[s])
        BY <2>1, <2>5 DEF U64
      <3> QED
        BY <1>r, <2>1, <2>5, <3>1 DEF Counted
    <2>7. Reading(s)'
      BY <1>r, <2>1, <2>5 DEF Reading, From
    <2>8. SessionInv(s)'
      BY <2>1, <2>5, <2>6, <2>7 DEF SessionInv, Phase, Stored, Metered
    <2>9. NoClash(s)
      BY <2>1, <2>5 DEF NoClash, NoWriter
    <2> QED
      BY <2>3, <2>4, <2>8, <2>9 DEF Good
  <1>2. CASE ZeroCopy(s)
    <2> DEFINE d == data[ino[s]]
               b == d[pos[s] + 1]
    <2>1. /\ pc[s] = "zerocopy" /\ pos[s] < Len(d)
          /\ wire' = [wire EXCEPT ![s] = Append(wire[s], b)]
          /\ pos' = [pos EXCEPT ![s] = pos[s] + 1]
          /\ UNCHANGED <<build, link, data, pc, cmd, rest, ino, toSend, flushed, bytes, reply,
                         total, again, refused, first, clean, snap>>
      BY <1>2 DEF ZeroCopy, MayCopy, fileVars
    <2>2. cmd[s] = "RETR" /\ ino[s] \in Inodes /\ pos[s] \in Nat /\ again[s] = 0
      BY <1>0, <2>1, Types DEF SessionInv, Phase, Counted
    <2>3. d \in Contents
      BY <2>2, Types
    <2>4. b \in Bytes \cup {Hole} /\ Len(d) \in Nat
      <3> HIDE DEF d
      <3> QED
        BY <2>1, <2>2, <2>3 DEF Contents
    <2> HIDE DEF d, b
    <2>5. /\ wire[s] \in Contents /\ Len(wire[s]) \in Nat
          /\ Append(wire[s], b) \in Contents
          /\ Len(Append(wire[s], b)) = Len(wire[s]) + 1
      <3>1. wire[s] \in Contents
        BY Types
      <3> QED
        BY <2>4, <3>1 DEF Contents
    <2>6. TypesNext
      <3>1. wire' \in [Sessions -> Contents] /\ pos' \in [Sessions -> Nat]
        BY <2>1, <2>2, <2>5, Types
      <3> QED
        BY <2>1, <3>1, Types DEF TypesNext
    <2>7. \A x \in Sessions \ {s} : Unmoved(x)
      BY <2>1, Types DEF Unmoved
    <2>8. wire'[s] = Append(wire[s], b) /\ pos'[s] = pos[s] + 1
      BY <2>1, Types
    <2>9. Len(wire'[s]) = Len(wire[s]) + 1
      BY <2>5, <2>8
    <2>10. Counted(s)'
      <3>1. \A k : U64(k)' = U64(k)
        BY DEF U64
      <3>2. Counted(s)
        BY <1>0 DEF SessionInv
      <3>3. (data[ino[s]])' = d
        BY <2>1 DEF d
      <3>4. build = "win32" =>
              /\ toSend[s] = U64(Len(d) - rest[s])
              /\ pos[s] = rest[s] + Len(wire[s])
        BY <2>1, <3>2 DEF Counted, d
      <3>5. (U64(Len(data[ino[s]]) - rest[s]))' = U64(Len(d) - rest[s])
        BY <2>1, <3>3 DEF U64
      <3>6. build = "win32" =>
              /\ pos'[s] = rest[s] + Len(wire'[s])
              /\ pos'[s] <= Len(d)
        BY <1>r, <2>1, <2>2, <2>4, <2>5, <2>8, <2>9, <3>4
      <3>7. again[s] <= Len(wire'[s])
        BY <2>2, <2>5, <2>9
      <3> QED
        BY <2>1, <2>2, <3>3, <3>4, <3>5, <3>6, <3>7 DEF Counted
    <2>11. Reading(s)'
      <3> SUFFICES ASSUME clean[s]
                   PROVE  (/\ data[ino[s]] = snap[s]
                           /\ pos[s] = rest[s] + Len(wire[s])
                           /\ SentFrom(s, rest[s]))'
        BY <2>1 DEF Reading, From
      <3> DEFINE k == rest[s]
                 w == wire[s]
      <3>1. /\ d = snap[s] /\ pos[s] = k + Len(w)
            /\ w # <<>> => w = SubSeq(d, k + 1, k + Len(w))
        BY <1>0, <2>1, <2>2 DEF SessionInv, Reading, From, SentFrom, d
      <3>2. k \in Nat /\ w \in Contents /\ k + Len(w) < Len(d)
        BY <1>r, <2>1, <2>5, <3>1
      <3>3. pos'[s] = k + Len(wire'[s])
        BY <2>5, <2>8, <2>9, <3>1, <3>2
      <3>4. b = d[k + Len(w) + 1]
        BY <3>1 DEF b
      <3> HIDE DEF k, w
      <3>5. wire'[s] = Append(w, d[k + Len(w) + 1])
        BY <2>8, <3>4 DEF w
      <3>6. k + Len(wire'[s]) <= Len(d) /\ wire'[s] = SubSeq(d, k + 1, k + Len(wire'[s]))
        <4> DEFINE v == wire'[s]
        <4>1. v = Append(w, d[k + Len(w) + 1])
          BY <3>5
        <4> HIDE DEF v
        <4>2. k + Len(v) <= Len(d) /\ v = SubSeq(d, k + 1, k + Len(v))
          BY <2>3, <3>1, <3>2, <4>1, OneMore
        <4> QED
          BY <4>2 DEF v
      <3>7. rest'[s] = k /\ snap'[s] = d /\ (data[ino[s]])' = d
        BY <2>1, <3>1 DEF k, d
      <3> QED
        BY <3>3, <3>6, <3>7 DEF SentFrom
    <2>12. SessionInv(s)'
      BY <1>0, <2>1, <2>2, <2>10, <2>11 DEF SessionInv, Phase, Stored, Metered
    <2>13. NoClash(s)
      BY <2>1 DEF NoClash, IInv, Apart
    <2> QED
      BY <2>6, <2>7, <2>12, <2>13 DEF Good
  <1>3. CASE ZeroCopyEnds(s)
    <2> DEFINE n == IF build = "posix" THEN U64(Len(wire[s])) ELSE toSend[s]
    <2>1. Finish(s, link, Code(n, rest[s]), n)
      BY <1>3 DEF ZeroCopyEnds
    <2>2. n \in Int
      <3>1. Len(wire[s]) \in Int
        BY Types DEF Contents
      <3>2. U64(Len(wire[s])) \in Int /\ toSend[s] \in Int
        BY <3>1, Counter, Types
      <3> QED
        BY <3>2
    <2> HIDE DEF n
    <2> QED
      BY <1>c, <1>r, <2>1, <2>2, Finished
  <1>4. CASE ZeroCopyFails(s)
    <2>1. /\ cmd[s] = "RETR" /\ pc[s] \in {"wait", "zerocopy"}
          /\ pc' = [pc EXCEPT ![s] = "fallback"]
          /\ ino' = [ino EXCEPT ![s] = 0]
          /\ data' = Reclaim(data, link, ino')
          /\ again' = [again EXCEPT ![s] = Len(wire[s])]
          /\ clean' = [clean EXCEPT ![s] = TRUE]
          /\ pos' = [pos EXCEPT ![s] = 0]
          /\ toSend' = [toSend EXCEPT ![s] = 0]
          /\ snap' = [snap EXCEPT ![s] = <<>>]
          /\ bytes' = [bytes EXCEPT ![s] = 0]
          /\ UNCHANGED <<build, link, cmd, rest, flushed, reply, total, wire, refused, first>>
      BY <1>4 DEF ZeroCopyFails
    <2>2. /\ data' \in [Inodes -> Contents]
          /\ \A x \in Sessions : ino'[x] \in Inodes => data'[ino'[x]] = data[ino'[x]]
      <3>1. data \in [Inodes -> Contents]
        BY Types
      <3>2. /\ Reclaim(data, link, ino') \in [Inodes -> Contents]
            /\ \A x \in Sessions :
                 ino'[x] \in Inodes => Reclaim(data, link, ino')[ino'[x]] = data[ino'[x]]
        BY <3>1, Kept
      <3> QED
        BY <2>1, <3>2, Zenon
    <2>3. Len(wire[s]) \in Nat
      BY Types DEF Contents
    <2>4. clean' \in [Sessions -> BOOLEAN]
      BY <2>1, Types
    <2>5. TypesNext
      <3>1. /\ pc' \in [Sessions -> Places] /\ ino' \in [Sessions -> {0} \cup Inodes]
            /\ pos' \in [Sessions -> Nat] /\ snap' \in [Sessions -> Contents]
            /\ toSend' \in [Sessions -> 0 .. 2 ^ Width - 1] /\ again' \in [Sessions -> Nat]
            /\ bytes' \in [Sessions -> 0 .. 2 ^ Width - 1]
        BY <2>1, <2>3, Types DEF Places
      <3> QED
        BY <2>1, <2>2, <2>4, <3>1, Types DEF TypesNext
    <2>6. \A x \in Sessions \ {s} : Unmoved(x)
      <3> SUFFICES ASSUME NEW x \in Sessions \ {s}
                   PROVE  Unmoved(x)
        OBVIOUS
      <3>1. ino'[x] = ino[x] /\ pc'[x] = pc[x] /\ clean'[x] = clean[x] /\ snap'[x] = snap[x]
            /\ pos'[x] = pos[x] /\ toSend'[x] = toSend[x] /\ again'[x] = again[x]
            /\ bytes'[x] = bytes[x]
        BY <2>1, Types
      <3>2. ino[x] \in Inodes => data'[ino[x]] = data[ino[x]]
        BY <2>2, <3>1
      <3> QED
        BY <1>i, <2>1, <3>1, <3>2 DEF Unmoved
    <2>7. /\ pc'[s] = "fallback" /\ ino'[s] = 0 /\ again'[s] = Len(wire[s])
          /\ bytes'[s] = 0 /\ reply[s] = "none" /\ refused[s] = 0
      BY <1>0, <2>1, Types DEF SessionInv, Phase
    <2>8. SessionInv(s)'
      BY <2>1, <2>3, <2>7
         DEF SessionInv, Phase, Stored, Metered, Counted, Reading
    <2>9. NoClash(s)
      BY <2>7 DEF NoClash
    <2> QED
      BY <2>5, <2>6, <2>8, <2>9 DEF Good
  <1>5. CASE RetrFallBack(s)
    <2>1. /\ pc[s] = "fallback" /\ link # 0
          /\ pc' = [pc EXCEPT ![s] = "buffered"]
          /\ ino' = [ino EXCEPT ![s] = link]
          /\ pos' = [pos EXCEPT ![s] = Sought(rest[s])]
          /\ snap' = [snap EXCEPT ![s] = data[link]]
          /\ UNCHANGED <<build, link, data, cmd, rest, toSend, flushed, bytes, reply, total,
                         wire, again, refused, first, clean>>
      BY <1>5 DEF RetrFallBack, fileVars
    <2>2. TypesNext
      <3>1. /\ pc' \in [Sessions -> Places] /\ ino' \in [Sessions -> {0} \cup Inodes]
            /\ pos' \in [Sessions -> Nat] /\ snap' \in [Sessions -> Contents]
        BY <1>d, <1>r, <1>s, <2>1, Types DEF Places
      <3> QED
        BY <2>1, <3>1, Types DEF TypesNext
    <2>3. \A x \in Sessions \ {s} : Unmoved(x)
      BY <2>1, Types DEF Unmoved
    <2>4. /\ pc'[s] = "buffered" /\ ino'[s] = link /\ pos'[s] = Sought(rest[s])
          /\ snap'[s] = data[link] /\ link \in Inodes /\ cmd[s] = "RETR"
          /\ again[s] = Len(wire[s]) /\ bytes[s] = 0 /\ reply[s] = "none" /\ refused[s] = 0
      BY <1>0, <1>r, <2>1, Types DEF SessionInv, Phase, Counted
    <2>5. Counted(s)'
      <3>1. Len(wire[s]) - again[s] = 0
        BY <1>r, <2>4
      <3>2. (U64(Len(wire[s]) - again[s]))' = 0
        BY <1>u, <2>1, <3>1 DEF U64
      <3> QED
        BY <1>r, <2>1, <2>4, <3>2 DEF Counted
    <2>6. Reading(s)'
      <3> SUFFICES ASSUME again[s] = 0
                   PROVE  (/\ data[ino[s]] = snap[s]
                           /\ pos[s] = From(s) + Len(wire[s])
                           /\ wire[s] = <<>>)'
        BY <2>1 DEF Reading
      <3>1. wire[s] = <<>> /\ Len(wire[s]) = 0
        BY <2>4, Types, EmptySeq DEF Contents
      <3>2. From(s)' = Sought(rest[s])
        BY <2>1, <2>4 DEF From, Sought
      <3> QED
        BY <1>s, <2>1, <2>4, <3>1, <3>2
    <2>7. SessionInv(s)'
      BY <2>1, <2>4, <2>5, <2>6 DEF SessionInv, Phase, Stored, Metered
    <2>8. NoClash(s)
      BY <2>4 DEF NoClash
    <2> QED
      BY <2>2, <2>3, <2>7, <2>8 DEF Good
  <1>6. CASE RetrGone(s)
    <2>1. Finish(s, link, Code(0, rest[s]), 0)
      BY <1>6 DEF RetrGone
    <2>2. Code(0, rest[s]) \in Replies
      BY <1>c
    <2> QED
      BY <1>r, <2>1, <2>2, Finished
  <1>7. CASE RetrSend(s)
    <2> DEFINE d == data[ino[s]]
               b == d[pos[s] + 1]
    <2>1. /\ pc[s] = "buffered" /\ pos[s] < Len(d)
          /\ wire' = [wire EXCEPT ![s] = Append(wire[s], b)]
          /\ pos' = [pos EXCEPT ![s] = pos[s] + 1]
          /\ bytes' = [bytes EXCEPT ![s] = U64(bytes[s] + 1)]
          /\ UNCHANGED <<build, link, data, pc, cmd, rest, ino, toSend, flushed, reply,
                         total, again, refused, first, clean, snap>>
      BY <1>7 DEF RetrSend, fileVars
    <2>2. cmd[s] = "RETR" /\ ino[s] \in Inodes /\ pos[s] \in Nat
      BY <1>0, <2>1, Types DEF SessionInv, Phase
    <2>3. d \in Contents
      BY <2>2, Types
    <2>4. b \in Bytes \cup {Hole} /\ Len(d) \in Nat
      <3> HIDE DEF d
      <3> QED
        BY <2>1, <2>2, <2>3 DEF Contents
    <2> HIDE DEF d, b
    <2>5. /\ wire[s] \in Contents /\ Len(wire[s]) \in Nat
          /\ Append(wire[s], b) \in Contents
          /\ Len(Append(wire[s], b)) = Len(wire[s]) + 1
      <3>1. wire[s] \in Contents
        BY Types
      <3> QED
        BY <2>4, <3>1 DEF Contents
    <2>6. bytes[s] + 1 \in Nat /\ U64(bytes[s] + 1) \in 0 .. 2 ^ Width - 1
      <3>1. bytes[s] \in 0 .. 2 ^ Width - 1
        BY Types
      <3> QED
        BY <3>1, Counter, WidthAssumption
    <2>7. TypesNext
      <3>1. /\ wire' \in [Sessions -> Contents] /\ pos' \in [Sessions -> Nat]
            /\ bytes' \in [Sessions -> 0 .. 2 ^ Width - 1]
        <4>1. wire' \in [Sessions -> Contents]
          BY <2>1, <2>5, Types
        <4>2. pos' \in [Sessions -> Nat]
          BY <2>1, <2>2, Types
        <4>3. bytes' \in [Sessions -> 0 .. 2 ^ Width - 1]
          BY <2>1, <2>6, Types
        <4> QED
          BY <4>1, <4>2, <4>3
      <3> QED
        BY <2>1, <3>1, Types DEF TypesNext
    <2>8. \A x \in Sessions \ {s} : Unmoved(x)
      BY <2>1, Types DEF Unmoved
    <2>9. /\ wire'[s] = Append(wire[s], b) /\ pos'[s] = pos[s] + 1
          /\ bytes'[s] = U64(bytes[s] + 1)
      BY <2>1, Types
    <2>10. Len(wire'[s]) = Len(wire[s]) + 1
      BY <2>5, <2>9
    <2>11. Counted(s)'
      <3> DEFINE k == Len(wire[s]) - again[s]
      <3>1. bytes[s] = U64(k) /\ again[s] <= Len(wire[s])
        BY <1>0, <2>1 DEF SessionInv, Counted
      <3>2. k \in Nat /\ Len(wire'[s]) - again[s] = k + 1
        BY <1>r, <2>5, <2>10, <3>1
      <3> HIDE DEF k
      <3>3. bytes'[s] = U64(k + 1)
        BY <2>9, <3>1, <3>2, Counter
      <3>4. (U64(Len(wire[s]) - again[s]))' = U64(k + 1)
        BY <2>1, <3>2 DEF U64
      <3>5. again[s] <= Len(wire'[s])
        BY <1>r, <2>5, <2>10, <3>1
      <3> QED
        BY <2>1, <3>3, <3>4, <3>5 DEF Counted
    <2>12. Reading(s)'
      <3> DEFINE k == Sought(rest[s])
                 w == wire[s]
      <3>0. From(s)' = k /\ From(s) = k
        BY <2>1 DEF From, Sought
      <3> SUFFICES ASSUME clean[s], again[s] = 0
                   PROVE  (/\ data[ino[s]] = snap[s]
                           /\ pos[s] = From(s) + Len(wire[s])
                           /\ SentFrom(s, From(s)))'
        BY <2>1 DEF Reading
      <3>1. /\ d = snap[s] /\ pos[s] = k + Len(w)
            /\ w # <<>> => w = SubSeq(d, k + 1, k + Len(w))
        BY <1>0, <2>1, <2>2, <3>0 DEF SessionInv, Reading, SentFrom, d
      <3>2. k \in Nat /\ w \in Contents /\ k + Len(w) < Len(d)
        BY <1>s, <2>1, <2>5, <3>1
      <3> HIDE DEF k
      <3>3. pos'[s] = k + Len(wire'[s])
        BY <2>5, <2>9, <2>10, <3>1, <3>2
      <3>4. b = d[k + Len(w) + 1]
        BY <3>1 DEF b
      <3> HIDE DEF w
      <3>5. wire'[s] = Append(w, d[k + Len(w) + 1])
        BY <2>9, <3>4 DEF w
      <3>6. k + Len(wire'[s]) <= Len(d) /\ wire'[s] = SubSeq(d, k + 1, k + Len(wire'[s]))
        <4> DEFINE v == wire'[s]
        <4>1. v = Append(w, d[k + Len(w) + 1])
          BY <3>5
        <4> HIDE DEF v
        <4>2. k + Len(v) <= Len(d) /\ v = SubSeq(d, k + 1, k + Len(v))
          BY <2>3, <3>1, <3>2, <4>1, OneMore
        <4> QED
          BY <4>2 DEF v
      <3>7. snap'[s] = d /\ (data[ino[s]])' = d
        BY <2>1, <3>1 DEF d
      <3> QED
        BY <3>0, <3>3, <3>6, <3>7 DEF SentFrom
    <2>13. SessionInv(s)'
      BY <1>0, <2>1, <2>2, <2>11, <2>12 DEF SessionInv, Phase, Stored, Metered
    <2>14. NoClash(s)
      BY <2>1 DEF NoClash
    <2> QED
      BY <2>7, <2>8, <2>13, <2>14 DEF Good
  <1>8. CASE RetrEnd(s)
    <2>1. Finish(s, link, Code(bytes[s], rest[s]), bytes[s])
      BY <1>8 DEF RetrEnd
    <2>2. bytes[s] \in Int
      BY Types
    <2> QED
      BY <1>c, <1>r, <2>1, <2>2, Finished
  <1> QED
    BY <1>1, <1>2, <1>3, <1>4, <1>5, <1>6, <1>7, <1>8

-----------------------------------------------------------------------------
(* Results.                                                                *)

\* What a session can do next.
StepOf(s) ==
    \/ handleRest(s) \/ handleDele(s) \/ OpenFails(s)
    \/ \E c \in {"RETR", "STOR"} : Begin(s, c)
    \/ StorOpen(s) \/ StorOpenFails(s) \/ StorWrite(s) \/ StorFlush(s) \/ StorRefused(s)
    \/ StorOverflow(s) \/ StorEnd(s)
    \/ RetrOpen(s) \/ ZeroCopy(s) \/ ZeroCopyEnds(s) \/ ZeroCopyFails(s)
    \/ RetrFallBack(s) \/ RetrGone(s) \/ RetrSend(s) \/ RetrEnd(s)

\* Every step is a good step of a session.
LEMMA AllGood ==
    ASSUME IInv, Next
    PROVE  \E s \in Sessions : StepOf(s) /\ Good(s)
  <1>1. PICK s \in Sessions : StepOf(s)
    BY DEF Next, StepOf
  <1>2. Good(s)
    BY <1>1, CommandStep, UploadStep, DownloadStep DEF StepOf
  <1> QED
    BY <1>1, <1>2

\* The strengthening is inductive.
LEMMA Inductive == Spec => []IInv
  <1>1. Init => IInv
    <2> SUFFICES ASSUME Init PROVE IInv
      OBVIOUS
    <2>1. TypeInv
      BY TransferAssumption, WidthAssumption, EmptySeq
         DEF Init, TypeInv, TypeOK, Contents, Inodes
    <2>2. \A s \in Sessions : SessionInv(s)
      BY DEF Init, SessionInv, Phase, Stored, Metered, Counted, Reading
    <2>3. Apart
      BY DEF Init, Apart
    <2> QED
      BY <2>1, <2>2, <2>3 DEF IInv
  <1>2. IInv /\ [Next]_vars => IInv'
    <2> SUFFICES ASSUME IInv, [Next]_vars PROVE IInv'
      OBVIOUS
    <2>1. CASE Next
      BY <2>1, AllGood, GoodSuffices
    <2>2. CASE UNCHANGED vars
      <3>1. TypeInv' /\ Apart'
        BY <2>2 DEF IInv, vars, TypeInv, TypeOK, Inodes, Apart
      <3>2. build' = build /\ \A x \in Sessions : Unmoved(x)
        BY <2>2 DEF vars, Unmoved
      <3> QED
        BY <3>1, <3>2, OthersKeep DEF IInv
    <2> QED
      BY <2>1, <2>2
  <1> QED
    BY <1>1, <1>2, PTL DEF Spec

\* The variables have their types; in particular a file can always be created,
\* and no counter leaves its width.
THEOREM TypeCorrect == Spec => []TypeOK
  <1>1. IInv => TypeOK
    BY DEF IInv, TypeInv
  <1> QED
    BY <1>1, Inductive, PTL

\* The file at the path when an undisturbed upload is answered.
UploadAnswer(s) ==
    cmd[s] = "STOR" /\ rest[s] = 0 /\ clean[s] /\ pc[s] = "recv" /\ reply'[s] = "226" =>
        /\ link' # 0
        /\ Len(data'[link']) = Len(wire[s]) - refused[s]
        /\ refused[s] = 0 => data'[link'] = wire[s]

\* Only the end of recv() answers 226, once fclose() has emptied the buffer.
LEMMA UploadAnswered ==
    ASSUME IInv, [Next]_vars, NEW s \in Sessions
    PROVE  UploadAnswer(s)
  <1> SUFFICES ASSUME cmd[s] = "STOR", rest[s] = 0, clean[s], pc[s] = "recv",
                      reply'[s] = "226"
               PROVE  /\ link' # 0
                      /\ Len(data'[link']) = Len(wire[s]) - refused[s]
                      /\ refused[s] = 0 => data'[link'] = wire[s]
    BY DEF UploadAnswer
  <1>1. /\ SessionInv(s) /\ reply[s] = "none" /\ ino[s] \in Inodes
    BY DEF IInv, SessionInv, Phase
  <1>2. Next
    BY <1>1 DEF vars
  <1>3. PICK y \in Sessions : StepOf(y) /\ Good(y)
    BY <1>2, AllGood
  <1>4. y = s
    BY <1>1, <1>3 DEF Good, Unmoved
  <1>5. StorEnd(s)
    <2>1. ~StorOverflow(s)
      <3> SUFFICES ASSUME StorOverflow(s) PROVE FALSE
        OBVIOUS
      <3>1. reply' = [reply EXCEPT ![s] = "552"]
        BY DEF StorOverflow, Finish
      <3> QED
        BY <3>1, Types
    <2>2. StorWrite(s) \/ StorFlush(s) \/ StorRefused(s) => reply' = reply
      BY DEF StorWrite, StorFlush, StorRefused
    <2>3. \/ StorWrite(s) \/ StorFlush(s) \/ StorRefused(s) \/ StorOverflow(s) \/ StorEnd(s)
      BY <1>3, <1>4
         DEF StepOf, handleRest, handleDele, OpenFails, Begin, StorOpen, StorOpenFails,
             RetrOpen, ZeroCopy, ZeroCopyEnds, ZeroCopyFails, RetrFallBack, RetrGone,
             RetrSend, RetrEnd
    <2> QED
      BY <1>1, <2>1, <2>2, <2>3
  <1>6. /\ link = ino[s]
        /\ flushed[s] <= Len(wire[s])
        /\ Len(data[ino[s]]) = flushed[s] - refused[s]
        /\ refused[s] = 0 => data[ino[s]] = SubSeq(wire[s], 1, flushed[s])
    BY <1>1 DEF SessionInv, Stored
  <1>7. wire[s] \in Contents /\ Len(wire[s]) \in Nat /\ flushed[s] \in Nat /\ bytes[s] \in Int
        /\ link \in Inodes /\ link # 0
    <2>1. wire[s] \in Contents /\ flushed[s] \in Nat /\ bytes[s] \in 0 .. 2 ^ Width - 1
          /\ 0 \notin Inodes /\ 2 ^ Width \in Nat
      BY Types
    <2>2. Len(wire[s]) \in Nat
      BY <2>1 DEF Contents
    <2> QED
      BY <1>1, <1>6, <2>1, <2>2
  <1>8. flushed[s] = Len(wire[s])
    BY <1>5, <1>6, <1>7 DEF StorEnd, Buffered
  <1>9. SubSeq(wire[s], 1, flushed[s]) = wire[s]
    BY <1>7, <1>8, WholeSeq
  <1>10. link' = link /\ data'[link] = data[link]
    <2>1. Finish(s, link, "226", bytes[s])
      BY <1>5 DEF StorEnd
    <2> QED
      BY <1>7, <2>1, Finished DEF Replies
  <1> QED
    BY <1>6, <1>7, <1>8, <1>9, <1>10

\* When recvFile's 226 is sent the file holds what was received, byte for byte,
\* or as much less as the disk refused, if nobody else touched the file.
THEOREM UploadsFaithful == Spec => UploadFaithful
  <1>1. IInv /\ [Next]_vars => [\A s \in Sessions : UploadAnswer(s)]_vars
    BY UploadAnswered
  <1> QED
    BY <1>1, Inductive, PTL DEF Spec, UploadFaithful, UploadAnswer

\* What a download has sent and counted when it is answered.
DownloadAnswer(s) ==
    cmd[s] = "RETR" /\ pc'[s] = "idle" /\ wire[s] # <<>> =>
        /\ total' = U64(total + U64(Len(wire[s]) - again[s]))
        /\ clean[s] /\ again[s] = 0 =>
              \/ SentFrom(s, rest[s])
              \/ pc[s] = "buffered" /\ SentFrom(s, Sought(rest[s]))

\* The three ways a download ends: zero-copy, buffered, and with the file gone.
LEMMA DownloadAnswered ==
    ASSUME IInv, [Next]_vars, NEW s \in Sessions
    PROVE  DownloadAnswer(s)
  <1> SUFFICES ASSUME cmd[s] = "RETR", pc'[s] = "idle", wire[s] # <<>>
               PROVE  /\ total' = U64(total + U64(Len(wire[s]) - again[s]))
                      /\ clean[s] /\ again[s] = 0 =>
                            \/ SentFrom(s, rest[s])
                            \/ pc[s] = "buffered" /\ SentFrom(s, Sought(rest[s]))
    BY DEF DownloadAnswer
  <1>1. SessionInv(s) /\ pc[s] \notin {"idle", "wait"} /\ pc[s] # "recv"
    BY DEF IInv, SessionInv, Phase
  <1>2. Next
    BY <1>1 DEF vars
  <1>3. PICK y \in Sessions : StepOf(y) /\ Good(y)
    BY <1>2, AllGood
  <1>4. y = s
    BY <1>1, <1>3 DEF Good, Unmoved
  <1>5. ZeroCopyEnds(s) \/ RetrGone(s) \/ RetrEnd(s)
    <2>1. \/ ZeroCopy(s) \/ ZeroCopyEnds(s) \/ ZeroCopyFails(s)
          \/ RetrFallBack(s) \/ RetrGone(s) \/ RetrSend(s) \/ RetrEnd(s)
      BY <1>1, <1>3, <1>4
         DEF StepOf, handleRest, handleDele, OpenFails, Begin, StorOpen, StorOpenFails,
             StorWrite, StorFlush, StorRefused, Buffered, StorOverflow, StorEnd, RetrOpen
    <2>2. ZeroCopy(s) \/ RetrSend(s) => pc' = pc
      BY DEF ZeroCopy, RetrSend
    <2>3. ZeroCopyFails(s) \/ RetrFallBack(s) => pc'[s] \in {"fallback", "buffered"}
      BY Types DEF ZeroCopyFails, RetrFallBack
    <2> QED
      BY <1>1, <2>1, <2>2, <2>3
  <1>6. /\ wire[s] \in Contents /\ Len(wire[s]) \in Nat /\ Len(wire[s]) > 0
        /\ again[s] \in Nat /\ rest[s] \in Nat /\ total \in Int /\ bytes[s] \in Int
        /\ link \in {0} \cup Inodes
    <2>1. wire[s] \in Contents
      BY Types
    <2>2. Len(wire[s]) \in Nat /\ Len(wire[s]) > 0
      BY <2>1, EmptySeq DEF Contents
    <2>3. /\ again[s] \in Nat /\ rest[s] \in Nat /\ total \in Int /\ bytes[s] \in Int
          /\ link \in {0} \cup Inodes
      BY Types
    <2> QED
      BY <2>1, <2>2, <2>3
  <1>7. \A n \in Int : Code(n, rest[s]) \in Replies
    BY DEF Code, Replies
  <1>8. CASE ZeroCopyEnds(s)
    <2> DEFINE n == IF build = "posix" THEN U64(Len(wire[s])) ELSE toSend[s]
               d == data[ino[s]]
    <2>1. Finish(s, link, Code(n, rest[s]), n) /\ pc[s] = "zerocopy" /\ again[s] = 0
      BY <1>1, <1>8 DEF ZeroCopyEnds, SessionInv, Counted
    <2>2. n = U64(Len(wire[s]))
      <3>1. CASE build = "win32"
        <4>1. /\ toSend[s] = U64(Len(d) - rest[s])
              /\ pos[s] = rest[s] + Len(wire[s]) /\ pos[s] <= Len(d)
          BY <1>1, <2>1, <3>1 DEF SessionInv, Counted
        <4>2. ~(pos[s] < Len(d))
          BY <1>8, <3>1 DEF ZeroCopyEnds, MayCopy
        <4>3. Len(d) \in Nat
          BY <1>1, <2>1, Types DEF SessionInv, Phase, Contents
        <4> HIDE DEF d
        <4>4. Len(d) - rest[s] = Len(wire[s])
          BY <1>6, <4>1, <4>2, <4>3
        <4>5. toSend[s] = U64(Len(wire[s]))
          BY <4>1, <4>4, Zenon
        <4> QED
          BY <3>1, <4>5
      <3>2. CASE build = "posix"
        BY <3>2
      <3> QED
        BY <3>1, <3>2, Types
    <2>3. n \in Int
      <3>1. Len(wire[s]) \in Int
        BY <1>6
      <3>2. U64(Len(wire[s])) \in 0 .. 2 ^ Width - 1
        BY <3>1, Counter
      <3> QED
        BY <2>2, <3>2, Types
    <2> HIDE DEF n
    <2>4. total' = U64(total + n)
      BY <1>6, <1>7, <2>1, <2>3, Finished
    <2>5. Len(wire[s]) - again[s] = Len(wire[s])
      BY <1>6, <2>1
    <2>6. total' = U64(total + U64(Len(wire[s]) - again[s]))
      BY <2>2, <2>4, <2>5, Zenon
    <2>7. clean[s] => SentFrom(s, rest[s])
      BY <1>1, <2>1 DEF SessionInv, Reading, From
    <2> QED
      BY <2>6, <2>7
  <1>9. CASE RetrGone(s)
    <2>1. Finish(s, link, Code(0, rest[s]), 0) /\ pc[s] = "fallback" /\ again[s] = Len(wire[s])
      BY <1>1, <1>9 DEF RetrGone, SessionInv, Counted
    <2>2. U64(Len(wire[s]) - again[s]) = 0
      <3>1. Len(wire[s]) - again[s] = 0 /\ U64(0) = 0
        BY <1>6, <2>1, Counter, Types
      <3> QED
        BY <3>1, Zenon
    <2>3. total' = U64(total + 0)
      BY <2>1 DEF Finish
    <2> QED
      BY <1>6, <2>1, <2>2, <2>3
  <1>10. CASE RetrEnd(s)
    <2>1. /\ Finish(s, link, Code(bytes[s], rest[s]), bytes[s])
          /\ pc[s] = "buffered" /\ bytes[s] = U64(Len(wire[s]) - again[s])
      BY <1>1, <1>10 DEF RetrEnd, SessionInv, Counted
    <2>2. total' = U64(total + bytes[s])
      BY <1>6, <1>7, <2>1, Finished
    <2>3. clean[s] /\ again[s] = 0 => SentFrom(s, Sought(rest[s]))
      BY <1>1, <2>1 DEF SessionInv, Reading, From
    <2> QED
      BY <2>1, <2>2, <2>3
  <1> QED
    BY <1>5, <1>8, <1>9, <1>10

\* sendfile(), TransmitFile() and sendFileBuffered count what they send although
\* the file changes, and send an unchanged file from the offset on or, buffered,
\* from where fseek() took the narrowed offset.
THEOREM DownloadsFaithful == Spec => DownloadFaithful
  <1>1. IInv /\ [Next]_vars => [\A s \in Sessions : DownloadAnswer(s)]_vars
    BY DownloadAnswered
  <1> QED
    BY <1>1, Inductive, PTL DEF Spec, DownloadFaithful, DownloadAnswer

\* The limit of recvFile holds for every upload: the 64-bit sum it compares with
\* maxFileSize cannot wrap before the limit is met.
THEOREM UploadsBounded == Spec => []UploadBounded
  <1>1. IInv => UploadBounded
    BY DEF IInv, SessionInv, Metered, UploadBounded
  <1> QED
    BY <1>1, Inductive, PTL
=============================================================================
