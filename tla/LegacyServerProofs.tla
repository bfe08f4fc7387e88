------------------------- MODULE LegacyServerProofs -------------------------
(***************************************************************************)
(* For any sessions, names and bounds: the version 1 server leaves no file *)
(* or socket open, and an upload nobody else wrote to is stored as sent,   *)
(* but for the chunks the disk refused.                                    *)
(***************************************************************************)
EXTENDS LegacyServer, FiniteSetTheorems, TLAPS

-----------------------------------------------------------------------------
(* The strengthening.                                                      *)

\* What one handleClient knows: its file and its counts belong to a transfer, it
\* has received no more than was sent, and it counts its listener.
Local(r) ==
    /\ r.net + r.lost <= r.sent
    /\ r.socks = IF r.lsock = "none" THEN 0 ELSE 1
    /\ r.pc \notin {"open", "data"} => r.file = ROOT_DIR /\ r.verb = "none"
    /\ r.pc # "data" => r.sent = 0 /\ r.data = "none"
    /\ r.verb = "STOR" => r.file \in Paths
    /\ r.alone => r.verb = "STOR"

SessionsInv ==
    /\ ses \in [Sessions -> SessionType]
    /\ \A s \in Sessions : Local(ses[s])

Entries == {NoEntry, Dir} \cup {File(w, n) : w \in Sessions \cup {Mixed}, n \in 0 .. MaxBytes}

\* What exists is below directories only.
TreeInv ==
    \A q, r \in Paths : Exists(q) /\ IsStrictPrefix(r, q) => fs[r].kind = "dir"

\* A file stays where it is while a session has it open.
OpenInv == \A s \in Sessions : ses[s].file \in Paths => IsFile(ses[s].file)

\* A file last truncated by s, and written by nobody else since, holds what s has
\* sent but for what is still on its way or was refused by the disk; that is so for
\* an upload that is alone.
StoredInv ==
    \A s \in Sessions : ses[s].verb = "STOR" =>
        /\ fs[ses[s].file].by = s => fs[ses[s].file].len + ses[s].net + ses[s].lost = ses[s].sent
        /\ ses[s].alone => fs[ses[s].file].by = s

\* Nobody else uploads to the file of an upload that is alone.
AloneInv ==
    \A s, t \in Sessions :
        s # t /\ ses[s].alone /\ ses[t].verb = "STOR" => ses[s].file # ses[t].file

\* The sessions that have p open.
Openers(p) == {s \in Sessions : ses[s].file = p}

HandlesInv == \A p \in Paths : handles[p] = Cardinality(Openers(p))

FilesInv ==
    /\ fs \in [Paths -> Entries]
    /\ TreeInv
    /\ OpenInv
    /\ StoredInv
    /\ AloneInv

CountInv ==
    /\ process \in {"up", "terminated"}
    /\ ncmds \in 0 .. MaxCmds
    /\ handles \in [Paths -> Int]
    /\ HandlesInv

IInv == SessionsInv /\ FilesInv /\ CountInv

-----------------------------------------------------------------------------
(* Facts about paths.                                                      *)

\* A path is a sequence of one to MaxDepth names.
LEMMA PathFacts ==
    ASSUME NEW p
    PROVE  /\ p \in Paths <=> p \in Seq(Names) /\ Len(p) \in 1 .. MaxDepth
           /\ ROOT_DIR \notin Paths
  <1>1. ASSUME p \in Paths PROVE p \in Seq(Names) /\ Len(p) \in 1 .. MaxDepth
    <2>1. PICK k \in 1 .. MaxDepth : p \in [1 .. k -> Names]
      BY <1>1 DEF Paths
    <2>2. k \in Nat /\ MaxDepth \in Nat
      BY LegacyAssumption
    <2>3. p \in Seq(Names) /\ Len(p) = k
      BY <2>1, <2>2
    <2> QED
      BY <2>1, <2>3
  <1>2. ASSUME p \in Seq(Names), Len(p) \in 1 .. MaxDepth PROVE p \in Paths
    <2>1. p \in [1 .. Len(p) -> Names]
      BY <1>2
    <2> QED
      BY <1>2, <2>1 DEF Paths
  <1>3. ASSUME ROOT_DIR \in Paths PROVE FALSE
    <2>1. PICK k \in 1 .. MaxDepth : ROOT_DIR \in [1 .. k -> Names]
      BY <1>3 DEF Paths
    <2>2. DOMAIN ROOT_DIR = {} /\ 1 \in 1 .. k
      BY LegacyAssumption DEF ROOT_DIR
    <2> QED
      BY <2>1, <2>2
  <1> QED
    BY <1>1, <1>2, <1>3

\* The first k names of a path.
LEMMA PreFacts ==
    ASSUME NEW S, NEW p \in Seq(S), NEW k \in 0 .. Len(p)
    PROVE  /\ SubSeq(p, 1, k) \in Seq(S)
           /\ Len(SubSeq(p, 1, k)) = k
           /\ \A i \in 1 .. k : SubSeq(p, 1, k)[i] = p[i]
  OBVIOUS

\* Two sequences are equal when their elements are.
LEMMA SeqEqual ==
    ASSUME NEW S, NEW p \in Seq(S), NEW q \in Seq(S), Len(p) = Len(q),
           \A i \in 1 .. Len(p) : p[i] = q[i]
    PROVE  p = q
  OBVIOUS

\* IsPrefix, by elements.
LEMMA PrefixFacts ==
    ASSUME NEW S, NEW p \in Seq(S), NEW q \in Seq(S)
    PROVE  IsPrefix(p, q) <=> Len(p) <= Len(q) /\ \A i \in 1 .. Len(p) : p[i] = q[i]
  <1>1. SubSeq(p, 1, Len(p)) = p
    BY PreFacts, SeqEqual
  <1>2. ASSUME Len(p) <= Len(q)
        PROVE  /\ SubSeq(q, 1, Len(p)) \in Seq(S) /\ Len(SubSeq(q, 1, Len(p))) = Len(p)
               /\ \A i \in 1 .. Len(p) : SubSeq(q, 1, Len(p))[i] = q[i]
    <2>1. Len(p) \in 0 .. Len(q)
      BY <1>2
    <2> QED
      BY <2>1, PreFacts
  <1>3. ASSUME Len(p) <= Len(q), \A i \in 1 .. Len(p) : p[i] = q[i]
        PROVE  p = SubSeq(q, 1, Len(p))
    BY <1>2, <1>3, SeqEqual
  <1> QED
    BY <1>1, <1>2, <1>3 DEF IsPrefix

\* CDUP leads to a path or to ROOT_DIR.
LEMMA FrontFacts ==
    ASSUME NEW p \in Paths
    PROVE  /\ Front(p) \in Paths \cup {ROOT_DIR}
           /\ Front(p) \in Seq(Names) /\ Len(Front(p)) = Len(p) - 1
           /\ \A i \in 1 .. Len(p) - 1 : Front(p)[i] = p[i]
           /\ Len(p) = 1 <=> Front(p) = ROOT_DIR
  <1>1. p \in Seq(Names) /\ Len(p) \in 1 .. MaxDepth /\ MaxDepth \in Nat
    BY PathFacts, LegacyAssumption
  <1> DEFINE f == Front(p)
  <1>2. f \in Seq(Names) /\ Len(f) = Len(p) - 1 /\ \A i \in 1 .. Len(p) - 1 : f[i] = p[i]
    <2>1. Len(p) - 1 \in 0 .. Len(p)
      BY <1>1
    <2> QED
      BY <1>1, <2>1, PreFacts DEF Front
  <1> HIDE DEF f
  <1>3. Len(p) = 1 <=> f = ROOT_DIR
    BY <1>1, <1>2 DEF ROOT_DIR
  <1>4. Len(p) # 1 => f \in Paths
    <2> SUFFICES ASSUME ~(Len(p) = 1) PROVE f \in Paths
      OBVIOUS
    <2>1. Len(f) \in 1 .. MaxDepth
      BY <1>1, <1>2
    <2> QED
      BY <1>2, <2>1, PathFacts
  <1> QED
    BY <1>2, <1>3, <1>4 DEF f

-----------------------------------------------------------------------------
(* One session.                                                            *)

\* A step that changes one session keeps the others.
LEMMA OneSession ==
    ASSUME SessionsInv, NEW s \in Sessions, NEW r \in SessionType, Local(r),
           ses' = [ses EXCEPT ![s] = r]
    PROVE  SessionsInv'
  BY DEF SessionsInv

Replies == {0, 150, 200, 202, 215, 220, 221, 226, 227, 230, 250, 257, 331, 350, 425, 503,
            530, 550}

\* The codes the server uses.
LEMMA ReplyCodes ==
    /\ 0 \in Replies /\ 150 \in Replies /\ 200 \in Replies /\ 221 \in Replies
    /\ 226 \in Replies /\ 227 \in Replies /\ 230 \in Replies /\ 250 \in Replies
    /\ 331 \in Replies /\ 350 \in Replies /\ 425 \in Replies /\ 550 \in Replies
    /\ 257 \in Replies
  BY DEF Replies

(* A field may be given any value of its type.                             *)

\* A session may be given any value for its place.
LEMMA PutPc ==
    \A r \in SessionType, v \in {"away", "unserved", "read", "open", "data", "ended"} :
        [r EXCEPT !.pc = v] \in SessionType
  BY DEF SessionType

\* A session may be given any value for the user name.
LEMMA PutUser ==
    \A r \in SessionType, v \in {"none", "admin", "other"} : [r EXCEPT !.user = v] \in SessionType
  BY DEF SessionType

\* A session may be given any value for loggedIn.
LEMMA PutLoggedIn ==
    \A r \in SessionType, v \in BOOLEAN : [r EXCEPT !.loggedIn = v] \in SessionType
  BY DEF SessionType

\* A session may be given any value for currentDir.
LEMMA PutCurrentDir ==
    \A r \in SessionType, v \in Paths \cup {ROOT_DIR} : [r EXCEPT !.currentDir = v] \in SessionType
  BY DEF SessionType

\* A session may be given any value for renameFrom.
LEMMA PutRenameFrom ==
    \A r \in SessionType, v \in Paths \cup {ROOT_DIR} : [r EXCEPT !.renameFrom = v] \in SessionType
  BY DEF SessionType

\* A session may be given any value for usePassive.
LEMMA PutUsePassive ==
    \A r \in SessionType, v \in BOOLEAN : [r EXCEPT !.usePassive = v] \in SessionType
  BY DEF SessionType

\* A session may be given any value for active.
LEMMA PutActive ==
    \A r \in SessionType, v \in BOOLEAN : [r EXCEPT !.active = v] \in SessionType
  BY DEF SessionType

\* A session may be given any value for its listener.
LEMMA PutLsock ==
    \A r \in SessionType, v \in {"none", "listening", "queued"} :
        [r EXCEPT !.lsock = v] \in SessionType
  BY DEF SessionType

\* A session may be given any value for its count of listening sockets.
LEMMA PutSocks ==
    \A r \in SessionType, v \in {0, 1} : [r EXCEPT !.socks = v] \in SessionType
  BY DEF SessionType

\* A session may be given any value for its command.
LEMMA PutVerb ==
    \A r \in SessionType, v \in {"none", "LIST", "RETR", "STOR"} :
        [r EXCEPT !.verb = v] \in SessionType
  BY DEF SessionType

\* A session may be given any value for its file.
LEMMA PutFile ==
    \A r \in SessionType, v \in Paths \cup {ROOT_DIR} : [r EXCEPT !.file = v] \in SessionType
  BY DEF SessionType

\* A session may be given any value for its data connection.
LEMMA PutData ==
    \A r \in SessionType, v \in {"none", "up", "eof", "reset"} :
        [r EXCEPT !.data = v] \in SessionType
  BY DEF SessionType

\* A session may be given any value for what the client has sent.
LEMMA PutSent ==
    \A r \in SessionType, v \in 0 .. MaxBytes : [r EXCEPT !.sent = v] \in SessionType
  BY DEF SessionType

\* A session may be given any value for what is on its way.
LEMMA PutNet ==
    \A r \in SessionType, v \in 0 .. MaxBytes : [r EXCEPT !.net = v] \in SessionType
  BY DEF SessionType

\* A session may be given any value for what the disk has refused.
LEMMA PutLost ==
    \A r \in SessionType, v \in 0 .. MaxBytes : [r EXCEPT !.lost = v] \in SessionType
  BY DEF SessionType

\* A session may be given any value for whether the client has left.
LEMMA PutGone ==
    \A r \in SessionType, v \in BOOLEAN : [r EXCEPT !.gone = v] \in SessionType
  BY DEF SessionType

\* A session may be given any value for whether it is the only writer.
LEMMA PutAlone ==
    \A r \in SessionType, v \in BOOLEAN : [r EXCEPT !.alone = v] \in SessionType
  BY DEF SessionType

\* A session may be given any value for the last reply code.
LEMMA PutReply ==
    \A r \in SessionType, v \in Replies : [r EXCEPT !.reply = v] \in SessionType
  BY DEF SessionType, Replies

\* Closing the listener.
LEMMA NoListenerFacts ==
    ASSUME NEW r \in SessionType, Local(r)
    PROVE  NoListener(r) \in SessionType /\ Local(NoListener(r)) /\ NoListener(r).lsock = "none"
  <1> DEFINE q == NoListener(r)
  <1>1. q \in SessionType
    <2>1. (IF r.lsock = "none" THEN r.socks ELSE r.socks - 1) \in {0, 1}
      BY DEF SessionType, Local
    <2> QED
      BY <2>1, PutSocks, PutLsock DEF NoListener
  <1>2. Local(q) /\ q.lsock = "none"
    BY DEF NoListener, SessionType, Local
  <1> QED
    BY <1>1, <1>2

\* The end of a command with a data connection.
LEMMA ReturnedFacts ==
    ASSUME NEW r \in SessionType, Local(r), NEW code \in {226, 425}
    PROVE  Returned(r, code) \in SessionType /\ Local(Returned(r, code))
  <1> DEFINE q == Returned(r, code)
  <1>1. q \in SessionType
    <2>1. 0 \in 0 .. MaxBytes
      BY LegacyAssumption
    <2>2. code \in Replies /\ r \in SessionType
      BY ReplyCodes
    <2> DEFINE a == [r EXCEPT !.pc = "read"]
               b == [a EXCEPT !.verb = "none"]
               c == [b EXCEPT !.file = ROOT_DIR]
               d == [c EXCEPT !.data = "none"]
               e == [d EXCEPT !.sent = 0]
               f == [e EXCEPT !.net = 0]
               k == [f EXCEPT !.lost = 0]
               g == [k EXCEPT !.alone = FALSE]
    <2>11. a \in SessionType
      BY <2>2, PutPc
    <2>12. b \in SessionType
      BY <2>11, PutVerb
    <2>13. c \in SessionType
      BY <2>12, PutFile
    <2>14. d \in SessionType
      BY <2>13, PutData
    <2>15. e \in SessionType
      BY <2>14, <2>1, PutSent
    <2>16. f \in SessionType
      BY <2>15, <2>1, PutNet
    <2>19. k \in SessionType
      BY <2>16, <2>1, PutLost
    <2>17. g \in SessionType
      BY <2>19, PutAlone
    <2>18. [g EXCEPT !.reply = code] \in SessionType
      BY <2>17, <2>2, PutReply
    <2> QED
      BY <2>18 DEF Returned
  <1>2. Local(q)
    BY PathFacts, LegacyAssumption DEF Returned, SessionType, Local
  <1> QED
    BY <1>1, <1>2

\* Each step of Next keeps what the sessions know.
LEMMA SessionsStep ==
    ASSUME SessionsInv, Next
    PROVE  SessionsInv'
  <1>0. /\ MaxBytes \in Nat /\ ROOT_DIR \notin Paths
        /\ \A t \in Sessions : ses[t] \in SessionType /\ Local(ses[t])
    BY LegacyAssumption, PathFacts DEF SessionsInv
  <1>reply. ASSUME NEW s \in Sessions, NEW code \in Replies, Reply(s, code)
            PROVE  SessionsInv'
    <2> DEFINE r == [ses[s] EXCEPT !.reply = code]
    <2>1. ses' = [ses EXCEPT ![s] = r]
      BY <1>reply, Zenon DEF Reply
    <2>2. r \in SessionType
      BY <1>0, PutReply
    <2>3. Local(r)
      BY <1>0 DEF SessionType, Local
    <2> QED
      BY <2>1, <2>2, <2>3, OneSession
  <1>1. ASSUME NEW s \in Sessions, AcceptLoop(s)
        PROVE  SessionsInv'
    BY <1>0, <1>1 DEF AcceptLoop, At, Command, Reply, SessionsInv, SessionType, Local
  <1>2. ASSUME NEW s \in Sessions, EndSession(s)
        PROVE  SessionsInv'
    <2> DEFINE r == [Fresh EXCEPT !.pc = "ended", !.socks = NoListener(ses[s]).socks,
                                !.reply = IF ses[s].gone THEN 0 ELSE 221]
    <2>1. ses' = [ses EXCEPT ![s] = r]
      BY <1>2 DEF EndSession, SessionsInv
    <2>2. r \in SessionType
      <3>1. Fresh \in SessionType
        BY <1>0 DEF Fresh, SessionType
      <3>2. NoListener(ses[s]).socks \in {0, 1}
        BY <1>0, NoListenerFacts DEF SessionType
      <3>3. (IF ses[s].gone THEN 0 ELSE 221) \in Replies
        BY DEF Replies
      <3> DEFINE a == [Fresh EXCEPT !.pc = "ended"]
                 b == [a EXCEPT !.socks = NoListener(ses[s]).socks]
      <3>11. a \in SessionType
        BY <3>1, PutPc
      <3>12. b \in SessionType
        BY <3>11, <3>2, PutSocks
      <3>13. [b EXCEPT !.reply = (IF ses[s].gone THEN 0 ELSE 221)] \in SessionType
        BY <3>12, <3>3, PutReply
      <3> QED
        BY <3>13
    <2>3. Local(r)
      BY <1>0, <1>2 DEF Fresh, NoListener, SessionType, Local
    <2> QED
      BY <2>1, <2>2, <2>3, OneSession
  <1>3. ASSUME NEW s \in Sessions, Unauthenticated(s)
        PROVE  SessionsInv'
    BY <1>0, <1>3 DEF Unauthenticated, At, Command, Reply, SessionsInv, SessionType, Local
  <1>4. ASSUME NEW s \in Sessions, Answer(s)
        PROVE  SessionsInv'
    BY <1>0, <1>4 DEF Answer, At, Command, Reply, SessionsInv, SessionType, Local
  <1>5. ASSUME NEW s \in Sessions, Cdup(s)
        PROVE  SessionsInv'
    <2> DEFINE r == [ses[s] EXCEPT !.currentDir = IF @ = ROOT_DIR THEN @ ELSE Front(@),
                                 !.reply = 250]
    <2>1. ses' = [ses EXCEPT ![s] = r]
      BY <1>5 DEF Cdup, SessionsInv
    <2>2. r \in SessionType
      <3>1. ses[s].currentDir \in Paths \cup {ROOT_DIR}
        BY <1>0 DEF SessionType
      <3>2. (IF ses[s].currentDir = ROOT_DIR THEN ses[s].currentDir ELSE Front(ses[s].currentDir))
              \in Paths \cup {ROOT_DIR}
        BY <3>1, FrontFacts
      <3> DEFINE d == IF ses[s].currentDir = ROOT_DIR THEN ses[s].currentDir
                      ELSE Front(ses[s].currentDir)
                 a == [ses[s] EXCEPT !.currentDir = d]
      <3>3. a \in SessionType
        BY <1>0, <3>2, PutCurrentDir
      <3>4. [a EXCEPT !.reply = 250] \in SessionType
        BY <3>3, PutReply, ReplyCodes
      <3> QED
        BY <3>4
    <2>3. Local(r)
      BY <1>0, <1>5, FrontFacts DEF Cdup, Command, At, SessionType, Local
    <2> QED
      BY <2>1, <2>2, <2>3, OneSession
  <1>6. ASSUME NEW s \in Sessions, Pasv(s)
        PROVE  SessionsInv'
    <2> DEFINE q == NoListener(ses[s])
               r == [q EXCEPT !.lsock = "listening", !.socks = q.socks + 1,
                                             !.usePassive = TRUE, !.reply = 227]
    <2>1. ses' = [ses EXCEPT ![s] = r]
      BY <1>6 DEF Pasv
    <2>2. q \in SessionType /\ Local(q) /\ q.lsock = "none"
      BY <1>0, NoListenerFacts
    <2> HIDE DEF q
    <2>3. r \in SessionType
      <3>1. q.socks + 1 \in {0, 1}
        BY <2>2 DEF SessionType, Local
      <3> DEFINE a == [q EXCEPT !.lsock = "listening"]
                 b == [a EXCEPT !.socks = (q.socks + 1)]
                 c == [b EXCEPT !.usePassive = TRUE]
      <3>11. a \in SessionType
        BY <2>2, PutLsock
      <3>12. b \in SessionType
        BY <3>11, <3>1, PutSocks
      <3>13. c \in SessionType
        BY <3>12, PutUsePassive
      <3>14. [c EXCEPT !.reply = 227] \in SessionType
        BY <3>13, ReplyCodes, PutReply
      <3> QED
        BY <3>14
    <2>4. Local(r)
      BY <2>2 DEF SessionType, Local
    <2> QED
      BY <2>1, <2>3, <2>4, OneSession
  <1>7. ASSUME NEW s \in Sessions, Port(s)
        PROVE  SessionsInv'
    <2> DEFINE q == NoListener(ses[s])
               r == [q EXCEPT !.usePassive = FALSE, !.active = TRUE,
                                             !.reply = 200]
    <2>1. ses' = [ses EXCEPT ![s] = r]
      BY <1>7 DEF Port
    <2>2. q \in SessionType /\ Local(q) /\ q.lsock = "none"
      BY <1>0, NoListenerFacts
    <2> HIDE DEF q
    <2>3. r \in SessionType
      BY <2>2, PutUsePassive, PutActive, PutReply, ReplyCodes
    <2>4. Local(r)
      BY <2>2 DEF SessionType, Local
    <2> QED
      BY <2>1, <2>3, <2>4, OneSession
  <1>8. ASSUME NEW s \in Sessions, PortThrows(s)
        PROVE  SessionsInv'
    BY <1>0, <1>8 DEF PortThrows, At, Command, Reply, SessionsInv, SessionType, Local
  <1>9. ASSUME NEW s \in Sessions, List(s)
        PROVE  SessionsInv'
    BY <1>0, <1>9 DEF List, Begin, At, Command, Reply, SessionsInv, SessionType, Local
  <1>10. ASSUME NEW s \in Sessions, OpenData(s)
        PROVE  SessionsInv'
    BY <1>0, <1>10 DEF OpenData, At, Command, Reply, SessionsInv, SessionType, Local
  <1>11. ASSUME NEW s \in Sessions, OpenFails(s)
        PROVE  SessionsInv'
    <2> DEFINE r == Returned(ses[s], 425)
    <2>1. ses' = [ses EXCEPT ![s] = r]
      BY <1>11 DEF OpenFails
    <2>2. r \in SessionType /\ Local(r)
      BY <1>0, ReturnedFacts
    <2> QED
      BY <2>1, <2>2, OneSession
  <1>12. ASSUME NEW s \in Sessions, RecvChunk(s)
        PROVE  SessionsInv'
    BY <1>0, <1>12 DEF RecvChunk, At, Command, Reply, SessionsInv, SessionType, Local
  <1>lose. ASSUME NEW s \in Sessions, LoseChunk(s)
        PROVE  SessionsInv'
    <2> DEFINE q == [ses[s] EXCEPT !.net = ses[s].net - 1]
               r == [ses[s] EXCEPT !.net = @ - 1, !.lost = @ + 1]
    <2>1. ses' = [ses EXCEPT ![s] = r]
      BY <1>lose, Zenon DEF LoseChunk
    <2>2. /\ ses[s].net - 1 \in 0 .. MaxBytes /\ ses[s].lost + 1 \in 0 .. MaxBytes
          /\ ses[s].net - 1 + ses[s].lost + 1 <= ses[s].sent
      BY <1>0, <1>lose, LegacyAssumption DEF LoseChunk, SessionType, Local
    <2>3. r \in SessionType
      <3>1. q \in SessionType
        BY <1>0, <2>2, PutNet
      <3>2. r = [q EXCEPT !.lost = ses[s].lost + 1]
        BY <1>0 DEF SessionType
      <3> QED
        BY <2>2, <3>1, <3>2, PutLost
    <2>4. Local(r)
      BY <1>0, <2>2 DEF SessionType, Local
    <2> QED
      BY <2>1, <2>3, <2>4, OneSession
  <1>13. ASSUME NEW s \in Sessions, EndStor(s)
        PROVE  SessionsInv'
    BY <1>0, <1>13, NoListenerFacts, ReturnedFacts, OneSession DEF EndStor, EndTransfer
  <1>14. ASSUME NEW s \in Sessions, SendAll(s)
        PROVE  SessionsInv'
    BY <1>0, <1>14, NoListenerFacts, ReturnedFacts, OneSession DEF SendAll, EndTransfer
  <1>15. ASSUME NEW s \in Sessions, Client(s)
        PROVE  SessionsInv'
    <2>1. CASE ses' = [ses EXCEPT ![s].lsock = "queued"] /\ ses[s].lsock = "listening"
      BY <1>0, <2>1 DEF SessionsInv, SessionType, Local
    <2>2. CASE /\ ses' = [ses EXCEPT ![s].sent = @ + 1, ![s].net = @ + 1]
               /\ ses[s].data = "up" /\ ses[s].sent < MaxBytes
      <3> DEFINE r == [ses[s] EXCEPT !.sent = @ + 1, !.net = @ + 1]
      <3>1. ses' = [ses EXCEPT ![s] = r]
        BY <2>2, Zenon
      <3>2. r \in SessionType
        <4>1. ses[s].sent + 1 \in 0 .. MaxBytes /\ ses[s].net + 1 \in 0 .. MaxBytes
          BY <1>0, <2>2 DEF SessionType, Local
        <4> QED
          BY <1>0, <4>1, PutSent, PutNet
      <3>3. Local(r)
        BY <1>0, <2>2 DEF SessionType, Local
      <3> QED
        BY <3>1, <3>2, <3>3, OneSession
    <2>3. CASE ses' = [ses EXCEPT ![s].data = "eof"] /\ ses[s].data = "up"
      BY <1>0, <2>3 DEF SessionsInv, SessionType, Local
    <2>4. ASSUME NEW d \in {"eof", "reset"},
                 ses' = [ses EXCEPT ![s].gone = TRUE, ![s].data = IF @ = "up" THEN d ELSE @]
          PROVE  SessionsInv'
      <3> DEFINE r == [ses[s] EXCEPT !.gone = TRUE, !.data = IF @ = "up" THEN d ELSE @]
      <3>1. ses' = [ses EXCEPT ![s] = r]
        BY <2>4, Zenon
      <3>2. r \in SessionType
        <4>1. (IF ses[s].data = "up" THEN d ELSE ses[s].data) \in {"none", "up", "eof", "reset"}
          BY <1>0 DEF SessionType
        <4> QED
          BY <1>0, <4>1, PutGone, PutData
      <3>3. Local(r)
        BY <1>0 DEF SessionType, Local
      <3> QED
        BY <3>1, <3>2, <3>3, OneSession
    <2> QED
      BY <1>15, <2>1, <2>2, <2>3, <2>4 DEF Client
  <1>16. ASSUME NEW s \in Sessions, NEW u \in {"admin", "other"}, User(s, u)
        PROVE  SessionsInv'
    <2> DEFINE r == [ses[s] EXCEPT !.user = u, !.reply = 331]
    <2>1. ses' = [ses EXCEPT ![s] = r]
      BY <1>16 DEF User, SessionsInv
    <2>2. r \in SessionType
      <3>1. u \in {"none", "admin", "other"}
        OBVIOUS
      <3> QED
        BY <1>0, <3>1, PutUser, PutReply, ReplyCodes
    <2>3. Local(r)
      BY <1>0, <1>16 DEF User, At, SessionType, Local
    <2> QED
      BY <2>1, <2>2, <2>3, OneSession
  <1>17. ASSUME NEW s \in Sessions, NEW right \in BOOLEAN, Pass(s, right)
        PROVE  SessionsInv'
    <2>1. CASE ses' = [ses EXCEPT ![s].loggedIn = TRUE, ![s].reply = 230]
      <3> DEFINE r == [ses[s] EXCEPT !.loggedIn = TRUE, !.reply = 230]
      <3>1. ses' = [ses EXCEPT ![s] = r]
        BY <2>1, Zenon
      <3>2. r \in SessionType
        BY <1>0, PutLoggedIn, PutReply, ReplyCodes
      <3>3. Local(r)
        BY <1>0 DEF SessionType, Local
      <3> QED
        BY <3>1, <3>2, <3>3, OneSession
    <2>2. CASE Reply(s, 530)
      BY <1>0, <2>2 DEF Reply, SessionsInv, SessionType, Local
    <2> QED
      BY <1>17, <2>1, <2>2 DEF Pass
  <1>18. ASSUME NEW s \in Sessions, NEW name \in Names, Cwd(s, name)
        PROVE  SessionsInv'
    <2> DEFINE newDir == Append(ses[s].currentDir, name)
    <2>1. CASE IsDir(newDir) /\ ses' = [ses EXCEPT ![s].currentDir = newDir, ![s].reply = 250]
      <3> DEFINE r == [ses[s] EXCEPT !.currentDir = newDir, !.reply = 250]
      <3>1. ses' = [ses EXCEPT ![s] = r]
        BY <2>1, Zenon
      <3>2. newDir \in Paths \cup {ROOT_DIR}
        BY <2>1 DEF IsDir
      <3> HIDE DEF newDir
      <3>3. r \in SessionType
        BY <1>0, <3>2, PutCurrentDir, PutReply, ReplyCodes
      <3>4. Local(r)
        BY <1>0 DEF SessionType, Local
      <3> QED
        BY <3>1, <3>3, <3>4, OneSession
    <2>2. CASE Reply(s, 550)
      BY <1>0, <2>2 DEF Reply, SessionsInv, SessionType, Local
    <2> QED
      BY <1>18, <2>1, <2>2 DEF Cwd
  <1>19. ASSUME NEW s \in Sessions, NEW name \in Names, Dele(s, name)
        PROVE  SessionsInv'
    BY <1>reply, <1>19, ReplyCodes DEF Dele
  <1>20. ASSUME NEW s \in Sessions, NEW name \in Names, Mkd(s, name)
        PROVE  SessionsInv'
    BY <1>reply, <1>20, ReplyCodes DEF Mkd
  <1>21. ASSUME NEW s \in Sessions, NEW name \in Names, Rmd(s, name)
        PROVE  SessionsInv'
    BY <1>reply, <1>21, ReplyCodes DEF Rmd
  <1>22. ASSUME NEW s \in Sessions, NEW name \in Names, Rnfr(s, name)
        PROVE  SessionsInv'
    <2>1. CASE ses' = [ses EXCEPT ![s].renameFrom = Target(s, name), ![s].reply = 350]
      <3> DEFINE r == [ses[s] EXCEPT !.renameFrom = Target(s, name), !.reply = 350]
      <3>1. ses' = [ses EXCEPT ![s] = r]
        BY <2>1, Zenon
      <3>2. r \in SessionType
        <4>1. Target(s, name) \in Paths \cup {ROOT_DIR}
          BY <1>22 DEF Rnfr
        <4> DEFINE a == [ses[s] EXCEPT !.renameFrom = Target(s, name)]
        <4>2. a \in SessionType
          BY <1>0, <4>1, PutRenameFrom
        <4>3. [a EXCEPT !.reply = 350] \in SessionType
          BY <4>2, PutReply, ReplyCodes
        <4> QED
          BY <4>3
      <3>3. Local(r)
        BY <1>0 DEF SessionType, Local
      <3> QED
        BY <3>1, <3>2, <3>3, OneSession
    <2>2. CASE Reply(s, 550)
      BY <1>0, <2>2 DEF Reply, SessionsInv, SessionType, Local
    <2> QED
      BY <1>22, <2>1, <2>2 DEF Rnfr
  <1>23. ASSUME NEW s \in Sessions, NEW name \in Names, Rnto(s, name)
        PROVE  SessionsInv'
    <2>1. CASE Reply(s, 503)
      BY <1>0, <2>1 DEF Reply, SessionsInv, SessionType, Local
    <2>2. ASSUME NEW code \in {250, 550},
                 ses' = [ses EXCEPT ![s].renameFrom = ROOT_DIR, ![s].reply = code]
          PROVE  SessionsInv'
      <3> DEFINE r == [ses[s] EXCEPT !.renameFrom = ROOT_DIR, !.reply = code]
      <3>1. ses' = [ses EXCEPT ![s] = r]
        <4>1. DOMAIN ses = Sessions
          BY DEF SessionsInv
        <4> QED
          BY <2>2, <4>1
      <3>2. r \in SessionType
        <4>1. code \in Replies /\ ROOT_DIR \in Paths \cup {ROOT_DIR}
          BY ReplyCodes
        <4> DEFINE a == [ses[s] EXCEPT !.renameFrom = ROOT_DIR]
        <4>2. a \in SessionType
          BY <1>0, <4>1, PutRenameFrom
        <4>3. [a EXCEPT !.reply = code] \in SessionType
          BY <4>1, <4>2, PutReply
        <4> QED
          BY <4>3
      <3>3. Local(r)
        BY <1>0 DEF SessionType, Local
      <3> QED
        BY <3>1, <3>2, <3>3, OneSession
    <2>3. (IF Movable(ses[s].renameFrom, Target(s, name)) THEN 250 ELSE 550) \in {250, 550}
      OBVIOUS
    <2> DEFINE c == IF Movable(ses[s].renameFrom, Target(s, name)) THEN 250 ELSE 550
    <2>4. CASE ses[s].renameFrom = ROOT_DIR
      BY <1>23, <2>1, <2>4 DEF Rnto
    <2>5. CASE ses[s].renameFrom # ROOT_DIR
      <3>1. ses' = [ses EXCEPT ![s].renameFrom = ROOT_DIR, ![s].reply = c]
        BY <1>23, <2>5 DEF Rnto
      <3>2. c \in {250, 550}
        BY <2>3
      <3> HIDE DEF c
      <3> QED
        BY <2>2, <3>1, <3>2
    <2> QED
      BY <2>4, <2>5
  <1>24. ASSUME NEW s \in Sessions, NEW name \in Names, Retr(s, name)
        PROVE  SessionsInv'
    BY <1>0, <1>24 DEF Retr, Begin, At, Command, Reply, SessionsInv, SessionType, Local
  <1>25. ASSUME NEW s \in Sessions, NEW name \in Names, Stor(s, name)
        PROVE  SessionsInv'
    <2> DEFINE p == Target(s, name)
               b == [ses[s] EXCEPT !.pc = "open", !.verb = "STOR", !.file = p, !.reply = 150]
               r(t) == IF t = s THEN [b EXCEPT !.alone = (handles[p] = 0)]
                       ELSE [ses[t] EXCEPT !.alone = @ /\ ses[t].file # p]
    <2>1. CASE Reply(s, 550)
      BY <1>0, <2>1 DEF Reply, SessionsInv, SessionType, Local
    <2>2. CASE /\ p \in Paths /\ ses[s].pc = "read"
               /\ ses' = [t \in Sessions |->
                       [Begin(s, "STOR", p)[t] EXCEPT
                           !.alone = IF t = s THEN handles[p] = 0 ELSE @ /\ ses[t].file # p]]
      <3>1. ses' = [t \in Sessions |-> r(t)]
        <4>1. ASSUME NEW t \in Sessions
              PROVE  [Begin(s, "STOR", p)[t] EXCEPT
                        !.alone = IF t = s THEN handles[p] = 0 ELSE @ /\ ses[t].file # p] = r(t)
          <5>1. CASE t = s
            BY <1>0, <5>1 DEF Begin, SessionsInv
          <5>2. CASE t # s
            BY <1>0, <5>2 DEF Begin, SessionsInv
          <5> QED
            BY <5>1, <5>2
        <4> QED
          BY <2>2, <4>1
      <3> HIDE DEF p
      <3>2. b \in SessionType
        BY <1>0, <2>2, PutPc, PutVerb, PutFile, PutReply, ReplyCodes
      <3>3. r(s) \in SessionType
        BY <3>2, PutAlone
      <3>5. Local(r(s))
        BY <1>0, <2>2 DEF SessionType, Local
      <3>4. ASSUME NEW t \in Sessions, t # s PROVE r(t) \in SessionType /\ Local(r(t))
        <4>1. r(t) \in SessionType
          <5>1. (ses[t].alone /\ ses[t].file # p) \in BOOLEAN
            OBVIOUS
          <5> QED
            BY <1>0, <3>4, <5>1, PutAlone
        <4>2. Local(r(t))
          BY <1>0, <3>4 DEF SessionType, Local
        <4> QED
          BY <4>1, <4>2
      <3> HIDE DEF r
      <3> QED
        BY <3>1, <3>3, <3>4, <3>5 DEF SessionsInv
    <2> QED
      BY <1>25, <2>1, <2>2 DEF Stor, Command, At
  <1> QED
    BY <1>lose,
       <1>1, <1>2, <1>3, <1>4, <1>5, <1>6, <1>7, <1>8, <1>9, <1>10, <1>11, <1>12, <1>13, <1>14,
       <1>15, <1>16, <1>17, <1>18, <1>19, <1>20, <1>21, <1>22, <1>23, <1>24, <1>25 DEF Next

-----------------------------------------------------------------------------
(* What an action does to the transfers.                                   *)

\* The fields the file system depends on; a client that sends keeps the difference.
Same(q, r) ==
    /\ q.file = r.file /\ q.verb = r.verb /\ q.alone = r.alone
    /\ q.sent - (q.net + q.lost) = r.sent - (r.net + r.lost)

AllSame == \A t \in Sessions : Same(ses'[t], ses[t])

Others(s) == \A t \in Sessions \ {s} : Same(ses'[t], ses[t])

Quiet == AllSame /\ UNCHANGED <<fs, handles>>

\* Session s opens p.
Opens(s, v, p) ==
    /\ ses[s].pc = "read" /\ Others(s)
    /\ ses'[s].file = p /\ ses'[s].verb = v /\ ses'[s].alone = ses[s].alone

\* Session s is done with its file.
Closes(s) ==
    /\ Others(s)
    /\ ses'[s].file = ROOT_DIR /\ ses'[s].verb = "none" /\ ~ses'[s].alone
    /\ handles' = Closed(ses[s].file)
    /\ UNCHANGED fs

\* An entry of the directory tree.
LEMMA EntryFacts ==
    ASSUME NEW e \in Entries
    PROVE  /\ e = NoEntry <=> e.kind = "none"
           /\ e.kind \in {"none", "dir", "file"}
           /\ e.kind = "file" => /\ e.by \in Sessions \cup {Mixed} /\ e.len \in 0 .. MaxBytes
                                 /\ e = File(e.by, e.len)
  BY DEF Entries, NoEntry, Dir, File

\* Every step is quiet, or opens, writes or closes a file, or changes the tree.
LEMMA Effects ==
    ASSUME SessionsInv, Next
    PROVE  \/ Quiet
           \/ \E s \in Sessions : Closes(s)
           \/ \E s \in Sessions : RecvChunk(s)
           \/ \E s \in Sessions : Opens(s, "LIST", ROOT_DIR) /\ UNCHANGED <<fs, handles>>
           \/ \E s \in Sessions, name \in Names :
                \/ Dele(s, name) /\ AllSame
                \/ Mkd(s, name) /\ AllSame
                \/ Rmd(s, name) /\ AllSame
                \/ Rnto(s, name) /\ AllSame
                \/ Retr(s, name) /\ Opens(s, "RETR", Target(s, name))
                \/ Stor(s, name)
  <1>0. /\ \A t \in Sessions : ses[t] \in SessionType /\ Local(ses[t])
        /\ DOMAIN ses = Sessions
    BY DEF SessionsInv
  <1>1. ASSUME NEW s \in Sessions, AcceptLoop(s)
        PROVE  Quiet
    BY <1>0, <1>1 DEF AcceptLoop, At, Command, Reply, Quiet, AllSame, Same, SessionType, Local
  <1>2. ASSUME NEW s \in Sessions, EndSession(s)
        PROVE  Quiet
    <2> DEFINE r == [Fresh EXCEPT !.pc = "ended", !.socks = NoListener(ses[s]).socks,
                                !.reply = IF ses[s].gone THEN 0 ELSE 221]
    <2>1. ses' = [ses EXCEPT ![s] = r] /\ UNCHANGED <<fs, handles>> /\ ses[s].pc = "read"
      BY <1>2 DEF EndSession, At
    <2>2. /\ r.file = ROOT_DIR /\ r.verb = "none" /\ r.alone = FALSE /\ r.sent = 0 /\ r.net = 0
          /\ r.lost = 0
      BY DEF Fresh
    <2>3. /\ ses[s].file = ROOT_DIR /\ ses[s].verb = "none" /\ ses[s].sent = 0 /\ ses[s].net = 0
          /\ ses[s].lost = 0
      BY <1>0, <2>1 DEF Local, SessionType
    <2>4. ses[s].alone = FALSE
      <3>1. ~ses[s].alone /\ ses[s].alone \in BOOLEAN
        BY <1>0, <2>1 DEF Local, SessionType
      <3> QED
        BY <3>1
    <2> HIDE DEF r
    <2>5. Same(r, ses[s])
      BY <2>2, <2>3, <2>4, Zenon DEF Same
    <2>6. \A t \in Sessions : Same(ses[t], ses[t])
      BY DEF Same
    <2> QED
      BY <1>0, <2>1, <2>5, <2>6 DEF Quiet, AllSame
  <1>3. ASSUME NEW s \in Sessions, Unauthenticated(s)
        PROVE  Quiet
    BY <1>0, <1>3 DEF Unauthenticated, At, Command, Reply, Quiet, AllSame, Same, SessionType,
       Local
  <1>4. ASSUME NEW s \in Sessions, Answer(s)
        PROVE  Quiet
    BY <1>0, <1>4 DEF Answer, At, Command, Reply, Quiet, AllSame, Same, SessionType, Local
  <1>5. ASSUME NEW s \in Sessions, Cdup(s)
        PROVE  Quiet
    BY <1>0, <1>5 DEF Cdup, At, Command, Reply, Quiet, AllSame, Same, SessionType, Local
  <1>6. ASSUME NEW s \in Sessions, Pasv(s)
        PROVE  Quiet
    BY <1>0, <1>6 DEF Pasv, NoListener, At, Command, Reply, Quiet, AllSame, Same, SessionType,
       Local
  <1>7. ASSUME NEW s \in Sessions, Port(s)
        PROVE  Quiet
    BY <1>0, <1>7 DEF Port, NoListener, At, Command, Reply, Quiet, AllSame, Same, SessionType,
       Local
  <1>8. ASSUME NEW s \in Sessions, PortThrows(s)
        PROVE  Quiet
    BY <1>0, <1>8 DEF PortThrows, At, Command, Reply, Quiet, AllSame, Same, SessionType, Local
  <1>9. ASSUME NEW s \in Sessions, List(s)
        PROVE  Opens(s, "LIST", ROOT_DIR) /\ UNCHANGED <<fs, handles>>
    BY <1>0, <1>9 DEF List, Begin, Opens, Others, Same, Command, At, SessionType
  <1>10. ASSUME NEW s \in Sessions, OpenData(s)
        PROVE  Quiet
    BY <1>0, <1>10 DEF OpenData, At, Command, Reply, Quiet, AllSame, Same, SessionType, Local
  <1>11. ASSUME NEW s \in Sessions, OpenFails(s)
        PROVE  Closes(s)
    BY <1>0, <1>11 DEF OpenFails, Returned, Closes, Others, Same, SessionType
  <1>12. ASSUME NEW s \in Sessions, EndStor(s)
        PROVE  Closes(s)
    BY <1>0, <1>12 DEF EndStor, EndTransfer, NoListener, Returned, Closes, Others, Same,
       SessionType
  <1>13. ASSUME NEW s \in Sessions, SendAll(s)
        PROVE  Closes(s)
    BY <1>0, <1>13 DEF SendAll, EndTransfer, NoListener, Returned, Closes, Others, Same,
       SessionType
  <1>14. ASSUME NEW s \in Sessions, Client(s)
        PROVE  Quiet
    BY <1>0, <1>14 DEF Client, At, Command, Reply, Quiet, AllSame, Same, SessionType, Local
  <1>lose. ASSUME NEW s \in Sessions, LoseChunk(s)
        PROVE  Quiet
    BY <1>0, <1>lose DEF LoseChunk, Quiet, AllSame, Same, SessionType, Local
  <1>15. ASSUME NEW s \in Sessions, NEW u \in {"admin", "other"}, User(s, u)
        PROVE  Quiet
    BY <1>0, <1>15 DEF User, At, Command, Reply, Quiet, AllSame, Same, SessionType, Local
  <1>16. ASSUME NEW s \in Sessions, NEW right \in BOOLEAN, Pass(s, right)
        PROVE  Quiet
    BY <1>0, <1>16 DEF Pass, At, Command, Reply, Quiet, AllSame, Same, SessionType, Local
  <1>17. ASSUME NEW s \in Sessions, NEW name \in Names, Cwd(s, name)
        PROVE  Quiet
    <2> DEFINE newDir == Append(ses[s].currentDir, name)
    <2>1. /\ \/ ses' = [ses EXCEPT ![s].currentDir = newDir, ![s].reply = 250]
             \/ ses' = [ses EXCEPT ![s].reply = 550]
          /\ UNCHANGED <<fs, handles>>
      BY <1>17 DEF Cwd, Reply
    <2> HIDE DEF newDir
    <2>2. CASE ses' = [ses EXCEPT ![s].currentDir = newDir, ![s].reply = 250]
      BY <1>0, <2>1, <2>2 DEF Quiet, AllSame, Same, SessionType
    <2>3. CASE ses' = [ses EXCEPT ![s].reply = 550]
      BY <1>0, <2>1, <2>3 DEF Quiet, AllSame, Same, SessionType
    <2> QED
      BY <2>1, <2>2, <2>3
  <1>18. ASSUME NEW s \in Sessions, NEW name \in Names, Dele(s, name)
        PROVE  AllSame
    BY <1>0, <1>18 DEF Dele, At, Command, Reply, Quiet, AllSame, Same, SessionType, Local
  <1>19. ASSUME NEW s \in Sessions, NEW name \in Names, Mkd(s, name)
        PROVE  AllSame
    BY <1>0, <1>19 DEF Mkd, At, Command, Reply, Quiet, AllSame, Same, SessionType, Local
  <1>20. ASSUME NEW s \in Sessions, NEW name \in Names, Rmd(s, name)
        PROVE  AllSame
    BY <1>0, <1>20 DEF Rmd, At, Command, Reply, Quiet, AllSame, Same, SessionType, Local
  <1>21. ASSUME NEW s \in Sessions, NEW name \in Names, Rnfr(s, name)
        PROVE  Quiet
    BY <1>0, <1>21 DEF Rnfr, At, Command, Reply, Quiet, AllSame, Same, SessionType, Local
  <1>22. ASSUME NEW s \in Sessions, NEW name \in Names, Rnto(s, name)
        PROVE  AllSame
    <2> DEFINE c == IF Movable(ses[s].renameFrom, Target(s, name)) THEN 250 ELSE 550
    <2>1. \/ ses' = [ses EXCEPT ![s].renameFrom = ROOT_DIR, ![s].reply = c]
          \/ ses' = [ses EXCEPT ![s].reply = 503]
      BY <1>22 DEF Rnto, Reply
    <2> HIDE DEF c
    <2> QED
      BY <1>0, <2>1 DEF AllSame, Same, SessionType
  <1>23. ASSUME NEW s \in Sessions, NEW name \in Names, Retr(s, name)
        PROVE  Quiet \/ Opens(s, "RETR", Target(s, name))
    BY <1>0, <1>23 DEF Retr, Begin, Opens, Others, At, Command, Reply, Quiet, AllSame, Same,
       SessionType, Local
  <1> QED
    BY <1>lose,
       <1>1, <1>2, <1>3, <1>4, <1>5, <1>6, <1>7, <1>8, <1>9, <1>10, <1>11, <1>12, <1>13, <1>14,
       <1>15, <1>16, <1>17, <1>18, <1>19, <1>20, <1>21, <1>22, <1>23 DEF Next

\* What a STOR that opens its file does to the sessions.
Stores(s, p) ==
    /\ ses[s].pc = "read" /\ IsDir(Front(p)) /\ fs[p].kind # "dir"
    /\ fs' = [fs EXCEPT ![p] = File(s, 0)]
    /\ handles' = [handles EXCEPT ![p] = @ + 1]
    /\ ses'[s].file = p /\ ses'[s].verb = "STOR" /\ ses'[s].alone = (handles[p] = 0)
    /\ ses'[s].sent = ses[s].sent /\ ses'[s].net = ses[s].net /\ ses'[s].lost = ses[s].lost
    /\ \A t \in Sessions \ {s} :
          /\ ses'[t].file = ses[t].file /\ ses'[t].verb = ses[t].verb
          /\ ses'[t].sent = ses[t].sent /\ ses'[t].net = ses[t].net /\ ses'[t].lost = ses[t].lost
          /\ ses'[t].alone = (ses[t].alone /\ ses[t].file # p)

\* STOR opens its file or changes nothing.
LEMMA StorFacts ==
    ASSUME SessionsInv, NEW s \in Sessions, NEW name \in Names, Stor(s, name),
           NEW p \in Paths, p = Target(s, name)
    PROVE  Quiet \/ Stores(s, p)
  <1>0. /\ \A t \in Sessions : ses[t] \in SessionType
        /\ DOMAIN ses = Sessions
    BY DEF SessionsInv
  <1>1. CASE Reply(s, 550) /\ UNCHANGED <<fs, handles>>
    BY <1>0, <1>1 DEF Reply, Quiet, AllSame, Same, SessionType
  <1>2. CASE ~(Reply(s, 550) /\ UNCHANGED <<fs, handles>>)
    <2> DEFINE b == [ses[s] EXCEPT !.pc = "open", !.verb = "STOR", !.file = p, !.reply = 150]
               h == (handles[p] = 0)
    <2>1. /\ ses[s].pc = "read" /\ IsDir(Front(p)) /\ fs[p].kind # "dir"
          /\ fs' = [fs EXCEPT ![p] = File(s, 0)]
          /\ handles' = [handles EXCEPT ![p] = @ + 1]
          /\ ses' = [t \in Sessions |->
                [Begin(s, "STOR", p)[t] EXCEPT
                    !.alone = IF t = s THEN handles[p] = 0 ELSE @ /\ ses[t].file # p]]
      BY <1>2 DEF Stor, Command, At
    <2>2. ses'[s] = [b EXCEPT !.alone = h]
      BY <1>0, <2>1 DEF Begin
    <2>3. b \in SessionType /\ h \in BOOLEAN
      BY <1>0, PutPc, PutVerb, PutFile, PutReply, ReplyCodes
    <2>4. /\ b.file = p /\ b.verb = "STOR" /\ b.sent = ses[s].sent /\ b.net = ses[s].net
          /\ b.lost = ses[s].lost
      BY <1>0 DEF SessionType
    <2> HIDE DEF b, h
    <2>5. /\ ses'[s].file = p /\ ses'[s].verb = "STOR" /\ ses'[s].alone = h
          /\ ses'[s].sent = ses[s].sent /\ ses'[s].net = ses[s].net /\ ses'[s].lost = ses[s].lost
      BY <2>2, <2>3, <2>4 DEF SessionType
    <2>6. ASSUME NEW t \in Sessions, t # s
          PROVE  ses'[t] = [ses[t] EXCEPT !.alone = @ /\ ses[t].file # p]
      BY <1>0, <2>1, <2>6 DEF Begin
    <2>7. ASSUME NEW t \in Sessions \ {s}
          PROVE  /\ ses'[t].file = ses[t].file /\ ses'[t].verb = ses[t].verb
                 /\ ses'[t].sent = ses[t].sent /\ ses'[t].net = ses[t].net
                 /\ ses'[t].lost = ses[t].lost
                 /\ ses'[t].alone = (ses[t].alone /\ ses[t].file # p)
      <3> DEFINE w == ses[t].alone /\ ses[t].file # p
      <3>1. ses'[t] = [ses[t] EXCEPT !.alone = w]
        BY <2>6
      <3> HIDE DEF w
      <3>2. /\ ses'[t].file = ses[t].file /\ ses'[t].verb = ses[t].verb
            /\ ses'[t].sent = ses[t].sent /\ ses'[t].net = ses[t].net /\ ses'[t].lost = ses[t].lost
            /\ ses'[t].alone = w
        BY <1>0, <3>1 DEF SessionType
      <3> QED
        BY <3>2 DEF w
    <2> QED
      BY <2>1, <2>5, <2>7 DEF Stores, h
  <1> QED
    BY <1>1, <1>2

\* The sessions that have a file open are finitely many.
LEMMA OpenersFinite ==
    ASSUME NEW p
    PROVE  IsFiniteSet(Openers(p)) /\ Cardinality(Openers(p)) \in Nat
           /\ Cardinality(Openers(p)) <= Cardinality(Sessions)
  <1>1. Openers(p) \subseteq Sessions
    BY DEF Openers
  <1> QED
    BY <1>1, FS_Subset, FS_CardinalityType, LegacyAssumption

\* A file without handles is open in no session.
LEMMA NobodyHas ==
    ASSUME CountInv, NEW p \in Paths, handles[p] = 0, NEW t \in Sessions
    PROVE  ses[t].file # p
  <1>1. Cardinality(Openers(p)) = 0
    BY DEF CountInv, HandlesInv
  <1>2. Openers(p) = {}
    BY <1>1, OpenersFinite, FS_EmptySet
  <1> QED
    BY <1>2 DEF Openers

-----------------------------------------------------------------------------
(* Counting handles.                                                       *)

\* Each step keeps the count of open files.
LEMMA CountStep ==
    ASSUME IInv, Next
    PROVE  CountInv'
  <1>0. /\ \A t \in Sessions : ses[t] \in SessionType /\ Local(ses[t])
        /\ handles \in [Paths -> Int] /\ ROOT_DIR \notin Paths
    BY PathFacts DEF IInv, SessionsInv, CountInv
  <1>1. process' \in {"up", "terminated"} /\ ncmds' \in 0 .. MaxCmds
    <2>1. process \in {"up", "terminated"} /\ ncmds \in 0 .. MaxCmds /\ MaxCmds \in Nat
      BY LegacyAssumption DEF IInv, CountInv
    <2> DEFINE Counted == process' = process /\ ncmds < MaxCmds /\ ncmds' = ncmds + 1
               Uncounted == process' \in {process, "terminated"} /\ ncmds' = ncmds
    <2>2. ASSUME NEW s \in Sessions,
                 \/ AcceptLoop(s) \/ EndSession(s) \/ Unauthenticated(s) \/ PortThrows(s)
                 \/ OpenData(s) \/ OpenFails(s) \/ RecvChunk(s) \/ LoseChunk(s) \/ EndStor(s)
                 \/ SendAll(s) \/ Client(s)
          PROVE  Uncounted
      BY <2>2 DEF AcceptLoop, EndSession, Unauthenticated, PortThrows, OpenData, OpenFails,
                  RecvChunk, LoseChunk, EndStor, EndTransfer, SendAll, Client
    <2>3. ASSUME NEW s \in Sessions,
                 Answer(s) \/ Cdup(s) \/ Pasv(s) \/ Port(s) \/ List(s)
          PROVE  Counted
      BY <2>3 DEF Answer, Cdup, Pasv, Port, List, Command
    <2>4. ASSUME NEW s \in Sessions, NEW name \in Names,
                 \/ Cwd(s, name) \/ Dele(s, name) \/ Mkd(s, name) \/ Rmd(s, name)
                 \/ Rnfr(s, name) \/ Rnto(s, name) \/ Retr(s, name) \/ Stor(s, name)
          PROVE  Counted
      BY <2>4 DEF Cwd, Dele, Mkd, Rmd, Rnfr, Rnto, Retr, Stor, Command
    <2>5. ASSUME NEW s \in Sessions, NEW x, User(s, x) \/ Pass(s, x) PROVE Uncounted
      BY <2>5 DEF User, Pass
    <2>6. Counted \/ Uncounted
      BY <2>2, <2>3, <2>4, <2>5 DEF Next
    <2> QED
      BY <2>1, <2>6
  <1>2. ASSUME AllSame \/ (\E s \in Sessions : RecvChunk(s)), UNCHANGED handles
        PROVE  handles' \in [Paths -> Int] /\ HandlesInv'
    <2>1. \A t \in Sessions : ses'[t].file = ses[t].file
      BY <1>2 DEF AllSame, Same, RecvChunk, IInv, SessionsInv, SessionType
    <2>2. \A p \in Paths : Openers(p)' = Openers(p)
      BY <2>1 DEF Openers
    <2> QED
      BY <1>2, <2>2 DEF IInv, CountInv, HandlesInv
  <1>3. ASSUME NEW s \in Sessions, NEW p \in Paths, Others(s), ses[s].pc = "read",
               ses'[s].file = p, handles' = [handles EXCEPT ![p] = @ + 1]
        PROVE  handles' \in [Paths -> Int] /\ HandlesInv'
    <2>1. ses[s].file = ROOT_DIR
      BY <1>0, <1>3 DEF Local
    <2>2. s \notin Openers(p) /\ Openers(p)' = Openers(p) \cup {s}
      BY <1>0, <1>3, <2>1 DEF Openers, Others, Same
    <2>3. Cardinality(Openers(p) \cup {s}) = Cardinality(Openers(p)) + 1
      BY <2>2, OpenersFinite, FS_AddElement
    <2>4. ASSUME NEW q \in Paths, q # p PROVE Openers(q)' = Openers(q)
      BY <1>0, <1>3, <2>1, <2>4 DEF Openers, Others, Same
    <2>5. ASSUME NEW q \in Paths PROVE handles'[q] = Cardinality(Openers(q)')
      BY <1>0, <1>3, <2>2, <2>3, <2>4 DEF IInv, CountInv, HandlesInv
    <2>6. handles' \in [Paths -> Int]
      BY <1>0, <1>3
    <2> QED
      BY <2>5, <2>6 DEF HandlesInv
  <1>4. ASSUME NEW s \in Sessions, Closes(s)
        PROVE  handles' \in [Paths -> Int] /\ HandlesInv'
    <2>1. PICK p \in Paths \cup {ROOT_DIR} : p = ses[s].file
      BY <1>0 DEF SessionType
    <2>2. ASSUME NEW q \in Paths, q # p PROVE Openers(q)' = Openers(q)
      BY <1>0, <1>4, <2>1, <2>2 DEF Openers, Others, Same, Closes
    <2>3. CASE p = ROOT_DIR
      <3>1. handles' = handles
        BY <1>4, <2>1, <2>3 DEF Closes, Closed
      <3> QED
        BY <1>0, <2>2, <2>3, <3>1 DEF IInv, CountInv, HandlesInv
    <2>4. CASE p \in Paths
      <3>1. handles' = [handles EXCEPT ![p] = @ - 1]
        BY <1>0, <1>4, <2>1, <2>4 DEF Closes, Closed
      <3>2. s \in Openers(p) /\ Openers(p)' = Openers(p) \ {s}
        BY <1>0, <1>4, <2>1, <2>4 DEF Openers, Others, Same, Closes
      <3>3. Cardinality(Openers(p) \ {s}) = Cardinality(Openers(p)) - 1
        BY <3>2, OpenersFinite, FS_RemoveElement
      <3>4. ASSUME NEW q \in Paths PROVE handles'[q] = Cardinality(Openers(q)')
        BY <1>0, <2>2, <2>4, <3>1, <3>2, <3>3 DEF IInv, CountInv, HandlesInv
      <3>5. handles' \in [Paths -> Int]
        BY <1>0, <2>4, <3>1
      <3> QED
        BY <3>4, <3>5 DEF HandlesInv
    <2> QED
      BY <2>1, <2>3, <2>4
  <1>5. ASSUME NEW s \in Sessions, Opens(s, "LIST", ROOT_DIR), UNCHANGED handles
        PROVE  handles' \in [Paths -> Int] /\ HandlesInv'
    <2>1. \A t \in Sessions : ses'[t].file = ses[t].file
      BY <1>0, <1>5 DEF Opens, Others, Same, Local
    <2>2. \A p \in Paths : Openers(p)' = Openers(p)
      BY <2>1 DEF Openers
    <2> QED
      BY <1>5, <2>2 DEF IInv, CountInv, HandlesInv
  <1>6. ASSUME NEW s \in Sessions, NEW name \in Names, Stor(s, name)
        PROVE  handles' \in [Paths -> Int] /\ HandlesInv'
    <2>0. PICK p \in Paths : p = Target(s, name)
      BY <1>6 DEF Stor
    <2>1. CASE Quiet
      BY <1>2, <2>1 DEF Quiet
    <2>2. CASE Stores(s, p)
      <3>1. /\ ses[s].pc = "read"
            /\ handles' = [handles EXCEPT ![p] = @ + 1]
            /\ \A t \in Sessions : ses'[t].file = IF t = s THEN p ELSE ses[t].file
        BY <2>2 DEF Stores
      <3>2. ses[s].file = ROOT_DIR
        BY <1>0, <3>1 DEF Local
      <3>3. s \notin Openers(p) /\ Openers(p)' = Openers(p) \cup {s}
        BY <1>0, <3>1, <3>2 DEF Openers
      <3>4. Cardinality(Openers(p) \cup {s}) = Cardinality(Openers(p)) + 1
        BY <3>3, OpenersFinite, FS_AddElement
      <3>5. ASSUME NEW q \in Paths, q # p PROVE Openers(q)' = Openers(q)
        BY <1>0, <3>1, <3>2, <3>5 DEF Openers
      <3>6. ASSUME NEW q \in Paths PROVE handles'[q] = Cardinality(Openers(q)')
        BY <1>0, <3>1, <3>3, <3>4, <3>5 DEF IInv, CountInv, HandlesInv
      <3>7. handles' \in [Paths -> Int]
        BY <1>0, <3>1
      <3> QED
        BY <3>6, <3>7 DEF HandlesInv
    <2> QED
      BY <1>6, <2>0, <2>1, <2>2, StorFacts DEF IInv
  <1>7. ASSUME NEW s \in Sessions, NEW name \in Names, Retr(s, name),
               Opens(s, "RETR", Target(s, name))
        PROVE  handles' \in [Paths -> Int] /\ HandlesInv'
    <2> DEFINE p == Target(s, name)
    <2>1. p \in Paths
      BY <1>7 DEF Retr
    <2>2. ses'[s].file = p /\ ses[s].file = ROOT_DIR
      BY <1>0, <1>7 DEF Opens, Local
    <2>3. ~Reply(s, 550)
      BY <1>0, <2>1, <2>2 DEF Reply, IInv, SessionsInv, SessionType
    <2>4. handles' = [handles EXCEPT ![p] = @ + 1]
      BY <1>7, <2>3 DEF Retr
    <2> QED
      BY <1>3, <1>7, <2>1, <2>2, <2>4 DEF Opens
  <1>8. handles' \in [Paths -> Int] /\ HandlesInv'
    <2>1. SessionsInv
      BY DEF IInv
    <2>2. CASE Quiet
      BY <1>2, <2>2 DEF Quiet
    <2>3. CASE \E s \in Sessions : RecvChunk(s)
      BY <1>2, <2>3 DEF RecvChunk
    <2>4. ASSUME NEW s \in Sessions, NEW name \in Names, AllSame,
                 Dele(s, name) \/ Mkd(s, name) \/ Rmd(s, name) \/ Rnto(s, name)
          PROVE  handles' \in [Paths -> Int] /\ HandlesInv'
      BY <1>2, <2>4 DEF Dele, Mkd, Rmd, Rnto
    <2> QED
      BY <1>4, <1>5, <1>6, <1>7, <2>1, <2>2, <2>3, <2>4, Effects
  <1> QED
    BY <1>1, <1>8 DEF CountInv

-----------------------------------------------------------------------------
(* The directory tree.                                                     *)

\* Prefixes of paths, by elements.
LEMMA PathPrefix ==
    ASSUME NEW p \in Paths, NEW q \in Paths
    PROVE  /\ IsPrefix(p, q) <=> Len(p) <= Len(q) /\ \A i \in 1 .. Len(p) : p[i] = q[i]
           /\ IsStrictPrefix(p, q) <=> Len(p) < Len(q) /\ \A i \in 1 .. Len(p) : p[i] = q[i]
           /\ p \in Seq(Names) /\ q \in Seq(Names)
           /\ Len(p) \in Nat /\ Len(q) \in Nat /\ Len(p) >= 1 /\ Len(q) >= 1
  <1>1. p \in Seq(Names) /\ q \in Seq(Names) /\ Len(p) \in 1 .. MaxDepth /\ Len(q) \in 1 .. MaxDepth
    BY PathFacts
  <1>2. IsPrefix(p, q) <=> Len(p) <= Len(q) /\ \A i \in 1 .. Len(p) : p[i] = q[i]
    BY <1>1, PrefixFacts
  <1>3. ASSUME IsPrefix(p, q), Len(p) = Len(q) PROVE p = q
    BY <1>1, <1>2, <1>3, SeqEqual
  <1>4. Len(p) \in Nat /\ Len(q) \in Nat /\ Len(p) >= 1 /\ Len(q) >= 1
    BY <1>1, LegacyAssumption
  <1>5. ASSUME Len(p) < Len(q) PROVE p # q
    BY <1>4, <1>5
  <1> QED
    BY <1>1, <1>2, <1>3, <1>4, <1>5 DEF IsStrictPrefix

\* A prefix of a prefix.
LEMMA PrefixTrans ==
    ASSUME NEW p \in Paths, NEW q \in Paths, NEW r \in Paths, IsPrefix(p, q), IsPrefix(q, r)
    PROVE  IsPrefix(p, r)
  <1>1. /\ Len(p) <= Len(q) /\ \A i \in 1 .. Len(p) : p[i] = q[i]
        /\ Len(q) <= Len(r) /\ \A i \in 1 .. Len(q) : q[i] = r[i]
        /\ Len(p) \in Nat /\ Len(q) \in Nat /\ Len(r) \in Nat
    BY PathPrefix
  <1>2. \A i \in 1 .. Len(p) : i \in 1 .. Len(q)
    BY <1>1
  <1>3. Len(p) <= Len(r) /\ \A i \in 1 .. Len(p) : p[i] = r[i]
    BY <1>1, <1>2
  <1> QED
    BY <1>3, PathPrefix

\* Of two prefixes of a path the shorter is a prefix of the longer.
LEMMA PrefixesCompare ==
    ASSUME NEW p \in Paths, NEW q \in Paths, NEW r \in Paths, IsPrefix(p, r), IsPrefix(q, r)
    PROVE  IsPrefix(q, p) \/ IsStrictPrefix(p, q)
  <1>1. /\ \A i \in 1 .. Len(p) : p[i] = r[i]
        /\ \A i \in 1 .. Len(q) : q[i] = r[i]
        /\ Len(p) \in Nat /\ Len(q) \in Nat
    BY PathPrefix
  <1>2. CASE Len(p) < Len(q)
    <2>1. \A i \in 1 .. Len(p) : p[i] = q[i]
      BY <1>1, <1>2
    <2> QED
      BY <1>2, <2>1, PathPrefix
  <1>3. CASE Len(q) <= Len(p)
    <2>1. \A i \in 1 .. Len(q) : q[i] = p[i]
      BY <1>1, <1>3
    <2> QED
      BY <1>3, <2>1, PathPrefix
  <1> QED
    BY <1>1, <1>2, <1>3

\* All parents of a path are directories when the last one is.
LEMMA ParentsDirs ==
    ASSUME TreeInv, fs \in [Paths -> Entries], NEW p \in Paths, IsDir(Front(p)),
           NEW r \in Paths, IsStrictPrefix(r, p)
    PROVE  fs[r].kind = "dir"
  <1> DEFINE f == Front(p)
  <1>1. /\ f \in Paths \cup {ROOT_DIR} /\ f \in Seq(Names) /\ Len(f) = Len(p) - 1
        /\ \A i \in 1 .. Len(p) - 1 : f[i] = p[i]
        /\ Len(p) = 1 <=> f = ROOT_DIR
        /\ IsDir(f)
    BY FrontFacts
  <1> HIDE DEF f
  <1>2. /\ Len(r) < Len(p) /\ \A i \in 1 .. Len(r) : r[i] = p[i]
        /\ Len(r) \in Nat /\ Len(p) \in Nat /\ Len(r) >= 1
    BY PathPrefix
  <1>3. f \in Paths /\ fs[f].kind = "dir"
    <2>1. ASSUME Len(p) = 1 PROVE FALSE
      BY <1>2, <2>1
    <2> QED
      BY <1>1, <2>1 DEF IsDir
  <1>4. Exists(f)
    BY <1>3, EntryFacts DEF Exists
  <1>5. \A i \in 1 .. Len(r) : r[i] = f[i]
    BY <1>1, <1>2
  <1>6. CASE Len(r) = Len(f)
    <2>1. r \in Seq(Names)
      BY PathFacts
    <2>2. r = f
      BY <1>1, <1>5, <1>6, <2>1, SeqEqual
    <2> QED
      BY <1>3, <2>2
  <1>7. CASE Len(r) < Len(f)
    <2>1. IsStrictPrefix(r, f)
      BY <1>3, <1>5, <1>7, PathPrefix
    <2> QED
      BY <1>3, <1>4, <2>1 DEF TreeInv
  <1> QED
    BY <1>1, <1>2, <1>6, <1>7

\* Where a path below new comes from when MoveFile has made new of old.
From(old, new, q) == old \o SubSeq(q, Len(new) + 1, Len(q))

\* That path, by elements.
LEMMA FromFacts ==
    ASSUME NEW old \in Seq(Names), NEW new \in Seq(Names), NEW q \in Seq(Names),
           Len(new) <= Len(q)
    PROVE  /\ From(old, new, q) \in Seq(Names)
           /\ Len(From(old, new, q)) = Len(old) + Len(q) - Len(new)
           /\ \A i \in 1 .. Len(old) : From(old, new, q)[i] = old[i]
           /\ \A i \in 1 .. Len(q) - Len(new) :
                 From(old, new, q)[Len(old) + i] = q[Len(new) + i]
  <1> DEFINE r == SubSeq(q, Len(new) + 1, Len(q))
  <1>1. Len(new) \in Nat /\ Len(q) \in Nat /\ Len(old) \in Nat
    OBVIOUS
  <1>2. /\ r \in Seq(Names) /\ Len(r) = Len(q) - Len(new)
        /\ \A i \in 1 .. Len(q) - Len(new) : r[i] = q[Len(new) + i]
    BY <1>1
  <1> QED
    BY <1>1, <1>2 DEF From

\* What was above a moved path is above where it came from.
LEMMA FromStrict ==
    ASSUME NEW old \in Paths, NEW new \in Paths, NEW q \in Paths, NEW r \in Paths,
           IsPrefix(new, r), IsStrictPrefix(r, q), From(old, new, q) \in Paths
    PROVE  From(old, new, r) \in Paths
           /\ IsStrictPrefix(From(old, new, r), From(old, new, q))
  <1> DEFINE a == From(old, new, r)
             b == From(old, new, q)
  <1>1. /\ Len(new) <= Len(r) /\ Len(r) < Len(q) /\ \A i \in 1 .. Len(r) : r[i] = q[i]
        /\ Len(new) \in Nat /\ Len(r) \in Nat /\ Len(q) \in Nat /\ Len(old) \in Nat
        /\ Len(old) >= 1 /\ Len(new) <= Len(q)
        /\ {old, new, q, r} \subseteq Seq(Names)
    BY PathPrefix
  <1>2. /\ a \in Seq(Names) /\ Len(a) = Len(old) + Len(r) - Len(new)
        /\ \A i \in 1 .. Len(old) : a[i] = old[i]
        /\ \A i \in 1 .. Len(r) - Len(new) : a[Len(old) + i] = r[Len(new) + i]
    BY <1>1, FromFacts
  <1>3. /\ b \in Seq(Names) /\ Len(b) = Len(old) + Len(q) - Len(new)
        /\ \A i \in 1 .. Len(old) : b[i] = old[i]
        /\ \A i \in 1 .. Len(q) - Len(new) : b[Len(old) + i] = q[Len(new) + i]
    BY <1>1, FromFacts
  <1>4. b \in Paths
    OBVIOUS
  <1> HIDE DEF a, b
  <1>5. Len(b) \in 1 .. MaxDepth /\ MaxDepth \in Nat
    BY <1>4, PathFacts, LegacyAssumption
  <1>6. Len(a) \in 1 .. MaxDepth /\ Len(a) < Len(b)
    BY <1>1, <1>2, <1>3, <1>5
  <1>7. a \in Paths
    BY <1>2, <1>6, PathFacts
  <1>8. ASSUME NEW i \in 1 .. Len(a) PROVE a[i] = b[i]
    <2>1. CASE i <= Len(old)
      <3>1. i \in 1 .. Len(old)
        BY <1>1, <2>1
      <3> QED
        BY <1>2, <1>3, <3>1
    <2>2. CASE i > Len(old)
      <3> DEFINE k == i - Len(old)
      <3>1. /\ k \in 1 .. Len(r) - Len(new) /\ k \in 1 .. Len(q) - Len(new)
            /\ Len(new) + k \in 1 .. Len(r) /\ i = Len(old) + k
        BY <1>1, <1>2, <2>2
      <3> HIDE DEF k
      <3>2. a[Len(old) + k] = r[Len(new) + k] /\ b[Len(old) + k] = q[Len(new) + k]
        BY <1>2, <1>3, <3>1
      <3>3. r[Len(new) + k] = q[Len(new) + k]
        BY <1>1, <3>1
      <3> QED
        BY <3>1, <3>2, <3>3
    <2> QED
      BY <1>1, <2>1, <2>2
  <1>9. IsStrictPrefix(a, b)
    BY <1>4, <1>6, <1>7, <1>8, PathPrefix
  <1> QED
    BY <1>7, <1>9 DEF a, b

\* MoveFile onto a free name leaves a tree.
LEMMA MovedTree ==
    ASSUME TreeInv, fs \in [Paths -> Entries], NEW old \in Paths, NEW new \in Paths,
           IsDir(Front(new)),
           NEW q \in Paths, NEW r \in Paths,
           Moved(old, new)[q] # NoEntry, IsStrictPrefix(r, q)
    PROVE  Moved(old, new)[r].kind = "dir"
  <1>1. \A x \in Paths : Moved(old, new)[x] =
            IF IsPrefix(old, x) THEN NoEntry
            ELSE IF IsPrefix(new, x)
                 THEN IF From(old, new, x) \in Paths THEN fs[From(old, new, x)] ELSE NoEntry
                 ELSE fs[x]
    BY DEF Moved, From
  <1>2. IsPrefix(r, q)
    BY DEF IsStrictPrefix
  <1>3. ~IsPrefix(old, q) /\ ~IsPrefix(old, r)
    BY <1>1, <1>2, PrefixTrans
  <1>4. CASE IsPrefix(new, q) /\ IsPrefix(new, r)
    <2>1. From(old, new, q) \in Paths /\ fs[From(old, new, q)] # NoEntry
      BY <1>1, <1>3, <1>4
    <2>2. From(old, new, r) \in Paths /\ IsStrictPrefix(From(old, new, r), From(old, new, q))
      BY <1>4, <2>1, FromStrict
    <2>3. fs[From(old, new, r)].kind = "dir"
      BY <2>1, <2>2 DEF TreeInv, Exists
    <2> QED
      BY <1>1, <1>3, <1>4, <2>2, <2>3
  <1>5. CASE IsPrefix(new, q) /\ ~IsPrefix(new, r)
    <2>1. IsStrictPrefix(r, new)
      BY <1>2, <1>5, PrefixesCompare
    <2>2. fs[r].kind = "dir"
      BY <2>1, ParentsDirs
    <2> QED
      BY <1>1, <1>3, <1>5, <2>2
  <1>6. CASE ~IsPrefix(new, q)
    <2>1. ~IsPrefix(new, r)
      BY <1>2, <1>6, PrefixTrans
    <2>2. fs[r].kind = "dir"
      BY <1>1, <1>3, <1>6 DEF TreeInv, Exists
    <2> QED
      BY <1>1, <1>3, <2>1, <2>2
  <1> QED
    BY <1>4, <1>5, <1>6

\* A change of the tree that leaves every open file alone.
LEMMA TreeChange ==
    ASSUME IInv, SessionsInv', AllSame, fs' \in [Paths -> Entries], TreeInv',
           \A t \in Sessions : ses[t].file \in Paths => fs'[ses[t].file] = fs[ses[t].file]
    PROVE  FilesInv'
  <1>0. \A t \in Sessions :
            /\ ses[t] \in SessionType /\ Local(ses[t])
            /\ ses'[t].file = ses[t].file /\ ses'[t].verb = ses[t].verb
            /\ ses'[t].alone = ses[t].alone
            /\ ses'[t].sent - (ses'[t].net + ses'[t].lost)
                = ses[t].sent - (ses[t].net + ses[t].lost)
    BY DEF IInv, SessionsInv, AllSame, Same
  <1>1. OpenInv'
    BY <1>0 DEF OpenInv, IsFile, IInv, FilesInv
  <1>2. StoredInv'
    <2> SUFFICES ASSUME NEW t \in Sessions, ses[t].verb = "STOR"
                 PROVE  LET e == fs[ses[t].file]
                        IN  /\ e.by = t => e.len + ses'[t].net + ses'[t].lost = ses'[t].sent
                            /\ ses[t].alone => e.by = t
      BY <1>0 DEF StoredInv, Local
    <2>1. /\ ses[t].sent \in Nat /\ ses[t].net \in Nat /\ ses[t].lost \in Nat
          /\ ses'[t].sent \in Nat /\ ses'[t].net \in Nat /\ ses'[t].lost \in Nat
      BY <1>0, LegacyAssumption DEF SessionsInv, SessionType
    <2>2. ses[t].file \in Paths /\ fs[ses[t].file] \in Entries /\ fs[ses[t].file].kind = "file"
      BY <1>0 DEF Local, IInv, FilesInv, OpenInv, IsFile
    <2>3. fs[ses[t].file].len \in Nat
      BY <2>2, EntryFacts, LegacyAssumption
    <2>4. /\ fs[ses[t].file].by = t =>
                fs[ses[t].file].len + ses[t].net + ses[t].lost = ses[t].sent
          /\ ses[t].alone => fs[ses[t].file].by = t
      BY DEF IInv, FilesInv, StoredInv
    <2>5. ses'[t].sent - (ses'[t].net + ses'[t].lost)
                = ses[t].sent - (ses[t].net + ses[t].lost)
      BY <1>0
    <2> QED
      BY <2>1, <2>3, <2>4, <2>5
  <1>3. AloneInv'
    BY <1>0 DEF AloneInv, IInv, FilesInv
  <1> QED
    BY <1>1, <1>2, <1>3 DEF FilesInv

-----------------------------------------------------------------------------
(* The files.                                                              *)

\* A session's file is held open.
LEMMA HeldOpen ==
    ASSUME IInv, NEW t \in Sessions, ses[t].file \in Paths
    PROVE  /\ fs[ses[t].file].kind = "file" /\ Exists(ses[t].file)
           /\ handles[ses[t].file] # 0
  <1>1. fs[ses[t].file].kind = "file" /\ fs[ses[t].file] \in Entries
    BY DEF IInv, FilesInv, OpenInv, IsFile
  <1>2. Exists(ses[t].file)
    BY <1>1, EntryFacts DEF Exists
  <1>3. ASSUME handles[ses[t].file] = 0 PROVE FALSE
    BY <1>3, NobodyHas DEF IInv
  <1> QED
    BY <1>1, <1>2, <1>3

\* Stored data is not touched by a step that leaves the files and the other uploads
\* alone.
LEMMA KeepsStored ==
    ASSUME IInv, SessionsInv', UNCHANGED fs, NEW s \in Sessions,
           \A t \in Sessions \ {s} : Same(ses'[t], ses[t]), ses'[s].verb # "STOR"
    PROVE  StoredInv'
  <1> SUFFICES ASSUME NEW t \in Sessions, ses'[t].verb = "STOR"
               PROVE  LET e == fs[ses'[t].file]
                      IN  /\ e.by = t => e.len + ses'[t].net + ses'[t].lost = ses'[t].sent
                          /\ ses'[t].alone => e.by = t
    BY DEF StoredInv
  <1>1. t # s
    OBVIOUS
  <1>2. /\ ses'[t].file = ses[t].file /\ ses[t].verb = "STOR" /\ ses'[t].alone = ses[t].alone
        /\ ses'[t].sent - (ses'[t].net + ses'[t].lost)
                = ses[t].sent - (ses[t].net + ses[t].lost)
    BY <1>1 DEF Same
  <1>3. /\ ses[t].sent \in Nat /\ ses[t].net \in Nat /\ ses[t].lost \in Nat
        /\ ses'[t].sent \in Nat /\ ses'[t].net \in Nat /\ ses'[t].lost \in Nat
    BY LegacyAssumption DEF SessionsInv, SessionType, IInv
  <1>4. ses[t].file \in Paths
    BY <1>2 DEF Local, IInv, SessionsInv
  <1>5. fs[ses[t].file] \in Entries /\ fs[ses[t].file].kind = "file"
    BY <1>4 DEF IInv, FilesInv, OpenInv, IsFile
  <1>6. fs[ses[t].file].len \in Nat
    BY <1>5, EntryFacts, LegacyAssumption
  <1>7. /\ fs[ses[t].file].by = t =>
                fs[ses[t].file].len + ses[t].net + ses[t].lost = ses[t].sent
        /\ ses[t].alone => fs[ses[t].file].by = t
    BY <1>2 DEF IInv, FilesInv, StoredInv
  <1> QED
    BY <1>2, <1>3, <1>6, <1>7

\* Each step keeps the tree, and what is in the files.
LEMMA FilesStep ==
    ASSUME IInv, SessionsInv', Next
    PROVE  FilesInv'
  <1>0. /\ fs \in [Paths -> Entries] /\ TreeInv /\ SessionsInv
        /\ \A t \in Sessions : ses[t] \in SessionType /\ Local(ses[t])
        /\ NoEntry \in Entries /\ Dir \in Entries /\ Dir.kind = "dir" /\ Dir # NoEntry
        /\ ROOT_DIR \notin Paths
    <2>1. Dir.kind = "dir" /\ NoEntry.kind = "none"
      BY DEF Dir, NoEntry
    <2>2. NoEntry \in Entries /\ Dir \in Entries
      BY DEF Entries
    <2> QED
      BY <2>1, <2>2, PathFacts DEF IInv, FilesInv, SessionsInv
  <1>1. CASE Quiet
    <2>1. AllSame /\ fs' = fs
      BY <1>1 DEF Quiet
    <2>2. TreeInv'
      BY <1>0, <2>1 DEF TreeInv, Exists
    <2> QED
      BY <1>0, <2>1, <2>2, TreeChange
  <1>2. ASSUME NEW s \in Sessions, Closes(s) \/ Opens(s, "LIST", ROOT_DIR), UNCHANGED fs
        PROVE  FilesInv'
    <2>1. TreeInv'
      BY <1>0, <1>2 DEF TreeInv, Exists
    <2>2. /\ \A t \in Sessions \ {s} : Same(ses'[t], ses[t])
          /\ ses'[s].file \notin Paths /\ ses'[s].verb # "STOR" /\ ~ses'[s].alone
      BY <1>0, <1>2 DEF Closes, Opens, Others, Local
    <2>3. OpenInv'
      BY <1>0, <1>2, <2>2 DEF OpenInv, IsFile, IInv, FilesInv, Same
    <2>4. StoredInv'
      BY <1>0, <1>2, <2>2, KeepsStored DEF IInv, FilesInv
    <2>5. AloneInv'
      BY <1>0, <2>2 DEF AloneInv, IInv, FilesInv, Same
    <2> QED
      BY <1>0, <1>2, <2>1, <2>3, <2>4, <2>5 DEF FilesInv
  <1>3. ASSUME NEW s \in Sessions, NEW name \in Names, Dele(s, name), AllSame
        PROVE  FilesInv'
    <2>1. PICK p \in Paths : p = Target(s, name)
      BY <1>3 DEF Dele
    <2>2. CASE UNCHANGED fs
      BY <1>1, <1>3, <2>2 DEF Quiet, Dele
    <2>3. CASE IsFile(p) /\ handles[p] = 0 /\ fs' = [fs EXCEPT ![p] = NoEntry]
      <3>1. fs' \in [Paths -> Entries]
        BY <1>0, <2>3
      <3>2. TreeInv'
        BY <1>0, <2>3 DEF TreeInv, Exists, IsFile
      <3>3. \A t \in Sessions : ses[t].file # p
        BY <2>3, NobodyHas DEF IInv
      <3> QED
        BY <1>0, <1>3, <2>3, <3>1, <3>2, <3>3, TreeChange
    <2> QED
      BY <1>3, <2>1, <2>2, <2>3 DEF Dele
  <1>4. ASSUME NEW s \in Sessions, NEW name \in Names, Mkd(s, name), AllSame
        PROVE  FilesInv'
    <2>1. PICK p \in Paths : p = Target(s, name)
      BY <1>4 DEF Mkd
    <2>2. CASE UNCHANGED fs
      BY <1>1, <1>4, <2>2 DEF Quiet, Mkd
    <2>3. CASE IsDir(Front(p)) /\ ~Exists(p) /\ fs' = [fs EXCEPT ![p] = Dir]
      <3>1. fs' \in [Paths -> Entries]
        BY <1>0, <2>3
      <3>2. \A r \in Paths : IsStrictPrefix(r, p) => fs[r].kind = "dir"
        BY <1>0, <2>3, ParentsDirs
      <3>3. TreeInv'
        BY <1>0, <2>3, <3>2 DEF TreeInv, Exists
      <3>4. \A t \in Sessions : ses[t].file # p
        BY <2>3, HeldOpen
      <3> QED
        BY <1>0, <1>4, <2>3, <3>1, <3>3, <3>4, TreeChange
    <2> QED
      BY <1>4, <2>1, <2>2, <2>3 DEF Mkd
  <1>5. ASSUME NEW s \in Sessions, NEW name \in Names, Rmd(s, name), AllSame
        PROVE  FilesInv'
    <2>1. PICK p \in Paths : p = Target(s, name)
      BY <1>5 DEF Rmd
    <2>2. CASE UNCHANGED fs
      BY <1>1, <1>5, <2>2 DEF Quiet, Rmd
    <2>3. CASE /\ IsDir(p) /\ \A q \in Below(p) : ~Exists(q)
               /\ fs' = [fs EXCEPT ![p] = NoEntry]
      <3>1. fs' \in [Paths -> Entries]
        BY <1>0, <2>3
      <3>2. TreeInv'
        BY <1>0, <2>3 DEF TreeInv, Exists, Below
      <3>3. fs[p].kind = "dir"
        BY <1>0, <2>3 DEF IsDir
      <3>4. \A t \in Sessions : ses[t].file # p
        BY <3>3, HeldOpen
      <3> QED
        BY <1>0, <1>5, <2>3, <3>1, <3>2, <3>4, TreeChange
    <2> QED
      BY <1>5, <2>1, <2>2, <2>3 DEF Rmd
  <1>6. ASSUME NEW s \in Sessions, NEW name \in Names, Rnto(s, name), AllSame
        PROVE  FilesInv'
    <2>1. PICK new \in Paths : new = Target(s, name)
      BY <1>6 DEF Rnto
    <2>2. PICK old \in Paths \cup {ROOT_DIR} : old = ses[s].renameFrom
      BY <1>0 DEF SessionType
    <2>3. CASE UNCHANGED fs
      BY <1>1, <1>6, <2>3 DEF Quiet, Rnto
    <2>4. CASE old \in Paths /\ Movable(old, new) /\ old # new /\ fs' = Moved(old, new)
      <3>1. /\ ~Exists(new) /\ IsDir(Front(new)) /\ ~IsPrefix(old, new)
            /\ \A q \in Below(old) \cup {old} : handles[q] = 0
        BY <2>4 DEF Movable
      <3>2. fs' \in [Paths -> Entries]
        BY <1>0, <2>4 DEF Moved
      <3>3. TreeInv'
        BY <1>0, <2>4, <3>1, MovedTree DEF TreeInv, Exists
      <3>4. ASSUME NEW t \in Sessions, ses[t].file \in Paths
            PROVE  fs'[ses[t].file] = fs[ses[t].file]
        <4> DEFINE f == ses[t].file
        <4>1. f \in Paths /\ Exists(f) /\ handles[f] # 0
          BY <3>4, HeldOpen
        <4>2. ~IsPrefix(old, f)
          BY <3>1, <4>1 DEF Below, IsStrictPrefix
        <4>3. ~IsPrefix(new, f)
          <5> SUFFICES ASSUME IsPrefix(new, f) PROVE FALSE
            OBVIOUS
          <5>1. f # new
            BY <3>1, <4>1
          <5>2. IsStrictPrefix(new, f)
            BY <5>1 DEF IsStrictPrefix
          <5>3. fs[new].kind = "dir"
            BY <1>0, <4>1, <5>2 DEF TreeInv
          <5> QED
            BY <1>0, <3>1, <5>3, EntryFacts DEF Exists
        <4> QED
          BY <2>4, <4>1, <4>2, <4>3 DEF Moved
      <3> QED
        BY <1>6, <3>2, <3>3, <3>4, TreeChange
    <2> QED
      BY <1>6, <2>1, <2>2, <2>3, <2>4 DEF Rnto
  <1>7. ASSUME NEW s \in Sessions, NEW name \in Names, Retr(s, name),
               Opens(s, "RETR", Target(s, name))
        PROVE  FilesInv'
    <2>1. PICK p \in Paths : p = Target(s, name)
      BY <1>7 DEF Retr
    <2>2. /\ fs' = fs /\ ses[s].file = ROOT_DIR /\ ses'[s].file = p /\ ses'[s].verb = "RETR"
          /\ ~ses'[s].alone /\ \A t \in Sessions \ {s} : Same(ses'[t], ses[t])
      BY <1>0, <1>7, <2>1 DEF Retr, Opens, Others, Local
    <2>3. ~Reply(s, 550)
      BY <1>0, <2>2 DEF Reply, SessionsInv, SessionType
    <2>4. fs[p].kind = "file"
      BY <1>7, <2>1, <2>3 DEF Retr, IsFile
    <2>5. TreeInv'
      BY <1>0, <2>2 DEF TreeInv, Exists
    <2>6. OpenInv'
      BY <1>0, <2>2, <2>4 DEF OpenInv, IsFile, IInv, FilesInv, Same
    <2>7. StoredInv'
      BY <2>2, KeepsStored
    <2>8. AloneInv'
      BY <1>0, <2>2 DEF AloneInv, IInv, FilesInv, Same
    <2> QED
      BY <1>0, <2>2, <2>5, <2>6, <2>7, <2>8 DEF FilesInv
  <1>8. ASSUME NEW s \in Sessions, NEW p \in Paths, Stores(s, p)
        PROVE  FilesInv'
    <2>1. File(s, 0) \in Entries /\ File(s, 0).kind = "file" /\ File(s, 0).by = s
          /\ File(s, 0).len = 0
      BY LegacyAssumption DEF Entries, File
    <2>2. fs' \in [Paths -> Entries] /\ fs'[p] = File(s, 0) /\ \A q \in Paths \ {p} : fs'[q] = fs[q]
      BY <1>0, <1>8, <2>1 DEF Stores
    <2>3. \A r \in Paths : IsStrictPrefix(r, p) => fs[r].kind = "dir"
      BY <1>0, <1>8, ParentsDirs DEF Stores
    <2>4. ASSUME NEW r \in Paths, IsStrictPrefix(r, p) PROVE r # p
      BY <2>4 DEF IsStrictPrefix
    <2>5. fs[p].kind # "dir"
      BY <1>8 DEF Stores
    <2>6. TreeInv'
      <3> SUFFICES ASSUME NEW q \in Paths, NEW r \in Paths, fs'[q] # NoEntry, IsStrictPrefix(r, q)
                   PROVE  fs'[r].kind = "dir"
        BY DEF TreeInv, Exists
      <3>1. CASE q = p
        BY <2>2, <2>3, <2>4, <3>1
      <3>2. CASE q # p
        <4>1. fs[r].kind = "dir"
          BY <1>0, <2>2, <3>2 DEF TreeInv, Exists
        <4> QED
          BY <2>2, <2>5, <4>1
      <3> QED
        BY <3>1, <3>2
    <2>7. OpenInv'
      <3> SUFFICES ASSUME NEW t \in Sessions, ses'[t].file \in Paths
                   PROVE  fs'[ses'[t].file].kind = "file"
        BY DEF OpenInv, IsFile
      <3>1. ses'[t].file = p \/ ses'[t].file = ses[t].file
        BY <1>8 DEF Stores
      <3> QED
        BY <2>1, <2>2, <3>1 DEF OpenInv, IsFile, IInv, FilesInv
    <2>8. StoredInv'
      <3> SUFFICES ASSUME NEW t \in Sessions, ses'[t].verb = "STOR"
                   PROVE  LET e == fs'[ses'[t].file]
                          IN  /\ e.by = t => e.len + ses'[t].net + ses'[t].lost = ses'[t].sent
                              /\ ses'[t].alone => e.by = t
        BY DEF StoredInv
      <3>1. CASE t = s
        <4>1. ses'[s].file = p /\ ses'[s].sent = 0 /\ ses'[s].net = 0 /\ ses'[s].lost = 0
          BY <1>0, <1>8 DEF Stores, Local, SessionType
        <4> QED
          BY <2>1, <2>2, <3>1, <4>1
      <3>2. CASE t # s
        <4>1. /\ ses'[t].file = ses[t].file /\ ses[t].verb = "STOR"
              /\ ses'[t].sent = ses[t].sent /\ ses'[t].net = ses[t].net
              /\ ses'[t].lost = ses[t].lost
              /\ ses'[t].alone => ses[t].alone /\ ses[t].file # p
          BY <1>8, <3>2 DEF Stores
        <4>2. ses[t].file \in Paths
          BY <1>0, <4>1 DEF Local
        <4>3. CASE ses[t].file = p
          BY <2>1, <2>2, <3>2, <4>1, <4>3
        <4>4. CASE ses[t].file # p
          BY <2>2, <4>1, <4>2, <4>4 DEF IInv, FilesInv, StoredInv
        <4> QED
          BY <4>3, <4>4
      <3> QED
        BY <3>1, <3>2
    <2>9. AloneInv'
      <3> SUFFICES ASSUME NEW x \in Sessions, NEW y \in Sessions, x # y,
                          ses'[x].alone, ses'[y].verb = "STOR"
                   PROVE  ses'[x].file # ses'[y].file
        BY DEF AloneInv
      <3>1. CASE x = s
        <4>1. handles[p] = 0 /\ ses'[x].file = p /\ ses'[y].file = ses[y].file
          BY <1>8, <3>1 DEF Stores
        <4> QED
          BY <4>1, NobodyHas DEF IInv
      <3>2. CASE y = s
        BY <1>8, <3>2 DEF Stores
      <3>3. CASE x # s /\ y # s
        <4>1. /\ ses'[x].file = ses[x].file /\ ses'[y].file = ses[y].file
              /\ ses[x].alone /\ ses[y].verb = "STOR"
          BY <1>8, <3>3 DEF Stores
        <4> QED
          BY <4>1 DEF AloneInv, IInv, FilesInv
      <3> QED
        BY <3>1, <3>2, <3>3
    <2> QED
      BY <2>2, <2>6, <2>7, <2>8, <2>9 DEF FilesInv
  <1>9. ASSUME NEW s \in Sessions, RecvChunk(s)
        PROVE  FilesInv'
    <2>1. PICK p \in Paths : p = ses[s].file
      BY <1>0, <1>9 DEF RecvChunk, Local
    <2>2. /\ ses[s].verb = "STOR" /\ ses[s].net > 0
          /\ ses' = [ses EXCEPT ![s].net = @ - 1]
          /\ fs' = [fs EXCEPT ![p] = IF @.by = s THEN File(s, @.len + 1) ELSE File(Mixed, 0)]
      BY <1>9, <2>1 DEF RecvChunk
    <2>3. /\ \A t \in Sessions : /\ ses'[t].file = ses[t].file /\ ses'[t].verb = ses[t].verb
                                 /\ ses'[t].alone = ses[t].alone /\ ses'[t].sent = ses[t].sent
          /\ \A t \in Sessions \ {s} : ses'[t].net = ses[t].net
          /\ ses'[s].net = ses[s].net - 1
          /\ \A t \in Sessions : ses'[t].lost = ses[t].lost
      BY <1>0, <2>2 DEF SessionsInv, SessionType
    <2>4. /\ fs[p] \in Entries /\ fs[p].kind = "file" /\ fs[p].len \in Nat
          /\ ses[s].net \in Nat /\ ses[s].lost \in Nat
          /\ ses[s].sent \in 0 .. MaxBytes /\ MaxBytes \in Nat
      <3>1. fs[p] \in Entries /\ fs[p].kind = "file"
        BY <1>0, <2>1, HeldOpen
      <3> QED
        BY <1>0, <3>1, EntryFacts, LegacyAssumption DEF SessionType
    <2>5. fs[p].by = s => fs[p].len + ses[s].net + ses[s].lost = ses[s].sent
      BY <2>1, <2>2 DEF IInv, FilesInv, StoredInv
    <2> DEFINE e == IF fs[p].by = s THEN File(s, fs[p].len + 1) ELSE File(Mixed, 0)
    <2>6. /\ e.kind = "file" /\ e \in Entries
          /\ fs[p].by = s => e.by = s /\ e.len = fs[p].len + 1
          /\ fs[p].by # s => e.by = Mixed
      <3>1. fs[p].by = s => fs[p].len + 1 \in 0 .. MaxBytes
        BY <2>2, <2>4, <2>5
      <3> QED
        BY <3>1, <2>4 DEF Entries, File
    <2>7. fs' \in [Paths -> Entries] /\ fs'[p] = e /\ \A q \in Paths \ {p} : fs'[q] = fs[q]
      BY <1>0, <2>2, <2>6
    <2> HIDE DEF e
    <2>8. TreeInv'
      <3> SUFFICES ASSUME NEW q \in Paths, NEW r \in Paths, fs'[q] # NoEntry, IsStrictPrefix(r, q)
                   PROVE  fs'[r].kind = "dir"
        BY DEF TreeInv, Exists
      <3>1. fs[q] # NoEntry
        BY <2>4, <2>7, EntryFacts
      <3>2. fs[r].kind = "dir"
        BY <1>0, <3>1 DEF TreeInv, Exists
      <3> QED
        BY <2>4, <2>7, <3>2
    <2>9. OpenInv'
      BY <2>3, <2>6, <2>7 DEF OpenInv, IsFile, IInv, FilesInv
    <2>10. StoredInv'
      <3> SUFFICES ASSUME NEW t \in Sessions, ses[t].verb = "STOR"
                   PROVE  /\ fs'[ses[t].file].by = t =>
                                fs'[ses[t].file].len + ses'[t].net + ses'[t].lost = ses[t].sent
                          /\ ses[t].alone => fs'[ses[t].file].by = t
        BY <2>3 DEF StoredInv
      <3>1. ses[t].file \in Paths
        BY <1>0 DEF Local
      <3>2. /\ fs[ses[t].file].by = t =>
                fs[ses[t].file].len + ses[t].net + ses[t].lost = ses[t].sent
            /\ ses[t].alone => fs[ses[t].file].by = t
        BY DEF IInv, FilesInv, StoredInv
      <3>3. CASE t = s
        BY <2>1, <2>3, <2>4, <2>5, <2>6, <2>7, <3>2, <3>3, LegacyAssumption
      <3>4. CASE t # s /\ ses[t].file = p
        <4>1. ~ses[t].alone
          BY <2>1, <2>2, <3>4 DEF AloneInv, IInv, FilesInv
        <4>2. e.by # t
          BY <2>6, <3>4, LegacyAssumption
        <4> QED
          BY <2>7, <3>4, <4>1, <4>2
      <3>5. CASE t # s /\ ses[t].file # p
        BY <2>3, <2>7, <3>1, <3>2, <3>5
      <3> QED
        BY <3>3, <3>4, <3>5
    <2>11. AloneInv'
      BY <2>3 DEF AloneInv, IInv, FilesInv
    <2> QED
      BY <2>7, <2>8, <2>9, <2>10, <2>11 DEF FilesInv
  <1>10. ASSUME NEW s \in Sessions, NEW name \in Names, Stor(s, name)
         PROVE  FilesInv'
    <2>1. PICK p \in Paths : p = Target(s, name)
      BY <1>10 DEF Stor
    <2> QED
      BY <1>0, <1>1, <1>8, <1>10, <2>1, StorFacts
  <1>11. ASSUME NEW s \in Sessions, Closes(s) PROVE FilesInv'
    BY <1>2, <1>11 DEF Closes
  <1> QED
    BY <1>0, <1>1, <1>2, <1>3, <1>4, <1>5, <1>6, <1>7, <1>9, <1>10, <1>11, Effects

\* Only the end of its loop leads an upload from the transfer back to the next
\* command.
LEMMA OnlyEndStor ==
    ASSUME SessionsInv, Next, NEW s \in Sessions,
           ses[s].pc = "data", ses'[s].pc = "read", ses[s].verb = "STOR"
    PROVE  EndStor(s)
  <1>0. /\ \A t \in Sessions : ses[t] \in SessionType /\ Local(ses[t])
        /\ DOMAIN ses = Sessions
    BY DEF SessionsInv
  <1>1. ASSUME NEW t \in Sessions, AcceptLoop(t) \/ EndSession(t) \/ Unauthenticated(t) \/ Answer(t)
        PROVE  EndStor(s)
    BY <1>0, <1>1 DEF AcceptLoop, EndSession, Unauthenticated, Answer, Command, At, Reply,
       SessionType
  <1>2. ASSUME NEW t \in Sessions, Cdup(t) \/ Pasv(t) \/ Port(t) \/ PortThrows(t) \/ List(t)
        PROVE  EndStor(s)
    BY <1>0, <1>2 DEF Cdup, Pasv, Port, PortThrows, List, Begin, Command, At, Reply, SessionType
  <1>3. ASSUME NEW t \in Sessions, OpenData(t) \/ OpenFails(t) PROVE EndStor(s)
    <2>1. t # s
      BY <1>3 DEF OpenData, OpenFails, At
    <2>2. ses'[s] = ses[s]
      BY <1>0, <1>3, <2>1 DEF OpenData, OpenFails
    <2> QED
      BY <2>2
  <1>4. ASSUME NEW t \in Sessions, RecvChunk(t) \/ LoseChunk(t) PROVE EndStor(s)
    BY <1>0, <1>4 DEF RecvChunk, LoseChunk, Command, At, Reply, SessionType
  <1>5. ASSUME NEW t \in Sessions, EndStor(t) PROVE EndStor(s)
    <2>1. CASE t = s
      BY <1>5, <2>1
    <2>2. CASE t # s
      <3>1. ses'[s] = ses[s]
        BY <1>0, <1>5, <2>2 DEF EndStor, EndTransfer
      <3> QED
        BY <3>1
    <2> QED
      BY <2>1, <2>2
  <1>6. ASSUME NEW t \in Sessions, SendAll(t) PROVE EndStor(s)
    BY <1>0, <1>6 DEF SendAll, EndTransfer, At, SessionType
  <1>7. ASSUME NEW t \in Sessions, Client(t) PROVE EndStor(s)
    BY <1>0, <1>7 DEF Client, SessionType
  <1>8. ASSUME NEW t \in Sessions, NEW x, User(t, x) \/ Pass(t, x) PROVE EndStor(s)
    BY <1>0, <1>8 DEF User, Pass, Command, At, Reply, SessionType
  <1>9. ASSUME NEW t \in Sessions, NEW name \in Names,
               Cwd(t, name) \/ Rnfr(t, name) \/ Rnto(t, name)
        PROVE  EndStor(s)
    <2>1. t # s
      BY <1>9 DEF Cwd, Rnfr, Rnto, Command, At
    <2>2. ses'[s] = ses[s]
      BY <1>0, <1>9, <2>1 DEF Cwd, Rnfr, Rnto, Reply
    <2> QED
      BY <2>2
  <1>10. ASSUME NEW t \in Sessions, NEW name \in Names,
               Dele(t, name) \/ Mkd(t, name) \/ Rmd(t, name)
         PROVE  EndStor(s)
    BY <1>0, <1>10 DEF Dele, Mkd, Rmd, Command, At, Reply, SessionType
  <1>11. ASSUME NEW t \in Sessions, NEW name \in Names, Retr(t, name) PROVE EndStor(s)
    BY <1>0, <1>11 DEF Retr, Begin, Command, At, Reply, SessionType
  <1>12. ASSUME NEW t \in Sessions, NEW name \in Names, Stor(t, name) PROVE EndStor(s)
    BY <1>0, <1>12 DEF Stor, Begin, Command, At, Reply, SessionType
  <1> QED
    BY <1>1, <1>2, <1>3, <1>4, <1>5, <1>6, <1>7, <1>8, <1>9, <1>10, <1>11, <1>12 DEF Next

-----------------------------------------------------------------------------
(* The theorems.                                                           *)

\* IInv is an invariant.
LEMMA Inductive == Spec => []IInv
  <1>1. Init => IInv
    <2> SUFFICES ASSUME Init PROVE IInv
      OBVIOUS
    <2>0. MaxBytes \in Nat /\ MaxCmds \in Nat
      BY LegacyAssumption
    <2>1. Fresh \in SessionType
      BY <2>0 DEF Fresh, SessionType
    <2>2. Local(Fresh) /\ Fresh.file = ROOT_DIR /\ Fresh.verb = "none" /\ ~Fresh.alone
      BY DEF Fresh, Local
    <2>3. ses = [s \in Sessions |-> Fresh]
      BY DEF Init
    <2>4. SessionsInv
      BY <2>1, <2>2, <2>3 DEF SessionsInv
    <2>5. ROOT_DIR \notin Paths
      BY PathFacts
    <2>6. OpenInv /\ StoredInv /\ AloneInv
      BY <2>2, <2>3, <2>5 DEF OpenInv, StoredInv, AloneInv
    <2>7. fs \in [Paths -> Entries] /\ TreeInv
      BY DEF Init, TreeInv, Exists, Entries
    <2>8. \A p \in Paths : Openers(p) = {}
      BY <2>2, <2>3, <2>5 DEF Openers
    <2>9. HandlesInv /\ handles \in [Paths -> Int]
      BY <2>8, FS_EmptySet DEF HandlesInv, Init
    <2>10. CountInv
      BY <2>0, <2>9 DEF CountInv, Init
    <2> QED
      BY <2>4, <2>6, <2>7, <2>10 DEF IInv, FilesInv
  <1>2. IInv /\ [Next]_vars => IInv'
    <2> SUFFICES ASSUME IInv, [Next]_vars PROVE IInv'
      OBVIOUS
    <2>1. CASE Next
      <3>1. SessionsInv'
        BY <2>1, SessionsStep DEF IInv
      <3>2. FilesInv'
        BY <2>1, <3>1, FilesStep
      <3>3. CountInv'
        BY <2>1, CountStep
      <3> QED
        BY <3>1, <3>2, <3>3 DEF IInv
    <2>2. CASE UNCHANGED vars
      <3>1. UNCHANGED <<process, ses, fs, handles, ncmds>>
        BY <2>2 DEF vars
      <3>2. SessionsInv'
        BY <3>1 DEF IInv, SessionsInv
      <3>3. FilesInv'
        BY <3>1 DEF IInv, FilesInv, TreeInv, Exists, OpenInv, IsFile, StoredInv, AloneInv
      <3>4. CountInv'
        BY <3>1 DEF IInv, CountInv, HandlesInv, Openers
      <3> QED
        BY <3>2, <3>3, <3>4 DEF IInv
    <2> QED
      BY <2>1, <2>2
  <1> QED
    BY <1>1, <1>2, PTL DEF Spec

\* The variables of the version 1 server keep their types: no more chunks are in a
\* file or on their way than were sent, no session has two listeners, no file more
\* handles than there are sessions.
THEOREM TypeCorrect == Spec => []TypeOK
  <1>1. IInv => TypeOK
    <2> SUFFICES ASSUME IInv PROVE TypeOK
      OBVIOUS
    <2>1. handles \in [Paths -> 0 .. Cardinality(Sessions)]
      <3>1. ASSUME NEW p \in Paths PROVE handles[p] \in 0 .. Cardinality(Sessions)
        <4>1. Cardinality(Sessions) \in Nat
          BY FS_CardinalityType, LegacyAssumption
        <4> QED
          BY <4>1, OpenersFinite DEF IInv, CountInv, HandlesInv
      <3> QED
        BY <3>1 DEF IInv, CountInv
    <2> QED
      BY <2>1 DEF TypeOK, IInv, SessionsInv, FilesInv, CountInv, Entries
  <1> QED
    BY <1>1, Inductive, PTL

\* On every way through handleClient, the failing ones included, each FILE* is closed
\* and each listener counted.
THEOREM HandlesClosed == Spec => []HandlesAccounted
  <1>1. IInv => HandlesAccounted
    <2> SUFFICES ASSUME IInv PROVE HandlesAccounted
      OBVIOUS
    <2>1. \A s \in Sessions : Local(ses[s])
      BY DEF IInv, SessionsInv
    <2>2. ASSUME NEW p \in Paths
          PROVE  Openers(p) = {s \in Sessions : ses[s].pc \in {"open", "data"} /\ ses[s].file = p}
      BY <2>1, PathFacts DEF Openers, Local
    <2>3. \A p \in Paths : handles[p] =
            Cardinality({s \in Sessions : ses[s].pc \in {"open", "data"} /\ ses[s].file = p})
      BY <2>2 DEF IInv, CountInv, HandlesInv
    <2> QED
      BY <2>1, <2>3 DEF HandlesAccounted, Local
  <1> QED
    BY <1>1, Inductive, PTL

\* "226 File upload complete" over an unbroken connection means that the file holds
\* all the client has sent but the chunks the disk refused (which no reply tells of),
\* unless another upload was made to the same path.
THEOREM UploadsStored == Spec => StoredIsSent
  <1>1. IInv /\ [Next]_vars =>
            [\A s \in Sessions :
                /\ ses[s].pc = "data" /\ ses'[s].pc = "read"
                /\ ses[s].verb = "STOR" /\ ses[s].alone
                /\ ses[s].data # "reset"
                => /\ ses[s].data = "eof"
                   /\ fs'[ses[s].file] = File(s, ses[s].sent - ses[s].lost)]_vars
    <2> SUFFICES ASSUME IInv, Next, NEW s \in Sessions,
                        ses[s].pc = "data", ses'[s].pc = "read", ses[s].verb = "STOR",
                        ses[s].alone, ses[s].data # "reset"
                 PROVE  /\ ses[s].data = "eof"
                        /\ fs'[ses[s].file] = File(s, ses[s].sent - ses[s].lost)
      OBVIOUS
    <2>1. EndStor(s)
      BY OnlyEndStor DEF IInv
    <2>2. ses[s].data = "eof" /\ ses[s].net = 0 /\ fs' = fs
      BY <2>1 DEF EndStor, EndTransfer
    <2>3. ses[s].file \in Paths
      BY DEF IInv, SessionsInv, Local
    <2>4. fs[ses[s].file] \in Entries /\ fs[ses[s].file].kind = "file"
      BY <2>3, HeldOpen DEF IInv, FilesInv
    <2>5. fs[ses[s].file].by = s /\ fs[ses[s].file].len = ses[s].sent - ses[s].lost
      <3>1. fs[ses[s].file].by = s /\ fs[ses[s].file].len + ses[s].net + ses[s].lost = ses[s].sent
        BY DEF IInv, FilesInv, StoredInv
      <3>2. fs[ses[s].file].len \in Nat /\ ses[s].sent \in Nat /\ ses[s].lost \in Nat
        BY <2>4, EntryFacts, LegacyAssumption DEF IInv, SessionsInv, SessionType
      <3> QED
        BY <2>2, <3>1, <3>2
    <2>6. fs[ses[s].file] = File(fs[ses[s].file].by, fs[ses[s].file].len)
      BY <2>4, EntryFacts
    <2> QED
      BY <2>2, <2>5, <2>6
  <1> QED
    BY <1>1, Inductive, PTL DEF Spec, StoredIsSent

=============================================================================
