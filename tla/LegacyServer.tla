---------------------------- MODULE LegacyServer ----------------------------
(***************************************************************************)
(* The version 1 server (src/server/main.cpp), which is built for Windows  *)
(* only: one thread per connection runs handleClient on its own variables; *)
(* the threads share the file system.  A handler is one step, but for the  *)
(* commands that wait for a data connection: those open the file first,    *)
(* wait without a timeout, and then move the data.                         *)
(*                                                                         *)
(* Clients are arbitrary: they send any command, open and close their data *)
(* connection when they like, and leave.  The version 1 client is in       *)
(* module FtpClient.  A file's contents are the session that wrote it and  *)
(* a length; two writers at once leave a mixture.                          *)
(***************************************************************************)
EXTENDS Integers, Sequences, FiniteSets, SequencesExt

CONSTANTS Sessions,
          Names,      \* file and directory names
          Mixed,      \* "written by several sessions"
          MaxDepth,   \* bound of the model: components of a path
          MaxBytes,   \* bound of the model: chunks of an upload
          MaxCmds     \* bound of the model: commands after login, all sessions together

ASSUME LegacyAssumption ==
    /\ IsFiniteSet(Sessions) /\ Mixed \notin Sessions
    /\ {MaxDepth, MaxBytes, MaxCmds} \subseteq Nat

VARIABLES
    process,  \* "up", or "terminated" by an exception nobody catches
    ses,      \* the variables of each handleClient, its thread and its client
    fs,       \* what each path below ROOT_DIR names
    handles,  \* open FILE* of each path
    ncmds     \* commands so far

vars == <<process, ses, fs, handles, ncmds>>

Paths == UNION {[1 .. k -> Names] : k \in 1 .. MaxDepth}
ROOT_DIR == <<>>
NoEntry == [kind |-> "none", by |-> Mixed, len |-> 0]
Dir == [kind |-> "dir", by |-> Mixed, len |-> 0]
File(s, n) == [kind |-> "file", by |-> s, len |-> n]

IsDir(p) == p = ROOT_DIR \/ (p \in Paths /\ fs[p].kind = "dir")
IsFile(p) == fs[p].kind = "file"
Exists(p) == fs[p] # NoEntry
Below(p) == {q \in Paths : IsStrictPrefix(p, q)}

\* handleClient's variables as it declares them; lsock is passiveSocket with what
\* waits at it, socks counts the listening sockets really open.
Fresh == [pc |-> "away", user |-> "none", loggedIn |-> FALSE, currentDir |-> ROOT_DIR,
          renameFrom |-> ROOT_DIR, usePassive |-> FALSE, active |-> FALSE,
          lsock |-> "none", socks |-> 0, verb |-> "none", file |-> ROOT_DIR,
          data |-> "none", sent |-> 0, net |-> 0, lost |-> 0, gone |-> FALSE,
          alone |-> FALSE, reply |-> 0]

Init ==
    /\ process = "up"
    /\ ses = [s \in Sessions |-> Fresh]
    /\ fs = [p \in Paths |-> NoEntry]
    /\ handles = [p \in Paths |-> 0]
    /\ ncmds = 0

\* A step of session s, which sends a reply or moves data.
At(s, place) == process = "up" /\ ses[s].pc = place

\* A command that handleClient takes only from a client that has logged in.
Command(s) ==
    /\ At(s, "read") /\ ~ses[s].gone /\ ses[s].loggedIn
    /\ ncmds < MaxCmds /\ ncmds' = ncmds + 1
    /\ UNCHANGED process

Reply(s, code) == ses' = [ses EXCEPT ![s].reply = code]

-----------------------------------------------------------------------------
(* main(): accept, CreateThread.                                           *)

\* The thread greets; if it cannot be created nobody owns the socket.
AcceptLoop(s) ==
    /\ At(s, "away")
    /\ \/ ses' = [ses EXCEPT ![s].pc = "read", ![s].reply = 220]
       \/ ses' = [ses EXCEPT ![s].pc = "unserved"]
    /\ UNCHANGED <<process, fs, handles, ncmds>>

\* closesocket(passiveSocket), if there is one.
NoListener(r) == [r EXCEPT !.socks = IF r.lsock = "none" THEN @ ELSE @ - 1, !.lsock = "none"]

\* After QUIT, or when recv() reports the end of the connection or an error.
EndSession(s) ==
    /\ At(s, "read")
    /\ ses' = [ses EXCEPT ![s] = [Fresh EXCEPT !.pc = "ended",
                                               !.socks = NoListener(ses[s]).socks,
                                               !.reply = IF ses[s].gone THEN 0 ELSE 221]]
    /\ UNCHANGED <<process, fs, handles, ncmds>>

-----------------------------------------------------------------------------
(* Commands that need no login.                                            *)

User(s, u) ==
    /\ At(s, "read") /\ ~ses[s].gone
    /\ ses' = [ses EXCEPT ![s].user = u, ![s].reply = 331]
    /\ UNCHANGED <<process, fs, handles, ncmds>>

\* A failure leaves loggedIn as it was.
Pass(s, right) ==
    /\ At(s, "read") /\ ~ses[s].gone
    /\ IF ses[s].user = "admin" /\ right
         THEN ses' = [ses EXCEPT ![s].loggedIn = TRUE, ![s].reply = 230]
         ELSE Reply(s, 530)
    /\ UNCHANGED <<process, fs, handles, ncmds>>

\* OPTS and NOOP; any other command of a client that has not logged in.
Unauthenticated(s) ==
    /\ At(s, "read") /\ ~ses[s].gone
    /\ Reply(s, 200) \/ (~ses[s].loggedIn /\ Reply(s, 530))
    /\ UNCHANGED <<process, fs, handles, ncmds>>

-----------------------------------------------------------------------------
(* Directories and files.                                                  *)

\* SYST, TYPE, PWD and what is not implemented.
Answer(s) ==
    /\ Command(s)
    /\ \E code \in {200, 202, 215, 257} : Reply(s, code)
    /\ UNCHANGED <<fs, handles>>

\* currentDir may be gone by now: another session may have removed it.
Cwd(s, name) ==
    LET newDir == Append(ses[s].currentDir, name)
    IN  /\ Command(s)
        /\ IF IsDir(newDir)
             THEN ses' = [ses EXCEPT ![s].currentDir = newDir, ![s].reply = 250]
             ELSE Reply(s, 550)
        /\ UNCHANGED <<fs, handles>>

Cdup(s) ==
    /\ Command(s)
    /\ ses' = [ses EXCEPT ![s].currentDir = IF @ = ROOT_DIR THEN @ ELSE Front(@),
                          ![s].reply = 250]
    /\ UNCHANGED <<fs, handles>>

Target(s, name) == Append(ses[s].currentDir, name)

\* DeleteFile fails on a file that fopen() holds open.
Dele(s, name) ==
    LET p == Target(s, name)
    IN  /\ Command(s) /\ p \in Paths
        /\ IF IsFile(p) /\ handles[p] = 0
             THEN fs' = [fs EXCEPT ![p] = NoEntry] /\ Reply(s, 250)
             ELSE Reply(s, 550) /\ UNCHANGED fs
        /\ UNCHANGED handles

Mkd(s, name) ==
    LET p == Target(s, name)
    IN  /\ Command(s) /\ p \in Paths
        /\ IF IsDir(Front(p)) /\ ~Exists(p)
             THEN fs' = [fs EXCEPT ![p] = Dir] /\ Reply(s, 257)
             ELSE Reply(s, 550) /\ UNCHANGED fs
        /\ UNCHANGED handles

Rmd(s, name) ==
    LET p == Target(s, name)
    IN  /\ Command(s) /\ p \in Paths
        /\ IF IsDir(p) /\ \A q \in Below(p) : ~Exists(q)
             THEN fs' = [fs EXCEPT ![p] = NoEntry] /\ Reply(s, 250)
             ELSE Reply(s, 550) /\ UNCHANGED fs
        /\ UNCHANGED handles

Rnfr(s, name) ==
    LET p == Target(s, name)
    IN  /\ Command(s) /\ p \in Paths
        /\ IF Exists(p)
             THEN ses' = [ses EXCEPT ![s].renameFrom = p, ![s].reply = 350]
             ELSE Reply(s, 550)
        /\ UNCHANGED <<fs, handles>>

\* The tree after old has become new, with everything below it.
Moved(old, new) ==
    [q \in Paths |->
        IF IsPrefix(old, q) THEN NoEntry
        ELSE IF IsPrefix(new, q)
             THEN LET from == old \o SubSeq(q, Len(new) + 1, Len(q))
                  IN  IF from \in Paths THEN fs[from] ELSE NoEntry
             ELSE fs[q]]

\* MoveFile: nothing open in what is moved, nothing at the destination.
Movable(old, new) ==
    /\ Exists(old)
    /\ \A q \in Below(old) \cup {old} : handles[q] = 0
    /\ old # new => ~Exists(new) /\ IsDir(Front(new)) /\ ~IsPrefix(old, new)

\* renameFrom is forgotten whether or not MoveFile succeeds.  Nothing is moved
\* below MaxDepth.
Rnto(s, name) ==
    LET old == ses[s].renameFrom
        new == Target(s, name)
    IN  /\ Command(s) /\ new \in Paths
        /\ IF old = ROOT_DIR
             THEN Reply(s, 503) /\ UNCHANGED fs
             ELSE /\ \A q \in Below(old) : Exists(q) => Len(new) + Len(q) - Len(old) <= MaxDepth
                  /\ ses' = [ses EXCEPT ![s].renameFrom = ROOT_DIR,
                                        ![s].reply = IF Movable(old, new) THEN 250 ELSE 550]
                  /\ fs' = IF Movable(old, new) /\ old # new THEN Moved(old, new) ELSE fs
        /\ UNCHANGED handles

-----------------------------------------------------------------------------
(* The data connection.                                                    *)

\* Mutant: the listener of an earlier PASV is forgotten.
PasvForgets(s) ==
    /\ Command(s)
    /\ ses' = [ses EXCEPT ![s].lsock = "listening", ![s].socks = @ + 1,
                          ![s].usePassive = TRUE, ![s].reply = 227]
    /\ UNCHANGED <<fs, handles>>

Pasv(s) ==
    LET r == NoListener(ses[s])
    IN  /\ Command(s)
        /\ ses' = [ses EXCEPT ![s] = [r EXCEPT !.lsock = "listening", !.socks = r.socks + 1,
                                              !.usePassive = TRUE, !.reply = 227]]
        /\ UNCHANGED <<fs, handles>>

Port(s) ==
    /\ Command(s)
    /\ ses' = [ses EXCEPT ![s] = [NoListener(@) EXCEPT !.usePassive = FALSE, !.active = TRUE,
                                                       !.reply = 200]]
    /\ UNCHANGED <<fs, handles>>

\* std::stoi throws on an argument that is no number; the thread has no handler,
\* so the process ends with all its sessions.
PortThrows(s) ==
    /\ At(s, "read") /\ ~ses[s].gone /\ ses[s].loggedIn
    /\ process' = "terminated"
    /\ UNCHANGED <<ses, fs, handles, ncmds>>

\* "150", then getDataSocket.
Begin(s, v, p) ==
    [ses EXCEPT ![s].pc = "open", ![s].verb = v, ![s].file = p, ![s].reply = 150]

\* LIST and NLST.
List(s) ==
    /\ Command(s)
    /\ ses' = Begin(s, "LIST", ROOT_DIR)
    /\ UNCHANGED <<fs, handles>>

\* fopen "rb" comes before the reply.
Retr(s, name) ==
    LET p == Target(s, name)
    IN  /\ Command(s) /\ p \in Paths
        /\ IF IsFile(p)
             THEN ses' = Begin(s, "RETR", p) /\ handles' = [handles EXCEPT ![p] = @ + 1]
             ELSE Reply(s, 550) /\ UNCHANGED handles
        /\ UNCHANGED fs

\* fopen "wb" too: the file is empty or new before anything is known of the data
\* connection.  Other sessions that have it open find it so.
Stor(s, name) ==
    LET p == Target(s, name)
    IN  /\ Command(s) /\ p \in Paths
        /\ IF IsDir(Front(p)) /\ fs[p].kind # "dir"
             THEN /\ ses' = [t \in Sessions |->
                       [Begin(s, "STOR", p)[t] EXCEPT
                           !.alone = IF t = s THEN handles[p] = 0 ELSE @ /\ ses[t].file # p]]
                  /\ fs' = [fs EXCEPT ![p] = File(s, 0)]
                  /\ handles' = [handles EXCEPT ![p] = @ + 1]
             ELSE Reply(s, 550) /\ UNCHANGED <<fs, handles>>

\* fclose, if a file is open.
Closed(p) == IF p = ROOT_DIR THEN handles ELSE [handles EXCEPT ![p] = @ - 1]

\* The variables of one command are gone when its handler is done.
Returned(r, code) ==
    [r EXCEPT !.pc = "read", !.verb = "none", !.file = ROOT_DIR, !.data = "none", !.sent = 0,
              !.net = 0, !.lost = 0, !.alone = FALSE, !.reply = code]

\* Passive: accept() waits until somebody has connected.  Active: connect().
OpenData(s) ==
    /\ At(s, "open")
    /\ IF ses[s].usePassive THEN ses[s].lsock = "queued" ELSE ses[s].active /\ ~ses[s].gone
    /\ \E d \in (IF ses[s].gone THEN {"eof", "reset"} ELSE {"up"}) :
         ses' = [ses EXCEPT ![s].pc = "data", ![s].data = d,
                            ![s].lsock = IF @ = "queued" THEN "listening" ELSE @]
    /\ UNCHANGED <<process, fs, handles, ncmds>>

\* Mutant: the way out over "425" does not close the file.
OpenFailsLeaks(s) ==
    /\ At(s, "open")
    /\ ses[s].usePassive => ses[s].lsock = "none"
    /\ ses' = [ses EXCEPT ![s] = Returned(@, 425)]
    /\ UNCHANGED <<process, fs, handles, ncmds>>

\* "425": no listener, or nobody at the active address.  A listener is kept.
OpenFails(s) ==
    /\ At(s, "open")
    /\ ses[s].usePassive => ses[s].lsock = "none"
    /\ ses' = [ses EXCEPT ![s] = Returned(@, 425)]
    /\ handles' = Closed(ses[s].file)
    /\ UNCHANGED <<process, fs, ncmds>>

\* recv() and fwrite of a chunk.
RecvChunk(s) ==
    LET p == ses[s].file
    IN  /\ At(s, "data") /\ ses[s].verb = "STOR"
        /\ ses[s].net > 0
        /\ ses' = [ses EXCEPT ![s].net = @ - 1]
        /\ fs' = [fs EXCEPT ![p] = IF @.by = s THEN File(s, @.len + 1) ELSE File(Mixed, 0)]
        /\ UNCHANGED <<process, handles, ncmds>>

\* The disk is full: the chunk is lost, by fwrite or later when the buffer is flushed.
\* Nobody looks at the results of fwrite and fclose, and the loop goes on.
LoseChunk(s) ==
    /\ At(s, "data") /\ ses[s].verb = "STOR"
    /\ ses[s].net > 0
    /\ ses' = [ses EXCEPT ![s].net = @ - 1, ![s].lost = @ + 1]
    /\ UNCHANGED <<process, fs, handles, ncmds>>

\* fclose, both sockets closed, then "226".
EndTransfer(s) ==
    /\ ses' = [ses EXCEPT ![s] = Returned(NoListener(@), 226)]
    /\ handles' = Closed(ses[s].file)
    /\ UNCHANGED <<process, fs, ncmds>>

\* Mutant: a recv() that found nothing yet ends the upload.
StorEndsEarly(s) ==
    /\ At(s, "data") /\ ses[s].verb = "STOR" /\ ses[s].net = 0
    /\ EndTransfer(s)

\* recv() returns 0, or an error, which the loop does not tell from the end.
EndStor(s) ==
    /\ At(s, "data") /\ ses[s].verb = "STOR"
    /\ ses[s].data = "reset" \/ (ses[s].data = "eof" /\ ses[s].net = 0)
    /\ EndTransfer(s)

\* LIST, NLST and RETR send all they have; send()'s result is not looked at.
SendAll(s) ==
    /\ At(s, "data") /\ ses[s].verb # "STOR"
    /\ EndTransfer(s)

-----------------------------------------------------------------------------
(* The clients.                                                            *)

Client(s) ==
    /\ process = "up" /\ ~ses[s].gone /\ ses[s].pc \in {"read", "open", "data"}
    /\ \/ ses[s].lsock = "listening" /\ ses' = [ses EXCEPT ![s].lsock = "queued"]
       \/ /\ ses[s].data = "up" /\ ses[s].verb = "STOR" /\ ses[s].sent < MaxBytes
          /\ ses' = [ses EXCEPT ![s].sent = @ + 1, ![s].net = @ + 1]
       \/ ses[s].data = "up" /\ ses' = [ses EXCEPT ![s].data = "eof"]
       \/ \E d \in {"eof", "reset"} :
            ses' = [ses EXCEPT ![s].gone = TRUE, ![s].data = IF @ = "up" THEN d ELSE @]
    /\ UNCHANGED <<process, fs, handles, ncmds>>

Next ==
    \/ \E s \in Sessions :
         \/ AcceptLoop(s) \/ EndSession(s) \/ Unauthenticated(s) \/ Answer(s) \/ Cdup(s)
         \/ Pasv(s) \/ Port(s) \/ PortThrows(s) \/ List(s)
         \/ OpenData(s) \/ OpenFails(s) \/ RecvChunk(s) \/ LoseChunk(s) \/ EndStor(s)
         \/ SendAll(s) \/ Client(s)
    \/ \E s \in Sessions, u \in {"admin", "other"} : User(s, u)
    \/ \E s \in Sessions, right \in BOOLEAN : Pass(s, right)
    \/ \E s \in Sessions, name \in Names :
         \/ Cwd(s, name) \/ Dele(s, name) \/ Mkd(s, name) \/ Rmd(s, name)
         \/ Rnfr(s, name) \/ Rnto(s, name) \/ Retr(s, name) \/ Stor(s, name)

Spec == Init /\ [][Next]_vars

-----------------------------------------------------------------------------
SessionType ==
    [pc : {"away", "unserved", "read", "open", "data", "ended"},
     user : {"none", "admin", "other"}, loggedIn : BOOLEAN,
     currentDir : Paths \cup {ROOT_DIR}, renameFrom : Paths \cup {ROOT_DIR},
     usePassive : BOOLEAN, active : BOOLEAN,
     lsock : {"none", "listening", "queued"}, socks : {0, 1},
     verb : {"none", "LIST", "RETR", "STOR"}, file : Paths \cup {ROOT_DIR},
     data : {"none", "up", "eof", "reset"}, sent : 0 .. MaxBytes, net : 0 .. MaxBytes,
     lost : 0 .. MaxBytes, gone : BOOLEAN, alone : BOOLEAN,
     reply : {0, 150, 200, 202, 215, 220, 221, 226, 227, 230, 250, 257, 331, 350, 425,
              503, 530, 550}]

TypeOK ==
    /\ process \in {"up", "terminated"}
    /\ ses \in [Sessions -> SessionType]
    /\ fs \in [Paths -> {NoEntry, Dir} \cup {File(w, n) : w \in Sessions \cup {Mixed},
                                                        n \in 0 .. MaxBytes}]
    /\ handles \in [Paths -> 0 .. Cardinality(Sessions)]
    /\ ncmds \in 0 .. MaxCmds

\* Nothing is left open on any way through a handler: a file has as many handles
\* as sessions that are waiting for, or in, a transfer of it, a session one
\* listening socket at most, and a session that has ended none.  (On Windows a
\* forgotten handle would keep the file from being deleted or renamed.)
HandlesAccounted ==
    /\ \A p \in Paths :
         handles[p] = Cardinality({s \in Sessions :
                                       ses[s].pc \in {"open", "data"} /\ ses[s].file = p})
    /\ \A s \in Sessions : ses[s].socks = IF ses[s].lsock = "none" THEN 0 ELSE 1

\* When "226 File upload complete" is sent, the data connection was not broken and
\* no other session uploaded to the same path meanwhile, the client has closed the
\* connection, and the file, still under the name it was opened with although others
\* delete, rename and remove directories, holds all it has sent but the chunks the
\* disk refused: every one of them if there was room.  (The 226 is sent all the same
\* when there was none.)
StoredIsSent ==
    [][\A s \in Sessions :
          /\ ses[s].pc = "data" /\ ses'[s].pc = "read"
          /\ ses[s].verb = "STOR" /\ ses[s].alone
          /\ ses[s].data # "reset"
          => /\ ses[s].data = "eof"
             /\ fs'[ses[s].file] = File(s, ses[s].sent - ses[s].lost)]_vars
=============================================================================
