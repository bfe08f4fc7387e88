----------------------------- MODULE FtpClient ------------------------------
(***************************************************************************)
(* The client library (src/client/ftp_client.cpp, main.cpp) and one server *)
(* session, seen from the control connection between them: the client      *)
(* sends a command, reads a fixed number of replies and never looks for    *)
(* more; the session takes what one recv() returns for one command.  A     *)
(* reply is its code, as far as the client tells codes apart, the command  *)
(* it answers and, for 227, the port.                                      *)
(*                                                                         *)
(* version 2 is the engine; version 1 are the earlier programs             *)
(* (src/client/main.cpp against src/server/main.cpp, Windows only), whose  *)
(* operations are the same sequences of commands and whose session closes  *)
(* the data connection before its last reply instead of after it.          *)
(***************************************************************************)
EXTENDS Integers, Sequences, SequencesExt

CONSTANT MaxOps         \* bound of the model: operations the user asks for

ASSUME ClientAssumption == MaxOps \in Nat

VARIABLES
    version,  \* which pair of programs this is: chosen once
    cpc,      \* client: "prompt", or what it waits for
    op,       \* operation it is in
    dialPort, \* port of the last 227 it read
    cds,      \* its data socket: "none", "queued", "open" or "eof"
    nops,     \* operations so far
    c2s,      \* commands on their way
    s2c,      \* replies on their way
    asked,    \* history: last command sent
    gaveUp,   \* history: download() has returned without its last reply
    spc,      \* session: "greet", "read", "open", "transfer", "closing", "closed"
    verb,     \* command it serves
    lport,    \* port of its passive listener, 0 = none
    queued,   \* a connection waits at that listener
    ports     \* ports used so far

clientVars == <<version, cpc, op, dialPort, cds, nops, asked, gaveUp>>
sessionVars == <<spc, verb, lport, queued, ports>>
vars == <<clientVars, c2s, s2c, sessionVars>>

Simple == {"PWD", "CWD", "DELE", "MKD", "RMD"}
Verbs == Simple \cup {"USER", "PASS", "QUIT", "PASV", "LIST", "RETR", "STOR", "RNFR", "RNTO"}
DataVerb == [list |-> "LIST", get |-> "RETR", put |-> "STOR"]
NoReply == [code |-> 0, of |-> "none", port |-> 0]

Init ==
    /\ version \in {1, 2}
    /\ cpc = "greet" /\ op = "none" /\ dialPort = 0 /\ cds = "none" /\ nops = 0
    /\ c2s = <<>> /\ s2c = <<>> /\ asked = "none" /\ gaveUp = FALSE
    /\ spc = "greet" /\ verb = "none" /\ lport = 0 /\ queued = FALSE /\ ports = 0

-----------------------------------------------------------------------------
(* The session.                                                            *)

Reply(code, v) == s2c' = Append(s2c, [code |-> code, of |-> v, port |-> 0])

\* A listener that is closed resets the connection waiting at it.
Reset(socket) == IF socket = "queued" THEN "eof" ELSE socket

\* ~Session closes the control socket and the listener.
EndSession == spc' = "closed" /\ lport' = 0 /\ queued' = FALSE

\* "220", or "421 Server busy." from the accept loop.
Greet ==
    /\ spc = "greet"
    /\ \/ Reply(220, "none") /\ spc' = "read" /\ UNCHANGED <<lport, queued>>
       \/ version = 2 /\ Reply(421, "none") /\ EndSession
    /\ UNCHANGED <<clientVars, c2s, verb, ports>>

\* Commands that are answered once.  Code 1 stands for any reply the client
\* does not tell from others: 2xx, 4xx and 5xx here.
ServeSimple ==
    /\ spc = "read" /\ c2s # <<>>
    /\ LET v == Head(c2s) IN
         \/ /\ \/ v = "USER" /\ (Reply(331, v) \/ (version = 2 /\ Reply(230, v)))
               \/ v = "PASS" /\ (Reply(230, v) \/ Reply(1, v))
               \/ v \in Simple \cup {"RNFR", "RNTO", "RETR", "STOR"} /\ Reply(1, v)
            /\ UNCHANGED <<spc, lport, queued>>
         \/ /\ v = "QUIT" \/ (v = "PASS" /\ version = 2)
            /\ Reply(1, v)
            /\ EndSession
    /\ c2s' = Tail(c2s)
    /\ UNCHANGED <<clientVars, verb, ports>>

\* recv() returned several commands: whatever the first was, the text as a whole
\* is answered once.
ServeJoined ==
    /\ spc = "read" /\ Len(c2s) > 1
    /\ \E k \in 2 .. Len(c2s) : c2s' = SubSeq(c2s, k + 1, Len(c2s))
    /\ Reply(1, Head(c2s))
    /\ UNCHANGED <<clientVars, sessionVars>>

\* Mutant: a failing PASV leaves the old listener's connection behind.
PasvKeepsBacklog ==
    /\ spc = "read" /\ c2s # <<>> /\ Head(c2s) = "PASV"
    /\ \/ /\ s2c' = Append(s2c, [code |-> 227, of |-> "PASV", port |-> ports + 1])
          /\ lport' = ports + 1 /\ ports' = ports + 1 /\ queued' = FALSE
       \/ version = 2 /\ Reply(1, "PASV") /\ lport' = 0 /\ UNCHANGED <<ports, queued>>
    /\ cds' = Reset(cds)
    /\ c2s' = Tail(c2s)
    /\ UNCHANGED <<version, cpc, op, dialPort, nops, asked, gaveUp, spc, verb>>

\* The old listener goes; a new one comes up, or in version 2 "425".
ServePasv ==
    /\ spc = "read" /\ c2s # <<>> /\ Head(c2s) = "PASV"
    /\ \/ /\ s2c' = Append(s2c, [code |-> 227, of |-> "PASV", port |-> ports + 1])
          /\ lport' = ports + 1 /\ ports' = ports + 1
       \/ version = 2 /\ Reply(1, "PASV") /\ lport' = 0 /\ UNCHANGED ports
    /\ queued' = FALSE
    /\ cds' = Reset(cds)
    /\ c2s' = Tail(c2s)
    /\ UNCHANGED <<version, cpc, op, dialPort, nops, asked, gaveUp, spc, verb>>

\* LIST, RETR or STOR gets its "150".
ServeData ==
    /\ spc = "read" /\ c2s # <<>> /\ Head(c2s) \in {"LIST", "RETR", "STOR"}
    /\ Reply(150, Head(c2s))
    /\ verb' = Head(c2s)
    /\ spc' = "open"
    /\ c2s' = Tail(c2s)
    /\ UNCHANGED <<clientVars, lport, queued, ports>>

\* accept() waits for a connection; version 2 closes the listener after it.
OpenData ==
    /\ spc = "open" /\ queued
    /\ spc' = "transfer"
    /\ lport' = (IF version = 1 THEN lport ELSE 0) /\ queued' = FALSE
    /\ cds' = IF cds = "queued" THEN "open" ELSE cds
    /\ UNCHANGED <<version, cpc, op, dialPort, nops, asked, gaveUp, c2s, s2c, verb, ports>>

\* No listener: "425".
OpenFails ==
    /\ spc = "open" /\ lport = 0
    /\ Reply(1, verb)
    /\ spc' = "read"
    /\ UNCHANGED <<clientVars, c2s, verb, lport, queued, ports>>

\* Everything is sent, or the client has closed its end of an upload.
EndTransfer ==
    /\ spc = "transfer" /\ version = 2
    /\ verb = "STOR" => cds # "open"
    /\ Reply(1, verb)
    /\ spc' = "closing"
    /\ UNCHANGED <<clientVars, c2s, verb, lport, queued, ports>>

\* "552", or "426" because the file cannot be opened.
AbortUpload ==
    /\ spc = "transfer" /\ version = 2 /\ verb = "STOR" /\ cds = "open"
    /\ Reply(1, verb)
    /\ spc' = "closing"
    /\ UNCHANGED <<clientVars, c2s, verb, lport, queued, ports>>

\* ~ManagedSocket of the data socket, after the last reply.
CloseData ==
    /\ spc = "closing" /\ version = 2
    /\ spc' = "read"
    /\ cds' = IF cds = "open" THEN "eof" ELSE cds
    /\ UNCHANGED <<version, cpc, op, dialPort, nops, asked, gaveUp, c2s, s2c>>
    /\ UNCHANGED <<verb, lport, queued, ports>>

\* Version 1 closes data socket and listener first ...
CloseFirst ==
    /\ spc = "transfer" /\ version = 1
    /\ verb = "STOR" => cds # "open"
    /\ spc' = "closing"
    /\ cds' = IF cds = "open" THEN "eof" ELSE Reset(cds)
    /\ lport' = 0 /\ queued' = FALSE
    /\ UNCHANGED <<version, cpc, op, dialPort, nops, asked, gaveUp, c2s, s2c, verb, ports>>

\* ... and then says so, whatever send() and recv() have returned.
ReplyLast ==
    /\ spc = "closing" /\ version = 1
    /\ Reply(1, verb)
    /\ spc' = "read"
    /\ UNCHANGED <<clientVars, c2s, verb, lport, queued, ports>>

\* recv() returns 0: the client has closed the connection.
ReadEof ==
    /\ spc = "read" /\ c2s = <<>> /\ cpc \in {"gone", "killed"}
    /\ EndSession
    /\ UNCHANGED <<clientVars, c2s, s2c, verb, ports>>

\* The session times out, or the server's process ends.
ServerGone ==
    /\ spc # "closed"
    /\ EndSession
    /\ c2s' = <<>>
    /\ cds' = IF cds = "none" THEN "none" ELSE "eof"
    /\ UNCHANGED <<version, cpc, op, dialPort, nops, asked, gaveUp, s2c, verb, ports>>

-----------------------------------------------------------------------------
(* The client.                                                             *)

\* SIGPIPE ends a program on POSIX, which version 1 is not built for.
MayDie == IF version = 2 THEN {"killed"} ELSE {}

\* sendCommand: to a session that has gone it is lost, or SIGPIPE kills.
Send(v, wait) ==
    /\ asked' = v
    /\ \/ spc # "closed" /\ c2s' = Append(c2s, v) /\ cpc' = wait
       \/ spc = "closed" /\ c2s' = c2s /\ cpc' \in {wait} \cup MayDie

\* readReply: the next reply; of a session that has gone also nothing.
Receive(wait, r) ==
    /\ cpc = wait
    /\ \/ s2c # <<>> /\ r = Head(s2c) /\ s2c' = Tail(s2c)
       \/ spc = "closed" /\ r = NoReply /\ s2c' = <<>>

Incoming == {NoReply} \cup (IF s2c = <<>> THEN {} ELSE {Head(s2c)})

\* A failed login: main() returns and ~FTPClient says QUIT; version 1 just closes.
LoginFailed ==
    \/ version = 2 /\ Send("QUIT", "quit")
    \/ version = 1 /\ cpc' = "gone" /\ UNCHANGED <<asked, c2s>>

\* connect() and login().
Login ==
    /\ version = 2
    /\ \E r \in Incoming :
         \/ Receive("greet", r) /\ IF r.code = 220 THEN Send("USER", "user") ELSE LoginFailed
         \/ Receive("user", r) /\ IF r.code = 331 THEN Send("PASS", "pass") ELSE LoginFailed
         \/ Receive("pass", r) /\ IF r.code = 230 THEN cpc' = "prompt" /\ UNCHANGED <<asked, c2s>>
                                                  ELSE LoginFailed
    /\ UNCHANGED <<version, op, dialPort, cds, nops, gaveUp, sessionVars>>

\* Version 1 looks at the answer to PASS only.
LoginV1 ==
    /\ version = 1
    /\ \E r \in Incoming :
         \/ Receive("greet", r) /\ Send("USER", "user")
         \/ Receive("user", r) /\ Send("PASS", "pass")
         \/ Receive("pass", r) /\ IF r.code = 230 THEN cpc' = "prompt" /\ UNCHANGED <<asked, c2s>>
                                                  ELSE LoginFailed
    /\ UNCHANGED <<version, op, dialPort, cds, nops, gaveUp, sessionVars>>

\* What an operation sends first.
Opening(o) ==
    \/ o = "bye" /\ Send("QUIT", "quit")
    \/ o = "simple" /\ \E v \in Simple : Send(v, "only")
    \/ o = "rename" /\ Send("RNFR", "rnfr")
    \/ o \in DOMAIN DataVerb /\ Send("PASV", "pasv")

\* commandLoop: the user asks for something.
Prompt(o) ==
    /\ cpc = "prompt"
    /\ IF o = "bye" THEN nops' = nops ELSE nops < MaxOps /\ nops' = nops + 1
    /\ op' = o
    /\ Opening(o)
    /\ UNCHANGED <<version, dialPort, cds, gaveUp, s2c, sessionVars>>

\* The reply of a simple command, or of RNTO, or the last one of a transfer.
ReadLast ==
    /\ \E r \in Incoming, wait \in {"only", "final"} : Receive(wait, r)
    /\ cpc' = "prompt"
    /\ UNCHANGED <<version, op, dialPort, cds, nops, asked, gaveUp, c2s, sessionVars>>

ReadRnfr ==
    /\ \E r \in Incoming : Receive("rnfr", r)
    /\ Send("RNTO", "only")
    /\ UNCHANGED <<version, op, dialPort, cds, nops, gaveUp, sessionVars>>

\* openDataConnection up to the connect ...
ReadPasv ==
    /\ \E r \in Incoming :
         /\ Receive("pasv", r)
         /\ cpc' = IF r.code = 227 THEN "dial" ELSE "prompt"
         /\ dialPort' = r.port
    /\ UNCHANGED <<version, op, cds, nops, asked, gaveUp, c2s, sessionVars>>

\* Mutant: a connection that failed does not stop the command.
DialRegardless ==
    /\ cpc = "dial"
    /\ \/ dialPort = lport /\ cds' = "queued" /\ queued' = TRUE
       \/ UNCHANGED <<cds, queued>>
    /\ Send(DataVerb[op], "begin")
    /\ UNCHANGED <<version, op, dialPort, nops, gaveUp, s2c, spc, verb, lport, ports>>

\* ... which succeeds before the command is sent, or ends the operation.
Dial ==
    /\ cpc = "dial"
    /\ \/ /\ dialPort = lport
          /\ cds' = "queued" /\ queued' = TRUE
          /\ Send(DataVerb[op], "begin")
       \/ /\ cpc' = "prompt"
          /\ UNCHANGED <<cds, queued, asked, c2s>>
    /\ UNCHANGED <<version, op, dialPort, nops, gaveUp, s2c, spc, verb, lport, ports>>

\* list() takes any reply for its "150"; the others give the data socket back
\* when it is something else.
ReadBegin ==
    /\ \E r \in Incoming :
         /\ Receive("begin", r)
         /\ IF op = "list" \/ r.code = 150 THEN cpc' = "data" /\ cds' = cds
                                           ELSE cpc' = "prompt" /\ cds' = "none"
    /\ UNCHANGED <<version, op, dialPort, nops, asked, gaveUp, c2s, sessionVars>>

\* download() cannot create the local file: it returns although the session
\* still has a reply to send.
GiveUp ==
    /\ op = "get"
    /\ \E r \in Incoming : Receive("begin", r) /\ r.code = 150
    /\ cpc' = "prompt" /\ cds' = "none"
    /\ gaveUp' = TRUE
    /\ UNCHANGED <<version, op, dialPort, nops, asked, c2s, sessionVars>>

\* Mutant: download() and list() are done when the data is.
ReadDataAndReturn ==
    /\ cpc = "data" /\ op \in {"list", "get"} /\ cds = "eof"
    /\ cpc' = "prompt" /\ cds' = "none"
    /\ UNCHANGED <<version, op, dialPort, nops, asked, gaveUp, c2s, s2c, sessionVars>>

\* recv() on the data socket returns 0 at last.
ReadData ==
    /\ cpc = "data" /\ op \in {"list", "get"} /\ cds = "eof"
    /\ cpc' = "final" /\ cds' = "none"
    /\ UNCHANGED <<version, op, dialPort, nops, asked, gaveUp, c2s, s2c, sessionVars>>

\* Mutant: the data socket lives until upload() returns.
SendAndKeepOpen ==
    /\ cpc = "data" /\ op = "put"
    /\ cpc' = "final"
    /\ UNCHANGED <<version, op, dialPort, cds, nops, asked, gaveUp, c2s, s2c, sessionVars>>

\* The file is sent and the data socket closed; send() to a session that has
\* ended the upload fails unnoticed, or SIGPIPE kills.
SendData ==
    /\ cpc = "data" /\ op = "put"
    /\ cpc' \in {"final"} \cup (IF cds = "eof" THEN MayDie ELSE {})
    /\ cds' = "none"
    /\ UNCHANGED <<version, op, dialPort, nops, asked, gaveUp, c2s, s2c, sessionVars>>

\* disconnect() reads one reply and closes.
ReadQuit ==
    /\ \E r \in Incoming : Receive("quit", r)
    /\ cpc' = "gone"
    /\ UNCHANGED <<version, op, dialPort, cds, nops, asked, gaveUp, c2s, sessionVars>>

\* The user kills the client, anywhere.
ClientDies ==
    /\ cpc \notin {"gone", "killed"}
    /\ cpc' = "killed" /\ cds' = "none"
    /\ UNCHANGED <<version, op, dialPort, nops, asked, gaveUp, c2s, s2c, sessionVars>>

-----------------------------------------------------------------------------
SessionStep ==
    \/ Greet \/ ServeSimple \/ ServeJoined \/ ServePasv \/ ServeData
    \/ OpenData \/ OpenFails \/ EndTransfer \/ CloseData \/ CloseFirst \/ ReplyLast
    \/ ReadEof

ClientStep ==
    \/ Login \/ LoginV1 \/ ReadLast \/ ReadRnfr \/ ReadPasv \/ Dial \/ ReadBegin \/ ReadData
    \/ SendData \/ ReadQuit

Next ==
    \/ SessionStep \/ AbortUpload \/ ServerGone
    \/ ClientStep \/ GiveUp \/ ClientDies
    \/ \E o \in {"simple", "rename", "list", "get", "put", "bye"} : Prompt(o)

Spec == Init /\ [][Next]_vars

\* Both programs go on when they can: a queued connection gets its worker
\* (QueuedServed in module FtpServer).  The user need not ask for anything, and
\* nothing has to fail.
FairSpec == Spec /\ WF_vars(SessionStep) /\ WF_vars(ClientStep)

-----------------------------------------------------------------------------
Replies == [code : {1, 150, 220, 227, 230, 331, 421}, of : Verbs \cup {"none"},
            port : 0 .. MaxOps]

TypeOK ==
    /\ version \in {1, 2}
    /\ cpc \in {"greet", "user", "pass", "prompt", "only", "rnfr", "pasv", "dial", "begin",
                "data", "final", "quit", "gone", "killed"}
    /\ op \in {"none", "simple", "rename", "list", "get", "put", "bye"}
    /\ cds \in {"none", "queued", "open", "eof"}
    /\ nops \in 0 .. MaxOps /\ dialPort \in 0 .. MaxOps /\ ports \in 0 .. MaxOps
    /\ c2s \in Seq(Verbs) /\ s2c \in Seq(Replies)
    /\ spc \in {"greet", "read", "open", "transfer", "closing", "closed"}
    /\ lport \in 0 .. ports
    /\ queued => lport # 0

\* The client counts replies and is never off by one: what it reads next
\* answers the command it sent last, and between operations nothing is on its
\* way, whatever fails on the server's side: PASV refused, data connection
\* refused, file missing, upload cut short.  (After a download given up for
\* want of a local file all this is lost.)
InSync ==
    gaveUp \/ cpc = "killed" \/
        /\ s2c # <<>> => Head(s2c).of \in {asked, "none"}
        /\ cpc = "prompt" => s2c = <<>> /\ c2s = <<>>

\* An operation returns: neither side waits for the other forever, although the
\* data connection and the control connection close in either order.
OperationsReturn ==
    (cpc \notin {"prompt", "gone", "killed"}) ~> (cpc \in {"prompt", "gone", "killed"} \/ gaveUp)

\* The session ends when the client has, even one that was killed: this client
\* connects before it sends the command, so the session's accept() without a
\* timeout never waits for it.
SessionFreed == (cpc \in {"gone", "killed"}) ~> (spc = "closed" \/ gaveUp)
=============================================================================
