--------------------------- MODULE FtpClientProofs --------------------------
(***************************************************************************)
(* For any number of operations: the client's ports and replies are those  *)
(* it was given, and it is never off by one reply until it gives up a      *)
(* download, whatever the session does and whenever either side goes.      *)
(***************************************************************************)
EXTENDS FtpClient, FiniteSetTheorems, TLAPS

-----------------------------------------------------------------------------
(* The strengthening.  The first half holds of every state, also when the  *)
(* client has lost step.                                                   *)

DataVerbs == {"LIST", "RETR", "STOR"}

\* The PASV commands on their way.
Pasvs(c) == {i \in 1 .. Len(c) : c[i] = "PASV"}

\* Every port was asked for by an operation of its own.
PortsInv == ports + Cardinality(Pasvs(c2s)) <= nops

\* A 227 names a port that was in use; one that is dialled came from a 227.
RepliesInv == \A i \in 1 .. Len(s2c) :
                  s2c[i].port <= ports /\ (s2c[i].code = 227 => s2c[i].port >= 1)
DialInv == dialPort <= ports /\ (cpc = "dial" => dialPort >= 1)

\* The operation that has a data connection.
OpInv == cpc \in {"pasv", "dial", "begin", "data"} => op \in {"list", "get", "put"}

TypeInv ==
    /\ version \in {1, 2}
    /\ cpc \in {"greet", "user", "pass", "prompt", "only", "rnfr", "pasv", "dial", "begin",
                "data", "final", "quit", "gone", "killed"}
    /\ op \in {"none", "simple", "rename", "list", "get", "put", "bye"}
    /\ cds \in {"none", "queued", "open", "eof"}
    /\ nops \in 0 .. MaxOps /\ dialPort \in Nat /\ ports \in Nat
    /\ c2s \in Seq(Verbs) /\ s2c \in Seq(Replies)
    /\ spc \in {"greet", "read", "open", "transfer", "closing", "closed"}
    /\ verb \in Verbs \cup {"none"}
    /\ lport \in 0 .. ports
    /\ queued => lport # 0

BaseInv == TypeInv /\ OpInv /\ PortsInv /\ RepliesInv /\ DialInv

-----------------------------------------------------------------------------
(* The second half: who owes whom what, at each place of the client.       *)

\* The session is done with the last command; version 2 has yet to close the data
\* connection at "closing", version 1 has yet to reply there.
Free == spc \in {"read", "closed"} \/ (spc = "closing" /\ version = 2)

\* The session has said "150" and will reply once more.
Busy == spc \in {"open", "transfer"} \/ (spc = "closing" /\ version = 1)

\* At most n replies are on their way, all to the command the client sent last.
Owed(n, v) == Len(s2c) <= n /\ \A i \in 1 .. Len(s2c) : s2c[i].of = v

Unserved == c2s = <<asked>> /\ s2c = <<>> /\ Free /\ spc # "closed"

\* Nothing is on its way.
Idle == c2s = <<>> /\ s2c = <<>> /\ Free

Greeting ==
    /\ c2s = <<>> /\ Owed(1, "none")
    /\ spc \in {"greet", "read", "closed"} /\ (spc = "greet" => s2c = <<>>)

\* A command that has one reply.
OneReply ==
    /\ asked \in Verbs \ DataVerbs
    /\ \/ Unserved
       \/ c2s = <<>> /\ spc \in {"read", "closed"} /\ Owed(1, asked)

\* A transfer whose first reply has not been read.
Beginning ==
    /\ asked \in DataVerbs
    /\ \/ Unserved
       \/ c2s = <<>> /\ Busy /\ verb = asked /\ Len(s2c) = 1 /\ Owed(1, asked)
                     /\ s2c[1].code = 150
       \/ c2s = <<>> /\ Free /\ Owed(2, asked) /\ (Len(s2c) = 2 => s2c[1].code = 150)

\* A transfer whose last reply has not been read.
Transferring ==
    /\ asked \in DataVerbs /\ c2s = <<>>
    /\ \/ Busy /\ verb = asked /\ s2c = <<>>
       \/ Free /\ Owed(1, asked)

InStep ==
    /\ cpc = "greet" => Greeting
    /\ cpc \in {"user", "pass", "only", "rnfr", "pasv", "quit"} => OneReply
    /\ cpc \in {"prompt", "dial", "gone"} => Idle
    /\ cpc = "begin" => Beginning
    /\ cpc \in {"data", "final"} => Transferring

SyncInv == gaveUp \/ cpc = "killed" \/ InStep

IInv == BaseInv /\ SyncInv

-----------------------------------------------------------------------------
(* Queues of commands and replies.                                         *)

\* The PASV commands in a queue can be counted.
LEMMA PasvsFinite ==
    ASSUME NEW c \in Seq(Verbs)
    PROVE  IsFiniteSet(Pasvs(c)) /\ Cardinality(Pasvs(c)) \in Nat
  <1>1. Len(c) \in Nat
    OBVIOUS
  <1>2. IsFiniteSet(1 .. Len(c))
    BY <1>1, FS_Interval
  <1>3. Pasvs(c) \subseteq 1 .. Len(c)
    BY DEF Pasvs
  <1> QED
    BY <1>2, <1>3, FS_Subset, FS_CardinalityType

\* A command that is sent is one PASV more, or none.
LEMMA PasvsAppend ==
    ASSUME NEW c \in Seq(Verbs), NEW v \in Verbs
    PROVE  /\ Append(c, v) \in Seq(Verbs)
           /\ Cardinality(Pasvs(Append(c, v))) =
                 IF v = "PASV" THEN Cardinality(Pasvs(c)) + 1 ELSE Cardinality(Pasvs(c))
  <1> DEFINE a == Append(c, v)
  <1>1. /\ a \in Seq(Verbs) /\ Len(a) = Len(c) + 1 /\ Len(c) \in Nat /\ a[Len(c) + 1] = v
        /\ \A i \in 1 .. Len(c) : a[i] = c[i]
    OBVIOUS
  <1> HIDE DEF a
  <1>2. 1 .. Len(a) = 1 .. Len(c) \cup {Len(c) + 1} /\ Len(c) + 1 \notin 1 .. Len(c)
    BY <1>1
  <1>3. CASE v = "PASV"
    <2>1. Pasvs(a) = Pasvs(c) \cup {Len(c) + 1} /\ Len(c) + 1 \notin Pasvs(c)
      BY <1>1, <1>2, <1>3 DEF Pasvs
    <2> QED
      BY <1>1, <1>3, <2>1, PasvsFinite, FS_AddElement DEF a
  <1>4. CASE v # "PASV"
    <2>1. Pasvs(a) = Pasvs(c)
      BY <1>1, <1>2, <1>4 DEF Pasvs
    <2> QED
      BY <1>1, <1>4, <2>1 DEF a
  <1> QED
    BY <1>3, <1>4

\* What is left of a queue when the first k commands have been taken.
LEMMA PasvsDrop ==
    ASSUME NEW c \in Seq(Verbs), NEW k \in 1 .. Len(c)
    PROVE  LET d == SubSeq(c, k + 1, Len(c))
           IN  /\ d \in Seq(Verbs)
               /\ Cardinality(Pasvs(d)) <= Cardinality(Pasvs(c))
               /\ c[1] = "PASV" => Cardinality(Pasvs(d)) <= Cardinality(Pasvs(c)) - 1
  <1> DEFINE d == SubSeq(c, k + 1, Len(c))
             f == [i \in Pasvs(d) |-> i + k]
             T == Pasvs(c) \ {1}
  <1>1. /\ d \in Seq(Verbs) /\ Len(d) = Len(c) - k /\ Len(c) \in Nat
        /\ \A i \in 1 .. Len(c) - k : d[i] = c[i + k]
    OBVIOUS
  <1> HIDE DEF d
  <1>2. ASSUME NEW i \in Pasvs(d) PROVE i + k \in T /\ i \in Int
    BY <1>1 DEF Pasvs
  <1>3. f \in Injection(Pasvs(d), T)
    BY <1>2 DEF Injection, IsInjective
  <1>4. IsFiniteSet(Pasvs(c)) /\ Cardinality(Pasvs(c)) \in Nat
    BY PasvsFinite
  <1>5. /\ IsFiniteSet(T) /\ Cardinality(T) <= Cardinality(Pasvs(c))
        /\ 1 \in Pasvs(c) => Cardinality(T) = Cardinality(Pasvs(c)) - 1
    <2>1. T \subseteq Pasvs(c)
      OBVIOUS
    <2> QED
      BY <1>4, <2>1, FS_Subset, FS_RemoveElement
  <1> HIDE DEF f, T
  <1>6. Cardinality(Pasvs(d)) <= Cardinality(T)
    BY <1>3, <1>5, FS_Injection
  <1>7. Cardinality(Pasvs(d)) \in Nat /\ Cardinality(T) \in Nat
    BY <1>1, <1>5, PasvsFinite, FS_CardinalityType
  <1>8. c[1] = "PASV" => 1 \in Pasvs(c)
    BY <1>1 DEF Pasvs
  <1> QED
    BY <1>1, <1>4, <1>5, <1>6, <1>7, <1>8 DEF d

\* Tail takes the first of them.
LEMMA PasvsTail ==
    ASSUME NEW c \in Seq(Verbs), c # <<>>
    PROVE  /\ Tail(c) \in Seq(Verbs) /\ Head(c) \in Verbs
           /\ Cardinality(Pasvs(Tail(c))) <= Cardinality(Pasvs(c))
           /\ Head(c) = "PASV" => Cardinality(Pasvs(Tail(c))) <= Cardinality(Pasvs(c)) - 1
  <1>1. 1 \in 1 .. Len(c) /\ Head(c) = c[1] /\ Head(c) \in Verbs
    OBVIOUS
  <1>2. Tail(c) = SubSeq(c, 1 + 1, Len(c))
    OBVIOUS
  <1> QED
    BY <1>1, <1>2, PasvsDrop

\* The replies after one has been read.
LEMMA TailFacts ==
    ASSUME NEW S, NEW q \in Seq(S), q # <<>>
    PROVE  /\ Tail(q) \in Seq(S) /\ Len(Tail(q)) = Len(q) - 1 /\ Len(q) \in Nat /\ Len(q) >= 1
           /\ Head(q) = q[1] /\ Head(q) \in S
           /\ \A i \in 1 .. Len(q) - 1 : Tail(q)[i] = q[i + 1]
  OBVIOUS

\* The replies after one has been sent.
LEMMA AppendFacts ==
    ASSUME NEW S, NEW q \in Seq(S), NEW r \in S
    PROVE  /\ Append(q, r) \in Seq(S) /\ Len(Append(q, r)) = Len(q) + 1 /\ Len(q) \in Nat
           /\ \A i \in 1 .. Len(q) : Append(q, r)[i] = q[i]
           /\ Append(q, r)[Len(q) + 1] = r
  OBVIOUS

\* What readReply() returns, and what it leaves.
Read(r) ==
    /\ s2c' \in Seq(Replies) /\ RepliesInv'
    /\ r.port \in Nat /\ r.port <= ports /\ (r.code = 227 => r.port >= 1)

\* readReply() returns a reply of the queue, or none.
LEMMA ReceiveFacts ==
    ASSUME TypeInv, RepliesInv, NEW wait, NEW r, Receive(wait, r), ports' = ports
    PROVE  Read(r)
  <1>0. s2c \in Seq(Replies) /\ ports \in Nat
    BY DEF TypeInv
  <1>1. CASE s2c # <<>> /\ r = Head(s2c) /\ s2c' = Tail(s2c)
    <2>1. /\ s2c' \in Seq(Replies) /\ Len(s2c') = Len(s2c) - 1 /\ Len(s2c) \in Nat /\ Len(s2c) >= 1
          /\ r = s2c[1] /\ r \in Replies
          /\ \A i \in 1 .. Len(s2c) - 1 : s2c'[i] = s2c[i + 1]
      BY <1>0, <1>1, TailFacts
    <2>2. r.port \in Nat
      BY <2>1, ClientAssumption DEF Replies
    <2>3. r.port <= ports /\ (r.code = 227 => r.port >= 1)
      BY <2>1 DEF RepliesInv
    <2>4. RepliesInv'
      BY <2>1 DEF RepliesInv
    <2> QED
      BY <2>1, <2>2, <2>3, <2>4 DEF Read
  <1>2. CASE r = NoReply /\ s2c' = <<>>
    BY <1>0, <1>2 DEF Read, RepliesInv, NoReply
  <1> QED
    BY <1>1, <1>2 DEF Receive

\* What sendCommand does to the queue of commands.
Sent(v, wait) ==
    /\ cpc' \in {wait, "killed"}
    /\ c2s' \in Seq(Verbs)
    /\ Cardinality(Pasvs(c2s')) \in Nat
    /\ Cardinality(Pasvs(c2s')) <= IF v = "PASV" THEN Cardinality(Pasvs(c2s)) + 1
                                   ELSE Cardinality(Pasvs(c2s))

\* sendCommand adds one command, or loses it.
LEMMA SendFacts ==
    ASSUME TypeInv, NEW v \in Verbs, NEW wait, Send(v, wait)
    PROVE  Sent(v, wait) /\ asked' = v
  <1>1. c2s \in Seq(Verbs) /\ Cardinality(Pasvs(c2s)) \in Nat
    BY PasvsFinite DEF TypeInv
  <1>2. cpc' \in {wait, "killed"} /\ asked' = v
    BY DEF Send, MayDie
  <1>3. CASE c2s' = Append(c2s, v)
    BY <1>1, <1>2, <1>3, PasvsAppend DEF Sent
  <1>4. CASE c2s' = c2s
    BY <1>1, <1>2, <1>4 DEF Sent
  <1> QED
    BY <1>2, <1>3, <1>4 DEF Send

-----------------------------------------------------------------------------
(* The first half is kept.                                                 *)

\* The rest of BaseInv follows from its parts.
LEMMA BaseFacts ==
    ASSUME BaseInv
    PROVE  /\ c2s \in Seq(Verbs) /\ s2c \in Seq(Replies) /\ MaxOps \in Nat
           /\ Cardinality(Pasvs(c2s)) \in Nat
           /\ ports \in 0 .. MaxOps /\ nops \in 0 .. MaxOps
           /\ ports + Cardinality(Pasvs(c2s)) <= nops
           /\ TypeInv /\ RepliesInv
  <1>1. Cardinality(Pasvs(c2s)) \in Nat
    BY PasvsFinite DEF BaseInv, TypeInv
  <1> QED
    BY <1>1, ClientAssumption DEF BaseInv, TypeInv, PortsInv

\* A reply of the session keeps the queue of replies.
LEMMA ReplyFacts ==
    ASSUME BaseInv, NEW r \in Replies, s2c' = Append(s2c, r), ports' \in Nat, ports <= ports',
           r.port <= ports', r.code = 227 => r.port >= 1
    PROVE  s2c' \in Seq(Replies) /\ RepliesInv'
  <1>1. /\ s2c' \in Seq(Replies) /\ Len(s2c') = Len(s2c) + 1 /\ Len(s2c) \in Nat
        /\ \A i \in 1 .. Len(s2c) : s2c'[i] = s2c[i]
        /\ s2c'[Len(s2c) + 1] = r
    BY BaseFacts, AppendFacts
  <1>2. ASSUME NEW i \in 1 .. Len(s2c')
        PROVE  s2c'[i].port <= ports' /\ (s2c'[i].code = 227 => s2c'[i].port >= 1)
    <2>1. CASE i = Len(s2c) + 1
      BY <1>1, <2>1
    <2>2. CASE i # Len(s2c) + 1
      <3>1. i \in 1 .. Len(s2c)
        BY <1>1, <2>2
      <3>2. s2c[i] \in Replies /\ s2c'[i] = s2c[i]
        BY <1>1, <3>1, BaseFacts
      <3>3. s2c[i].port \in Nat /\ ports \in Nat
        BY <3>2, ClientAssumption, BaseFacts DEF Replies
      <3>4. s2c[i].port <= ports /\ (s2c[i].code = 227 => s2c[i].port >= 1)
        BY <3>1 DEF BaseInv, RepliesInv
      <3> QED
        BY <3>2, <3>3, <3>4
    <2> QED
      BY <2>1, <2>2
  <1> QED
    BY <1>1, <1>2 DEF RepliesInv

\* The session's replies without a port.
LEMMA PlainReply ==
    ASSUME BaseInv, NEW code \in {1, 150, 220, 230, 331, 421}, NEW v \in Verbs \cup {"none"},
           Reply(code, v), ports' = ports
    PROVE  s2c' \in Seq(Replies) /\ RepliesInv'
  <1> DEFINE r == [code |-> code, of |-> v, port |-> 0]
  <1>1. r \in Replies /\ r.port = 0 /\ r.code = code
    BY ClientAssumption DEF Replies
  <1>2. s2c' = Append(s2c, r)
    BY DEF Reply
  <1> HIDE DEF r
  <1> QED
    BY <1>1, <1>2, BaseFacts, ReplyFacts

\* Each step keeps BaseInv.
LEMMA BaseStep ==
    ASSUME BaseInv, Next
    PROVE  BaseInv'
  <1>0. /\ c2s \in Seq(Verbs) /\ s2c \in Seq(Replies) /\ MaxOps \in Nat
        /\ Cardinality(Pasvs(c2s)) \in Nat
        /\ ports \in 0 .. MaxOps /\ nops \in 0 .. MaxOps /\ ports + Cardinality(Pasvs(c2s)) <= nops
        /\ TypeInv /\ RepliesInv /\ verb \in Verbs \cup {"none"}
    BY BaseFacts DEF BaseInv, TypeInv
  <1> DEFINE D == {1, 150, 220, 230, 331, 421}
  <1>1. CASE Greet
    <2>1. s2c' \in Seq(Replies) /\ RepliesInv'
      BY <1>0, <1>1, PlainReply DEF Greet, clientVars, sessionVars
    <2> QED
      BY <1>0, <1>1, <2>1 DEF Greet, EndSession, clientVars, sessionVars, BaseInv, TypeInv,
         OpInv, PortsInv, DialInv
  <1>2. CASE ServeSimple
    <2>0. Head(c2s) \in Verbs
      BY <1>0, <1>2, PasvsTail DEF ServeSimple
    <2>1. s2c' \in Seq(Replies) /\ RepliesInv'
      BY <1>0, <1>2, <2>0, PlainReply DEF ServeSimple, clientVars, sessionVars
    <2>2. /\ c2s' \in Seq(Verbs) /\ Cardinality(Pasvs(c2s')) \in Nat
          /\ Cardinality(Pasvs(c2s')) <= Cardinality(Pasvs(c2s))
      BY <1>0, <1>2, PasvsTail, PasvsFinite DEF ServeSimple
    <2> QED
      BY <1>0, <1>2, <2>1, <2>2 DEF ServeSimple, EndSession, clientVars, sessionVars, BaseInv,
         TypeInv, OpInv, PortsInv, DialInv
  <1>3. CASE ServeJoined
    <2>0. Len(c2s) > 1 /\ Len(c2s) \in Nat /\ c2s # <<>>
      BY <1>0, <1>3 DEF ServeJoined
    <2>3. Head(c2s) \in Verbs
      BY <1>0, <2>0, PasvsTail
    <2>1. s2c' \in Seq(Replies) /\ RepliesInv'
      BY <1>0, <1>3, <2>3, PlainReply DEF ServeJoined, clientVars, sessionVars
    <2>4. PICK k \in 2 .. Len(c2s) : c2s' = SubSeq(c2s, k + 1, Len(c2s))
      BY <1>3 DEF ServeJoined
    <2>5. k \in 1 .. Len(c2s)
      BY <2>0
    <2>2. /\ c2s' \in Seq(Verbs) /\ Cardinality(Pasvs(c2s')) \in Nat
          /\ Cardinality(Pasvs(c2s')) <= Cardinality(Pasvs(c2s))
      BY <1>0, <2>4, <2>5, PasvsDrop, PasvsFinite
    <2> QED
      BY <1>0, <1>3, <2>1, <2>2 DEF ServeJoined, clientVars, sessionVars, BaseInv, TypeInv,
         OpInv, PortsInv, DialInv
  <1>4. CASE ServePasv
    <2>1. /\ c2s' \in Seq(Verbs) /\ Cardinality(Pasvs(c2s')) \in Nat
          /\ Cardinality(Pasvs(c2s')) <= Cardinality(Pasvs(c2s)) - 1
      BY <1>0, <1>4, PasvsTail, PasvsFinite DEF ServePasv
    <2>2. ports + 1 \in 0 .. MaxOps /\ ports + 1 + Cardinality(Pasvs(c2s')) <= nops
      BY <1>0, <2>1
    <2>3. CASE /\ s2c' = Append(s2c, [code |-> 227, of |-> "PASV", port |-> ports + 1])
               /\ lport' = ports + 1 /\ ports' = ports + 1
      <3> DEFINE r == [code |-> 227, of |-> "PASV", port |-> ports + 1]
      <3>1. r \in Replies /\ r.port = ports + 1
        BY <2>2 DEF Replies, Verbs
      <3> HIDE DEF r
      <3>2. s2c' = Append(s2c, r)
        BY <2>3 DEF r
      <3>3. s2c' \in Seq(Replies) /\ RepliesInv'
        BY <1>0, <2>3, <3>1, <3>2, ReplyFacts
      <3> QED
        BY <1>0, <1>4, <2>1, <2>2, <2>3, <3>3 DEF ServePasv, Reset, clientVars, sessionVars,
           BaseInv, TypeInv, OpInv, PortsInv, DialInv
    <2>4. CASE Reply(1, "PASV") /\ lport' = 0 /\ UNCHANGED ports
      <3>1. s2c' \in Seq(Replies) /\ RepliesInv'
        BY <1>0, <2>4, PlainReply DEF Verbs
      <3> QED
        BY <1>0, <1>4, <2>1, <2>4, <3>1 DEF ServePasv, Reset, clientVars, sessionVars, BaseInv,
           TypeInv, OpInv, PortsInv, DialInv
    <2> QED
      BY <1>4, <2>3, <2>4 DEF ServePasv
  <1>5. CASE ServeData
    <2>0. Head(c2s) \in Verbs
      BY <1>0, <1>5, PasvsTail DEF ServeData
    <2>1. s2c' \in Seq(Replies) /\ RepliesInv'
      BY <1>0, <1>5, <2>0, PlainReply DEF ServeData, clientVars, sessionVars
    <2>2. /\ c2s' \in Seq(Verbs) /\ Cardinality(Pasvs(c2s')) \in Nat
          /\ Cardinality(Pasvs(c2s')) <= Cardinality(Pasvs(c2s))
      BY <1>0, <1>5, PasvsTail, PasvsFinite DEF ServeData
    <2> QED
      BY <1>0, <1>5, <2>0, <2>1, <2>2 DEF ServeData, clientVars, sessionVars, BaseInv, TypeInv,
         OpInv, PortsInv, DialInv
  <1>6. CASE OpenFails
    <2>1. s2c' \in Seq(Replies) /\ RepliesInv'
      BY <1>0, <1>6, PlainReply DEF OpenFails, clientVars, sessionVars
    <2> QED
      BY <1>0, <1>6, <2>1 DEF OpenFails, clientVars, sessionVars, BaseInv, TypeInv, OpInv,
         PortsInv, DialInv
  <1>7. CASE EndTransfer
    <2>1. s2c' \in Seq(Replies) /\ RepliesInv'
      BY <1>0, <1>7, PlainReply DEF EndTransfer, clientVars, sessionVars
    <2> QED
      BY <1>0, <1>7, <2>1 DEF EndTransfer, clientVars, sessionVars, BaseInv, TypeInv, OpInv,
         PortsInv, DialInv
  <1>8. CASE AbortUpload
    <2>1. s2c' \in Seq(Replies) /\ RepliesInv'
      BY <1>0, <1>8, PlainReply DEF AbortUpload, clientVars, sessionVars
    <2> QED
      BY <1>0, <1>8, <2>1 DEF AbortUpload, clientVars, sessionVars, BaseInv, TypeInv, OpInv,
         PortsInv, DialInv
  <1>9. CASE ReplyLast
    <2>1. s2c' \in Seq(Replies) /\ RepliesInv'
      BY <1>0, <1>9, PlainReply DEF ReplyLast, clientVars, sessionVars
    <2> QED
      BY <1>0, <1>9, <2>1 DEF ReplyLast, clientVars, sessionVars, BaseInv, TypeInv, OpInv,
         PortsInv, DialInv
  <1>10. CASE OpenData
    BY <1>0, <1>10 DEF OpenData, RepliesInv, clientVars, sessionVars, BaseInv, TypeInv, OpInv,
       PortsInv, DialInv
  <1>11. CASE CloseData
    BY <1>0, <1>11 DEF CloseData, RepliesInv, clientVars, sessionVars, BaseInv, TypeInv, OpInv,
       PortsInv, DialInv
  <1>12. CASE CloseFirst
    BY <1>0, <1>12 DEF CloseFirst, Reset, RepliesInv, clientVars, sessionVars, BaseInv, TypeInv,
       OpInv, PortsInv, DialInv
  <1>13. CASE ReadEof
    BY <1>0, <1>13 DEF ReadEof, EndSession, RepliesInv, clientVars, sessionVars, BaseInv,
       TypeInv, OpInv, PortsInv, DialInv
  <1>14. CASE ServerGone
    <2>1. c2s' = <<>> /\ Pasvs(<<>>) = {}
      BY <1>14 DEF ServerGone, Pasvs
    <2>2. c2s' \in Seq(Verbs) /\ Cardinality(Pasvs(c2s')) = 0
      BY <2>1, FS_EmptySet
    <2> QED
      BY <1>0, <1>14, <2>2 DEF ServerGone, EndSession, RepliesInv, clientVars, sessionVars,
         BaseInv, TypeInv, OpInv, PortsInv, DialInv
  <1>15. CASE Login
    <2>0. /\ ports' = ports /\ "USER" \in Verbs /\ "PASS" \in Verbs /\ "QUIT" \in Verbs
          /\ UNCHANGED <<version, op, dialPort, cds, nops, sessionVars>>
      BY <1>15 DEF Login, sessionVars, Verbs
    <2>1. s2c' \in Seq(Replies) /\ RepliesInv'
      BY <1>0, <1>15, <2>0, ReceiveFacts DEF Login, Read
    <2>2. /\ cpc' \in {"user", "pass", "quit", "prompt", "gone", "killed"}
          /\ c2s' \in Seq(Verbs) /\ Cardinality(Pasvs(c2s')) \in Nat
          /\ Cardinality(Pasvs(c2s')) <= Cardinality(Pasvs(c2s))
      BY <1>0, <1>15, <2>0, SendFacts DEF Login, LoginFailed, Sent
    <2> QED
      BY <1>0, <2>0, <2>1, <2>2 DEF clientVars, sessionVars, BaseInv, TypeInv, OpInv, PortsInv,
         DialInv
  <1>16. CASE LoginV1
    <2>0. /\ ports' = ports /\ "USER" \in Verbs /\ "PASS" \in Verbs /\ "QUIT" \in Verbs
          /\ UNCHANGED <<version, op, dialPort, cds, nops, sessionVars>>
      BY <1>16 DEF LoginV1, sessionVars, Verbs
    <2>1. s2c' \in Seq(Replies) /\ RepliesInv'
      BY <1>0, <1>16, <2>0, ReceiveFacts DEF LoginV1, Read
    <2>2. /\ cpc' \in {"user", "pass", "quit", "prompt", "gone", "killed"}
          /\ c2s' \in Seq(Verbs) /\ Cardinality(Pasvs(c2s')) \in Nat
          /\ Cardinality(Pasvs(c2s')) <= Cardinality(Pasvs(c2s))
      BY <1>0, <1>16, <2>0, SendFacts DEF LoginV1, LoginFailed, Sent
    <2> QED
      BY <1>0, <2>0, <2>1, <2>2 DEF clientVars, sessionVars, BaseInv, TypeInv, OpInv, PortsInv,
         DialInv
  <1>17. CASE ReadLast
    <2>1. s2c' \in Seq(Replies) /\ RepliesInv'
      BY <1>0, <1>17, ReceiveFacts DEF ReadLast, Read, sessionVars
    <2> QED
      BY <1>0, <1>17, <2>1 DEF ReadLast, Receive, clientVars, sessionVars, BaseInv, TypeInv,
         OpInv, PortsInv, DialInv
  <1>18. CASE ReadBegin
    <2>1. s2c' \in Seq(Replies) /\ RepliesInv'
      BY <1>0, <1>18, ReceiveFacts DEF ReadBegin, Read, sessionVars
    <2> QED
      BY <1>0, <1>18, <2>1 DEF ReadBegin, Receive, clientVars, sessionVars, BaseInv, TypeInv,
         OpInv, PortsInv, DialInv
  <1>19. CASE GiveUp
    <2>1. s2c' \in Seq(Replies) /\ RepliesInv'
      BY <1>0, <1>19, ReceiveFacts DEF GiveUp, Read, sessionVars
    <2> QED
      BY <1>0, <1>19, <2>1 DEF GiveUp, Receive, clientVars, sessionVars, BaseInv, TypeInv,
         OpInv, PortsInv, DialInv
  <1>20. CASE ReadQuit
    <2>1. s2c' \in Seq(Replies) /\ RepliesInv'
      BY <1>0, <1>20, ReceiveFacts DEF ReadQuit, Read, sessionVars
    <2> QED
      BY <1>0, <1>20, <2>1 DEF ReadQuit, Receive, clientVars, sessionVars, BaseInv, TypeInv,
         OpInv, PortsInv, DialInv
  <1>21. CASE ReadRnfr
    <2>1. s2c' \in Seq(Replies) /\ RepliesInv'
      BY <1>0, <1>21, ReceiveFacts DEF ReadRnfr, Read, sessionVars
    <2>2. Sent("RNTO", "only")
      BY <1>0, <1>21, SendFacts DEF ReadRnfr, Verbs
    <2> QED
      BY <1>0, <1>21, <2>1, <2>2 DEF ReadRnfr, Sent, clientVars, sessionVars, BaseInv, TypeInv,
         OpInv, PortsInv, DialInv
  <1>22. CASE ReadPasv
    <2>1. PICK r \in Incoming : /\ Receive("pasv", r) /\ dialPort' = r.port
                                /\ cpc' = IF r.code = 227 THEN "dial" ELSE "prompt"
      BY <1>22 DEF ReadPasv
    <2>2. Read(r) /\ cpc = "pasv"
      BY <1>0, <1>22, <2>1, ReceiveFacts DEF ReadPasv, sessionVars, Receive
    <2> QED
      BY <1>0, <1>22, <2>1, <2>2 DEF ReadPasv, Read, clientVars, sessionVars, BaseInv, TypeInv,
         OpInv, PortsInv, DialInv
  <1>23. CASE Dial
    <2>1. op \in {"list", "get", "put"} /\ dialPort >= 1 /\ dialPort <= ports /\ dialPort \in Nat
      BY <1>23 DEF Dial, BaseInv, OpInv, DialInv, TypeInv
    <2>2. DataVerb[op] \in DataVerbs /\ DataVerb[op] \in Verbs /\ DataVerb[op] # "PASV"
      BY <2>1 DEF DataVerb, DataVerbs, Verbs
    <2>3. CASE /\ dialPort = lport /\ cds' = "queued" /\ queued' = TRUE
               /\ Send(DataVerb[op], "begin")
      <3>1. Sent(DataVerb[op], "begin")
        BY <1>0, <2>2, <2>3, SendFacts
      <3> QED
        BY <1>0, <1>23, <2>1, <2>2, <2>3, <3>1 DEF Dial, Sent, RepliesInv, clientVars,
           sessionVars, BaseInv, TypeInv, OpInv, PortsInv, DialInv
    <2>4. CASE cpc' = "prompt" /\ UNCHANGED <<cds, queued, asked, c2s>>
      BY <1>0, <1>23, <2>4 DEF Dial, RepliesInv, clientVars, sessionVars, BaseInv, TypeInv,
         OpInv, PortsInv, DialInv
    <2> QED
      BY <1>23, <2>3, <2>4 DEF Dial
  <1>24. CASE ReadData
    BY <1>0, <1>24 DEF ReadData, RepliesInv, clientVars, sessionVars, BaseInv, TypeInv, OpInv,
       PortsInv, DialInv
  <1>25. CASE SendData
    BY <1>0, <1>25 DEF SendData, MayDie, RepliesInv, clientVars, sessionVars, BaseInv, TypeInv,
       OpInv, PortsInv, DialInv
  <1>26. CASE ClientDies
    BY <1>0, <1>26 DEF ClientDies, RepliesInv, clientVars, sessionVars, BaseInv, TypeInv, OpInv,
       PortsInv, DialInv
  <1>27. ASSUME NEW o \in {"simple", "rename", "list", "get", "put", "bye"}, Prompt(o)
        PROVE  BaseInv'
    <2>1. CASE o \in {"list", "get", "put"}
      <3>1. Send("PASV", "pasv") /\ nops' = nops + 1 /\ nops < MaxOps /\ op' = o
        BY <1>27, <2>1 DEF Prompt, Opening, DataVerb
      <3>2. Sent("PASV", "pasv")
        BY <1>0, <3>1, SendFacts DEF Verbs
      <3> QED
        BY <1>0, <1>27, <2>1, <3>1, <3>2 DEF Prompt, Sent, RepliesInv, clientVars, sessionVars,
           BaseInv, TypeInv, OpInv, PortsInv, DialInv
    <2>2. CASE o \in {"simple", "rename", "bye"}
      <3>1. \E v \in Verbs \ {"PASV"}, wait \in {"only", "rnfr", "quit"} : Send(v, wait)
        BY <1>27, <2>2 DEF Prompt, Opening, DataVerb, Verbs, Simple
      <3>2. PICK v \in Verbs \ {"PASV"}, wait \in {"only", "rnfr", "quit"} : Sent(v, wait)
        BY <1>0, <3>1, SendFacts
      <3>3. nops' \in 0 .. MaxOps /\ nops' >= nops /\ op' = o
        BY <1>0, <1>27 DEF Prompt
      <3> QED
        BY <1>0, <1>27, <2>2, <3>2, <3>3 DEF Prompt, Sent, RepliesInv, clientVars, sessionVars,
           BaseInv, TypeInv, OpInv, PortsInv, DialInv
    <2> QED
      BY <2>1, <2>2
  <1> QED
    BY <1>1, <1>2, <1>3, <1>4, <1>5, <1>6, <1>7, <1>8, <1>9, <1>10, <1>11, <1>12, <1>13, <1>14,
       <1>15, <1>16, <1>17, <1>18, <1>19, <1>20, <1>21, <1>22, <1>23, <1>24, <1>25, <1>26,
       <1>27 DEF Next, SessionStep, ClientStep

-----------------------------------------------------------------------------
(* The second half is kept by the session.                                 *)

\* The first reply to a command is the only one on its way.
LEMMA FirstReply ==
    ASSUME NEW code, NEW v, s2c = <<>>, Reply(code, v)
    PROVE  Len(s2c') = 1 /\ \A i \in 1 .. Len(s2c') : s2c'[i].of = v
  <1> DEFINE r == [code |-> code, of |-> v, port |-> 0]
  <1>1. s2c' = <<r>> /\ r.of = v
    BY DEF Reply
  <1> HIDE DEF r
  <1> QED
    BY <1>1

\* A reply put behind another one.
LEMMA BehindOne ==
    ASSUME NEW q \in Seq(Replies), NEW r \in Replies
    PROVE  Len(q) = 1 => Len(Append(q, r)) = 2 /\ Append(q, r)[1] = q[1] /\ Append(q, r)[2] = r
  <1> DEFINE a == Append(q, r)
  <1>1. /\ Len(a) = Len(q) + 1 /\ a[Len(q) + 1] = r
        /\ \A i \in 1 .. Len(q) : a[i] = q[i]
    BY AppendFacts
  <1> HIDE DEF a
  <1>2. Len(q) = 1 => Len(a) = 2 /\ a[1] = q[1] /\ a[2] = r
    BY <1>1
  <1> QED
    BY <1>2 DEF a

\* The second one comes behind the first.
LEMMA SecondReply ==
    ASSUME s2c \in Seq(Replies), NEW v \in Verbs, Len(s2c) = 1, Owed(1, v), Reply(1, v)
    PROVE  Len(s2c') = 2 /\ s2c'[1] = s2c[1] /\ \A i \in 1 .. Len(s2c') : s2c'[i].of = v
  <1> DEFINE r == [code |-> 1, of |-> v, port |-> 0]
  <1>1. r \in Replies /\ s2c' = Append(s2c, r) /\ r.of = v
    BY ClientAssumption DEF Replies, Reply
  <1> HIDE DEF r
  <1>2. Len(s2c') = 2 /\ s2c'[1] = s2c[1] /\ s2c'[2] = r
    BY <1>1, BehindOne
  <1>3. s2c[1].of = v
    BY DEF Owed
  <1>4. ASSUME NEW i \in 1 .. Len(s2c') PROVE s2c'[i].of = v
    <2>1. i = 1 \/ i = 2
      BY <1>2
    <2> QED
      BY <1>1, <1>2, <1>3, <2>1
  <1> QED
    BY <1>2, <1>4

\* A queue of one command.
LEMMA OneCommand ==
    ASSUME NEW v, c2s = <<v>>
    PROVE  c2s # <<>> /\ Head(c2s) = v /\ Tail(c2s) = <<>> /\ Len(c2s) = 1
  OBVIOUS

\* The session's steps that take no command and say nothing.
Silent == OpenData \/ CloseData \/ CloseFirst \/ ReadEof \/ ServerGone

\* The session's steps that take no command and reply to the last one.
Closing == OpenFails \/ EndTransfer \/ AbortUpload \/ ReplyLast

\* The session's steps that take a command.
Taking == ServeSimple \/ ServeJoined \/ ServePasv \/ ServeData

\* What all of them leave alone.
LEMMA SessionKeeps ==
    ASSUME Greet \/ Silent \/ Closing \/ Taking
    PROVE  UNCHANGED <<version, cpc, op, asked, gaveUp>>
  BY DEF Greet, Silent, Closing, Taking, OpenData, CloseData, CloseFirst, ReadEof, ServerGone,
         OpenFails, EndTransfer, AbortUpload, ReplyLast, ServeSimple, ServeJoined, ServePasv,
         ServeData, clientVars, sessionVars

\* A silent step empties no queue of replies, and leaves the session free when it was.
LEMMA SilentFacts ==
    ASSUME TypeInv, Silent
    PROVE  /\ s2c' = s2c /\ UNCHANGED <<version, asked, verb>>
           /\ c2s' = c2s \/ (c2s' = <<>> /\ spc' = "closed")
           /\ spc' = "closed" => c2s' = <<>>
           /\ Free => Free'
           /\ Busy => Busy' \/ Free'
           /\ spc \in {"read", "closed"} => spc' = "closed"
           /\ spc = "greet" => spc' = "closed"
  <1>1. CASE OpenData
    BY <1>1 DEF OpenData, Free, Busy, TypeInv
  <1>2. CASE CloseData
    BY <1>2 DEF CloseData, Free, Busy, TypeInv
  <1>3. CASE CloseFirst
    BY <1>3 DEF CloseFirst, Free, Busy, TypeInv
  <1>4. CASE ReadEof
    BY <1>4 DEF ReadEof, EndSession, Free, Busy, TypeInv, clientVars
  <1>5. CASE ServerGone
    BY <1>5 DEF ServerGone, EndSession, Free, Busy, TypeInv
  <1> QED
    BY <1>1, <1>2, <1>3, <1>4, <1>5 DEF Silent

\* The last reply of a transfer comes from a busy session and leaves it free.
LEMMA ClosingFacts ==
    ASSUME TypeInv, Closing
    PROVE  /\ Busy /\ ~Free /\ Free' /\ Reply(1, verb)
           /\ spc # "greet" /\ spc # "read" /\ spc # "closed"
           /\ UNCHANGED <<version, asked, verb, c2s>>
  <1>1. CASE OpenFails
    BY <1>1 DEF OpenFails, Free, Busy, TypeInv, clientVars
  <1>2. CASE EndTransfer
    BY <1>2 DEF EndTransfer, Free, Busy, TypeInv, clientVars
  <1>3. CASE AbortUpload
    BY <1>3 DEF AbortUpload, Free, Busy, TypeInv, clientVars
  <1>4. CASE ReplyLast
    BY <1>4 DEF ReplyLast, Free, Busy, TypeInv, clientVars
  <1> QED
    BY <1>1, <1>2, <1>3, <1>4 DEF Closing

\* A command that is alone in the queue is taken and answered: a data command with
\* "150" or a refusal, another one once.
LEMMA TakingFacts ==
    ASSUME TypeInv, NEW v \in Verbs, c2s = <<v>>, s2c = <<>>, Taking
    PROVE  /\ c2s' = <<>> /\ UNCHANGED <<version, asked>>
           /\ Len(s2c') = 1 /\ s2c'[1].of = v
           /\ \/ v \in DataVerbs /\ spc' = "open" /\ verb' = v /\ s2c'[1].code = 150
              \/ spc' \in {"read", "closed"}
  <1>0. c2s # <<>> /\ Head(c2s) = v /\ Tail(c2s) = <<>> /\ ~(Len(c2s) > 1)
    BY OneCommand
  <1>1. ASSUME NEW r, s2c' = Append(s2c, r) PROVE Len(s2c') = 1 /\ s2c'[1] = r
    BY <1>1
  <1>2. ASSUME NEW code \in Nat, Reply(code, v)
        PROVE  Len(s2c') = 1 /\ s2c'[1].of = v /\ s2c'[1].code = code
    <2> DEFINE r == [code |-> code, of |-> v, port |-> 0]
    <2>1. s2c' = Append(s2c, r) /\ r.of = v /\ r.code = code
      BY <1>2 DEF Reply
    <2> HIDE DEF r
    <2> QED
      BY <1>1, <2>1
  <1>3. CASE ServeSimple
    <2>1. \E code \in Nat : Reply(code, v)
      BY <1>0, <1>3 DEF ServeSimple
    <2>2. spc' \in {"read", "closed"} /\ c2s' = <<>> /\ UNCHANGED <<version, asked>>
      BY <1>0, <1>3 DEF ServeSimple, EndSession, clientVars
    <2> QED
      BY <1>2, <2>1, <2>2
  <1>4. CASE ServePasv
    <2>1. v = "PASV" /\ spc' = "read" /\ c2s' = <<>> /\ UNCHANGED <<version, asked>>
      BY <1>0, <1>4 DEF ServePasv
    <2> DEFINE r == [code |-> 227, of |-> "PASV", port |-> ports + 1]
    <2>2. r.of = "PASV" /\ (s2c' = Append(s2c, r) \/ Reply(1, "PASV"))
      BY <1>4 DEF ServePasv
    <2> HIDE DEF r
    <2> QED
      BY <1>1, <1>2, <2>1, <2>2
  <1>5. CASE ServeData
    <2>1. /\ v \in DataVerbs /\ spc' = "open" /\ verb' = v /\ c2s' = <<>>
          /\ UNCHANGED <<version, asked>> /\ Reply(150, v)
      BY <1>0, <1>5 DEF ServeData, DataVerbs, clientVars
    <2> QED
      BY <1>2, <2>1
  <1>6. CASE ServeJoined
    BY <1>0, <1>6 DEF ServeJoined
  <1> QED
    BY <1>3, <1>4, <1>5, <1>6 DEF Taking

\* Taking a command needs one.
LEMMA TakingNeeds ==
    ASSUME Taking
    PROVE  c2s # <<>> /\ spc = "read"
  BY DEF Taking, ServeSimple, ServePasv, ServeData, ServeJoined

\* The session keeps step, wherever the client is.
LEMMA SessionStepKeeps ==
    ASSUME TypeInv, Greet \/ Silent \/ Closing \/ Taking
    PROVE  /\ Greeting => Greeting'
           /\ OneReply => OneReply'
           /\ Idle => Idle'
           /\ Beginning => Beginning'
           /\ Transferring => Transferring'
  <1>0. /\ s2c \in Seq(Replies) /\ UNCHANGED <<version, cpc, asked>>
        /\ Len(s2c) \in Nat /\ (s2c = <<>> <=> Len(s2c) = 0)
        /\ DataVerbs \subseteq Verbs
    BY SessionKeeps DEF TypeInv, DataVerbs, Verbs
  <1>1. CASE Greet
    <2>1. spc = "greet" /\ spc' \in {"read", "closed"} /\ UNCHANGED <<c2s>>
          /\ \E code \in Nat : Reply(code, "none")
      BY <1>1 DEF Greet, EndSession
    <2>2. ASSUME Greeting PROVE Greeting'
      <3>1. s2c = <<>>
        BY <2>1, <2>2 DEF Greeting
      <3>2. Len(s2c') = 1 /\ \A i \in 1 .. Len(s2c') : s2c'[i].of = "none"
        BY <2>1, <3>1, FirstReply
      <3> QED
        BY <2>1, <2>2, <3>2 DEF Greeting, Owed
    <2> QED
      BY <2>1, <2>2 DEF OneReply, Idle, Beginning, Transferring, Unserved, Free, Busy
  <1>2. CASE Silent
    <2>1. /\ s2c' = s2c /\ UNCHANGED <<version, asked, verb>>
          /\ c2s' = c2s \/ (c2s' = <<>> /\ spc' = "closed")
          /\ spc' = "closed" => c2s' = <<>>
          /\ Free => Free'
          /\ Busy => Busy' \/ Free'
          /\ spc \in {"read", "closed"} => spc' = "closed"
          /\ spc = "greet" => spc' = "closed"
      BY <1>2, SilentFacts
    <2>2. Greeting => Greeting'
      BY <2>1 DEF Greeting, Owed
    <2>3. Idle => Idle'
      BY <2>1 DEF Idle
    <2>4. Unserved => Unserved' \/ (c2s' = <<>> /\ spc' = "closed" /\ s2c' = <<>>)
      BY <2>1 DEF Unserved
    <2>5. OneReply => OneReply'
      BY <2>1, <2>4 DEF OneReply, Owed
    <2>6. Beginning => Beginning'
      BY <2>1, <2>4 DEF Beginning, Owed, Free
    <2>7. Transferring => Transferring'
      BY <2>1 DEF Transferring, Owed
    <2> QED
      BY <2>2, <2>3, <2>5, <2>6, <2>7
  <1>3. CASE Closing
    <2>1. /\ Busy /\ ~Free /\ Free' /\ Reply(1, verb)
          /\ spc # "greet" /\ spc # "read" /\ spc # "closed"
          /\ UNCHANGED <<version, asked, verb, c2s>>
      BY <1>3, ClosingFacts
    <2>2. ~Greeting /\ ~OneReply /\ ~Idle
      BY <2>1 DEF Greeting, OneReply, Idle, Unserved
    <2>3. ASSUME Beginning PROVE Beginning'
      <3>1. c2s = <<>> /\ verb = asked /\ Len(s2c) = 1 /\ Owed(1, verb) /\ s2c[1].code = 150
        BY <2>1, <2>3 DEF Beginning, Unserved
      <3>2. /\ Len(s2c') = 2 /\ s2c'[1] = s2c[1]
            /\ \A i \in 1 .. Len(s2c') : s2c'[i].of = verb
        BY <1>0, <2>1, <2>3, <3>1, SecondReply DEF Beginning
      <3> QED
        BY <2>1, <2>3, <3>1, <3>2 DEF Beginning, Owed
    <2>4. ASSUME Transferring PROVE Transferring'
      <3>1. c2s = <<>> /\ verb = asked /\ s2c = <<>>
        BY <2>1, <2>4 DEF Transferring
      <3>2. Len(s2c') = 1 /\ \A i \in 1 .. Len(s2c') : s2c'[i].of = verb
        BY <2>1, <3>1, FirstReply
      <3> QED
        BY <2>1, <2>4, <3>1, <3>2 DEF Transferring, Owed
    <2> QED
      BY <2>2, <2>3, <2>4
  <1>4. CASE Taking
    <2>1. c2s # <<>> /\ spc = "read"
      BY <1>4, TakingNeeds
    <2>2. ~Greeting /\ ~Idle /\ ~Transferring
      BY <2>1 DEF Greeting, Idle, Transferring
    <2>3. ASSUME Unserved, asked \in Verbs
          PROVE  /\ c2s' = <<>> /\ Len(s2c') = 1 /\ s2c'[1].of = asked
                 /\ \/ asked \in DataVerbs /\ spc' = "open" /\ verb' = asked /\ s2c'[1].code = 150
                    \/ spc' \in {"read", "closed"}
      BY <1>4, <2>3, TakingFacts DEF Unserved
    <2>4. ASSUME OneReply PROVE OneReply'
      <3>1. Unserved /\ asked \in Verbs \ DataVerbs
        BY <2>1, <2>4 DEF OneReply
      <3>2. c2s' = <<>> /\ Len(s2c') = 1 /\ s2c'[1].of = asked /\ spc' \in {"read", "closed"}
        BY <2>3, <2>4, <3>1
      <3>3. \A i \in 1 .. Len(s2c') : s2c'[i].of = asked
        BY <3>2
      <3> QED
        BY <1>0, <3>1, <3>2, <3>3 DEF OneReply, Owed
    <2>5. ASSUME Beginning PROVE Beginning'
      <3>1. Unserved /\ asked \in DataVerbs /\ asked \in Verbs
        BY <1>0, <2>1, <2>5 DEF Beginning
      <3>2. /\ c2s' = <<>> /\ Len(s2c') = 1 /\ s2c'[1].of = asked
            /\ \/ spc' = "open" /\ verb' = asked /\ s2c'[1].code = 150
               \/ spc' \in {"read", "closed"}
        BY <2>3, <3>1
      <3>3. \A i \in 1 .. Len(s2c') : s2c'[i].of = asked
        BY <3>2
      <3> QED
        BY <1>0, <3>1, <3>2, <3>3 DEF Beginning, Owed, Free, Busy
    <2> QED
      BY <2>2, <2>4, <2>5
  <1> QED
    BY <1>1, <1>2, <1>3, <1>4

-----------------------------------------------------------------------------
(* The second half is kept by the client.                                  *)

Waiting == {"user", "pass", "only", "rnfr", "pasv", "quit"}

\* readReply() empties a queue of one reply.
LEMMA ReadOne ==
    ASSUME TypeInv, NEW v, Owed(1, v), NEW wait, NEW r, Receive(wait, r)
    PROVE  s2c' = <<>> /\ (s2c # <<>> \/ spc = "closed")
  <1>1. s2c \in Seq(Replies) /\ Len(s2c) <= 1
    BY DEF TypeInv, Owed
  <1>2. CASE s2c # <<>> /\ s2c' = Tail(s2c)
    <2>1. /\ s2c' \in Seq(Replies) /\ Len(s2c') = Len(s2c) - 1
          /\ Len(s2c) \in Nat /\ Len(s2c) >= 1
      BY <1>1, <1>2, TailFacts
    <2>2. Len(s2c') = 0
      BY <1>1, <2>1
    <2> QED
      BY <1>2, <2>1, <2>2
  <1>3. CASE spc = "closed" /\ s2c' = <<>>
    BY <1>3
  <1> QED
    BY <1>2, <1>3 DEF Receive

\* The reply to a command that has one leaves nothing on its way.
LEMMA ReadAnswer ==
    ASSUME TypeInv, OneReply, NEW wait, NEW r, Receive(wait, r)
    PROVE  c2s = <<>> /\ s2c' = <<>> /\ Free
  <1>1. ~Unserved
    BY DEF Unserved, Receive
  <1>2. c2s = <<>> /\ Owed(1, asked) /\ Free
    BY <1>1 DEF OneReply, Free
  <1> QED
    BY <1>2, ReadOne

\* So does the greeting.
LEMMA ReadGreeting ==
    ASSUME TypeInv, Greeting, NEW wait, NEW r, Receive(wait, r)
    PROVE  c2s = <<>> /\ s2c' = <<>> /\ Free
  <1>1. s2c' = <<>> /\ (s2c # <<>> \/ spc = "closed")
    BY ReadOne DEF Greeting
  <1> QED
    BY <1>1 DEF Greeting, Free

\* And the last reply of a transfer.
LEMMA ReadFinal ==
    ASSUME TypeInv, Transferring, NEW wait, NEW r, Receive(wait, r)
    PROVE  c2s = <<>> /\ s2c' = <<>> /\ Free
  <1>1. ~(Busy /\ s2c = <<>>)
    BY DEF Busy, Receive
  <1>2. c2s = <<>> /\ Owed(1, asked) /\ Free
    BY <1>1 DEF Transferring
  <1> QED
    BY <1>2, ReadOne

\* What the first reply of a transfer leaves: nothing when it is not "150".
Begun(r) ==
    /\ asked \in DataVerbs /\ c2s = <<>>
    /\ \/ Busy /\ verb = asked /\ s2c' = <<>> /\ r.code = 150
       \/ Free /\ Len(s2c') <= 1 /\ (\A i \in 1 .. Len(s2c') : s2c'[i].of = asked)
               /\ (r.code # 150 => s2c' = <<>>)

\* The first reply of a transfer is read, in whatever state the transfer is.
LEMMA ReadFirst ==
    ASSUME TypeInv, Beginning, NEW wait, NEW r, Receive(wait, r)
    PROVE  Begun(r)
  <1>0. s2c \in Seq(Replies) /\ Len(s2c) \in Nat /\ asked \in DataVerbs
    BY DEF TypeInv, Beginning
  <1>1. ~Unserved
    BY DEF Unserved, Receive
  <1>2. CASE /\ c2s = <<>> /\ Busy /\ verb = asked /\ Len(s2c) = 1 /\ Owed(1, asked)
             /\ s2c[1].code = 150
    <2>1. s2c' = <<>>
      BY <1>2, ReadOne
    <2>2. r = s2c[1]
      BY <1>0, <1>2 DEF Receive, Busy
    <2> QED
      BY <1>0, <1>2, <2>1, <2>2 DEF Begun
  <1>3. CASE c2s = <<>> /\ Free /\ Owed(2, asked) /\ (Len(s2c) = 2 => s2c[1].code = 150)
    <2>1. CASE s2c # <<>> /\ r = Head(s2c) /\ s2c' = Tail(s2c)
      <3>1. /\ s2c' \in Seq(Replies) /\ Len(s2c') = Len(s2c) - 1 /\ Len(s2c) >= 1 /\ r = s2c[1]
            /\ \A i \in 1 .. Len(s2c) - 1 : s2c'[i] = s2c[i + 1]
        BY <1>0, <2>1, TailFacts
      <3>2. Len(s2c) <= 2 /\ \A i \in 1 .. Len(s2c) : s2c[i].of = asked
        BY <1>3 DEF Owed
      <3>3. ASSUME NEW i \in 1 .. Len(s2c') PROVE s2c'[i].of = asked
        <4>1. i \in 1 .. Len(s2c) - 1 /\ i + 1 \in 1 .. Len(s2c)
          BY <1>0, <3>1
        <4> QED
          BY <3>1, <3>2, <4>1
      <3>4. Len(s2c') <= 1
        BY <1>0, <3>1, <3>2
      <3>5. ASSUME r.code # 150 PROVE s2c' = <<>>
        <4>1. Len(s2c) = 1
          BY <1>0, <1>3, <3>1, <3>2, <3>5
        <4> QED
          BY <3>1, <4>1
      <3> QED
        BY <1>0, <1>3, <3>3, <3>4, <3>5 DEF Begun
    <2>2. CASE s2c' = <<>>
      <3>1. Len(s2c') <= 1 /\ \A i \in 1 .. Len(s2c') : s2c'[i].of = asked
        BY <2>2
      <3> QED
        BY <1>0, <1>3, <2>2, <3>1 DEF Begun
    <2> QED
      BY <2>1, <2>2 DEF Receive
  <1> QED
    BY <1>1, <1>2, <1>3 DEF Beginning

\* With nothing owed, the client is in step at the prompt ...
LEMMA NextPrompt ==
    ASSUME cpc' \in {"prompt", "dial", "gone"}, c2s' = <<>>, s2c' = <<>>, Free,
           UNCHANGED <<version, spc>>
    PROVE  SyncInv'
  BY DEF SyncInv, InStep, Idle, Free

\* ... after it has sent a command that has one reply ...
LEMMA NextAnswer ==
    ASSUME NEW v \in Verbs \ DataVerbs, NEW wait \in Waiting, Send(v, wait),
           c2s = <<>>, s2c' = <<>>, Free, UNCHANGED <<version, spc>>
    PROVE  SyncInv'
  <1>1. asked' = v /\ cpc' \in {wait, "killed"}
    BY DEF Send, MayDie
  <1>2. (c2s' = <<v>> /\ spc # "closed") \/ (c2s' = <<>> /\ spc = "closed")
    BY DEF Send
  <1>3. Len(s2c') = 0
    OBVIOUS
  <1>4. OneReply'
    BY <1>1, <1>2, <1>3 DEF OneReply, Unserved, Owed, Free
  <1> QED
    BY <1>1, <1>4 DEF SyncInv, InStep, Waiting

\* ... and after it has sent one that starts a transfer.
LEMMA NextTransfer ==
    ASSUME NEW v \in DataVerbs, Send(v, "begin"), c2s = <<>>, s2c' = <<>>, Free,
           UNCHANGED <<version, spc>>
    PROVE  SyncInv'
  <1>1. asked' = v /\ cpc' \in {"begin", "killed"}
    BY DEF Send, MayDie
  <1>2. (c2s' = <<v>> /\ spc # "closed") \/ (c2s' = <<>> /\ spc = "closed")
    BY DEF Send
  <1>3. Len(s2c') = 0
    OBVIOUS
  <1>4. Beginning'
    BY <1>1, <1>2, <1>3 DEF Beginning, Unserved, Owed, Free
  <1> QED
    BY <1>1, <1>4 DEF SyncInv, InStep

\* A login that fails ends with QUIT, or at once.
LEMMA NextLoginFailed ==
    ASSUME LoginFailed, c2s = <<>>, s2c' = <<>>, Free, UNCHANGED <<version, spc>>
    PROVE  SyncInv'
  <1>1. CASE Send("QUIT", "quit")
    <2>1. "QUIT" \in Verbs \ DataVerbs /\ "quit" \in Waiting
      BY DEF Verbs, Simple, DataVerbs, Waiting
    <2> QED
      BY <1>1, <2>1, NextAnswer
  <1>2. CASE cpc' = "gone" /\ UNCHANGED <<asked, c2s>>
    BY <1>2, NextPrompt
  <1> QED
    BY <1>1, <1>2 DEF LoginFailed

\* The login keeps step.
LEMMA LoginSync ==
    ASSUME TypeInv, InStep, Login \/ LoginV1
    PROVE  SyncInv'
  <1>0. /\ "USER" \in Verbs \ DataVerbs /\ "PASS" \in Verbs \ DataVerbs
        /\ "user" \in Waiting /\ "pass" \in Waiting
        /\ UNCHANGED <<version, spc>>
    BY DEF Verbs, Simple, DataVerbs, Waiting, Login, LoginV1, sessionVars
  <1>1. PICK r \in Incoming :
          \/ Receive("greet", r) /\ (Send("USER", "user") \/ LoginFailed)
          \/ Receive("user", r) /\ (Send("PASS", "pass") \/ LoginFailed)
          \/ Receive("pass", r) /\ ((cpc' = "prompt" /\ UNCHANGED <<asked, c2s>>) \/ LoginFailed)
    BY DEF Login, LoginV1
  <1>2. c2s = <<>> /\ s2c' = <<>> /\ Free
    <2>1. CASE Receive("greet", r)
      <3>1. Greeting
        BY <2>1 DEF Receive, InStep
      <3> QED
        BY <2>1, <3>1, ReadGreeting
    <2>2. CASE Receive("user", r) \/ Receive("pass", r)
      <3>1. OneReply
        BY <2>2 DEF Receive, InStep
      <3> QED
        BY <2>2, <3>1, ReadAnswer
    <2> QED
      BY <1>1, <2>1, <2>2
  <1>3. CASE LoginFailed
    BY <1>0, <1>2, <1>3, NextLoginFailed
  <1>4. CASE Send("USER", "user") \/ Send("PASS", "pass")
    BY <1>0, <1>2, <1>4, NextAnswer
  <1>5. CASE cpc' = "prompt" /\ UNCHANGED <<asked, c2s>>
    BY <1>0, <1>2, <1>5, NextPrompt
  <1> QED
    BY <1>1, <1>3, <1>4, <1>5

\* An operation keeps step from its first command to its last reply.
LEMMA OperationSync ==
    ASSUME BaseInv, InStep,
           \/ ReadLast \/ ReadRnfr \/ ReadPasv \/ Dial \/ ReadBegin
           \/ ReadData \/ SendData \/ ReadQuit
           \/ \E o \in {"simple", "rename", "list", "get", "put", "bye"} : Prompt(o)
    PROVE  SyncInv'
  <1>0. TypeInv
    BY DEF BaseInv
  <1>1. CASE ReadLast
    <2>1. PICK r \in Incoming, wait \in {"only", "final"} : Receive(wait, r)
      BY <1>1 DEF ReadLast
    <2>2. OneReply \/ Transferring
      BY <2>1 DEF Receive, InStep
    <2>3. c2s = <<>> /\ s2c' = <<>> /\ Free
      BY <1>0, <2>1, <2>2, ReadAnswer, ReadFinal
    <2> QED
      BY <1>1, <2>3, NextPrompt DEF ReadLast, sessionVars
  <1>2. CASE ReadRnfr
    <2>1. PICK r \in Incoming : Receive("rnfr", r)
      BY <1>2 DEF ReadRnfr
    <2>2. OneReply
      BY <2>1 DEF Receive, InStep
    <2>3. c2s = <<>> /\ s2c' = <<>> /\ Free
      BY <1>0, <2>1, <2>2, ReadAnswer
    <2>4. "RNTO" \in Verbs \ DataVerbs /\ "only" \in Waiting
      BY DEF Verbs, Simple, DataVerbs, Waiting
    <2> QED
      BY <1>2, <2>3, <2>4, NextAnswer DEF ReadRnfr, sessionVars
  <1>3. CASE ReadPasv
    <2>1. PICK r \in Incoming : Receive("pasv", r) /\ cpc' \in {"dial", "prompt"}
      BY <1>3 DEF ReadPasv
    <2>2. OneReply
      BY <2>1 DEF Receive, InStep
    <2>3. c2s = <<>> /\ s2c' = <<>> /\ Free
      BY <1>0, <2>1, <2>2, ReadAnswer
    <2> QED
      BY <1>3, <2>1, <2>3, NextPrompt DEF ReadPasv, sessionVars
  <1>4. CASE Dial
    <2>1. Idle /\ op \in {"list", "get", "put"}
      BY <1>4 DEF Dial, InStep, BaseInv, OpInv
    <2>2. DataVerb[op] \in DataVerbs
      BY <2>1 DEF DataVerb, DataVerbs
    <2>3. c2s = <<>> /\ s2c' = <<>> /\ Free /\ UNCHANGED <<version, spc>>
      BY <1>4, <2>1 DEF Dial, Idle
    <2>4. CASE Send(DataVerb[op], "begin")
      BY <2>2, <2>3, <2>4, NextTransfer
    <2>5. CASE cpc' = "prompt" /\ UNCHANGED c2s
      BY <2>3, <2>5, NextPrompt
    <2> QED
      BY <1>4, <2>4, <2>5 DEF Dial
  <1>5. CASE ReadBegin
    <2>1. PICK r \in Incoming :
            /\ Receive("begin", r)
            /\ cpc' = "data" \/ (cpc' = "prompt" /\ r.code # 150)
      BY <1>5 DEF ReadBegin
    <2>2. Beginning
      BY <2>1 DEF Receive, InStep
    <2>3. Begun(r) /\ UNCHANGED <<version, spc, verb, asked, c2s>>
      BY <1>0, <1>5, <2>1, <2>2, ReadFirst DEF ReadBegin, sessionVars
    <2>4. CASE cpc' = "data"
      <3>1. Transferring'
        BY <2>3 DEF Begun, Transferring, Busy, Free, Owed
      <3> QED
        BY <2>4, <3>1 DEF SyncInv, InStep
    <2>5. CASE cpc' = "prompt" /\ r.code # 150
      <3>1. c2s' = <<>> /\ s2c' = <<>> /\ Free
        BY <2>3, <2>5 DEF Begun
      <3> QED
        BY <2>3, <2>5, <3>1, NextPrompt
    <2> QED
      BY <2>1, <2>4, <2>5
  <1>6. CASE ReadData \/ SendData
    <2>1. Transferring /\ cpc' \in {"final", "killed"}
      BY <1>6 DEF ReadData, SendData, MayDie, InStep
    <2>2. UNCHANGED <<version, spc, verb, asked, c2s, s2c>>
      BY <1>6 DEF ReadData, SendData, sessionVars
    <2>3. Transferring'
      BY <2>1, <2>2 DEF Transferring, Busy, Free, Owed
    <2> QED
      BY <2>1, <2>3 DEF SyncInv, InStep
  <1>7. CASE ReadQuit
    <2>1. PICK r \in Incoming : Receive("quit", r)
      BY <1>7 DEF ReadQuit
    <2>2. OneReply
      BY <2>1 DEF Receive, InStep
    <2>3. c2s = <<>> /\ s2c' = <<>> /\ Free
      BY <1>0, <2>1, <2>2, ReadAnswer
    <2> QED
      BY <1>7, <2>3, NextPrompt DEF ReadQuit, sessionVars
  <1>8. ASSUME NEW o \in {"simple", "rename", "list", "get", "put", "bye"}, Prompt(o)
        PROVE  SyncInv'
    <2>1. Idle
      BY <1>8 DEF Prompt, InStep
    <2>2. c2s = <<>> /\ s2c' = <<>> /\ Free /\ UNCHANGED <<version, spc>>
      BY <1>8, <2>1 DEF Prompt, Idle, sessionVars
    <2>3. \E v \in Verbs \ DataVerbs, wait \in Waiting : Send(v, wait)
      BY <1>8 DEF Prompt, Opening, DataVerb, DataVerbs, Verbs, Simple, Waiting
    <2> QED
      BY <2>2, <2>3, NextAnswer
  <1> QED
    BY <1>1, <1>2, <1>3, <1>4, <1>5, <1>6, <1>7, <1>8

\* Each step keeps SyncInv.
LEMMA SyncStep ==
    ASSUME BaseInv, SyncInv, Next
    PROVE  SyncInv'
  <1>0. TypeInv
    BY DEF BaseInv
  <1>1. CASE Greet \/ Silent \/ Closing \/ Taking
    <2>1. UNCHANGED <<cpc, gaveUp>>
      BY <1>1, SessionKeeps
    <2> QED
      BY <1>0, <1>1, <2>1, SessionStepKeeps DEF SyncInv, InStep
  <1>2. CASE Login \/ LoginV1
    <2>1. gaveUp' = gaveUp /\ cpc # "killed"
      BY <1>2 DEF Login, LoginV1, Receive
    <2> QED
      BY <1>0, <1>2, <2>1, LoginSync DEF SyncInv
  <1>3. CASE \/ ReadLast \/ ReadRnfr \/ ReadPasv \/ Dial \/ ReadBegin
             \/ ReadData \/ SendData \/ ReadQuit
             \/ \E o \in {"simple", "rename", "list", "get", "put", "bye"} : Prompt(o)
    <2>1. gaveUp' = gaveUp /\ cpc # "killed"
      BY <1>3 DEF ReadLast, ReadRnfr, ReadPasv, Dial, ReadBegin, ReadData, SendData, ReadQuit,
                  Prompt, Receive
    <2> QED
      BY <1>3, <2>1, OperationSync DEF SyncInv
  <1>4. CASE GiveUp \/ ClientDies
    BY <1>4 DEF GiveUp, ClientDies, SyncInv
  <1> QED
    BY <1>1, <1>2, <1>3, <1>4 DEF Next, SessionStep, ClientStep, Silent, Closing, Taking

-----------------------------------------------------------------------------
(* The theorems.                                                           *)

\* Both halves hold of every state.
LEMMA Inductive == Spec => []IInv
  <1>1. Init => IInv
    <2> SUFFICES ASSUME Init PROVE IInv
      OBVIOUS
    <2>1. Pasvs(<<>>) = {}
      BY DEF Pasvs
    <2>2. Cardinality(Pasvs(c2s)) = 0
      BY <2>1, FS_EmptySet DEF Init
    <2>3. BaseInv
      BY <2>2, ClientAssumption DEF Init, BaseInv, TypeInv, OpInv, PortsInv, RepliesInv, DialInv
    <2>4. SyncInv
      BY DEF Init, SyncInv, InStep, Greeting, Owed
    <2> QED
      BY <2>3, <2>4 DEF IInv
  <1>2. IInv /\ [Next]_vars => IInv'
    <2> SUFFICES ASSUME IInv, [Next]_vars PROVE IInv'
      OBVIOUS
    <2>1. CASE Next
      BY <2>1, BaseStep, SyncStep DEF IInv
    <2>2. CASE UNCHANGED vars
      <3>1. BaseInv'
        BY <2>2 DEF IInv, BaseInv, TypeInv, OpInv, PortsInv, RepliesInv, DialInv, Pasvs,
                    vars, clientVars, sessionVars
      <3>2. SyncInv'
        BY <2>2 DEF IInv, SyncInv, InStep, Greeting, OneReply, Idle, Beginning, Transferring,
                    Unserved, Owed, Free, Busy, vars, clientVars, sessionVars
      <3> QED
        BY <3>1, <3>2 DEF IInv
    <2> QED
      BY <2>1, <2>2
  <1> QED
    BY <1>1, <1>2, PTL DEF Spec

\* Ports and replies stay in their ranges for any number of operations: the bound
\* of the model on operations bounds the ports too, since each listener was asked
\* for by a PASV of its own.
THEOREM TypeCorrect == Spec => []TypeOK
  <1>1. IInv => TypeOK
    BY ClientAssumption, BaseFacts DEF IInv, BaseInv, TypeInv, DialInv, TypeOK
  <1> QED
    BY <1>1, Inductive, PTL

\* The client is never off by one reply (InSync), for any number of operations,
\* in both versions, whatever fails on the server's side.
THEOREM StaysInSync == Spec => []InSync
  <1>1. IInv => InSync
    <2> SUFFICES ASSUME IInv, ~gaveUp, cpc # "killed"
                 PROVE  /\ s2c # <<>> => Head(s2c).of \in {asked, "none"}
                        /\ cpc = "prompt" => s2c = <<>> /\ c2s = <<>>
      BY DEF InSync
    <2>1. InStep /\ s2c \in Seq(Replies) /\ cpc \in {"greet", "user", "pass", "prompt", "only",
             "rnfr", "pasv", "dial", "begin", "data", "final", "quit", "gone", "killed"}
      BY DEF IInv, SyncInv, BaseInv, TypeInv
    <2>2. cpc = "prompt" => s2c = <<>> /\ c2s = <<>>
      BY <2>1 DEF InStep, Idle
    <2>3. ASSUME s2c # <<>> PROVE Head(s2c).of \in {asked, "none"}
      <3>1. Head(s2c) = s2c[1] /\ 1 \in 1 .. Len(s2c)
        BY <2>1, <2>3
      <3>2. Owed(1, "none") \/ Owed(1, asked) \/ Owed(2, asked)
        BY <2>1, <2>3 DEF InStep, Greeting, OneReply, Idle, Beginning, Transferring, Unserved
      <3> QED
        BY <3>1, <3>2 DEF Owed
    <2> QED
      BY <2>2, <2>3
  <1> QED
    BY <1>1, Inductive, PTL
=============================================================================
