------------------------------ MODULE Session -------------------------------
(***************************************************************************)
(* The command state machine of src/server/session.{h,cpp} with its        *)
(* DataChannel, for several sessions that share one directory tree, as     *)
(* built for win32, where the "\"-joined paths the code makes name a tree. *)
(* One action per command; a command that needs a data connection is split *)
(* where it waits for the client, and STOR also where it opens its file.   *)
(*                                                                         *)
(* A path of the code is a text: the sequence of its components below      *)
(* rootDir, ".." among them, since resolvePath only joins texts and        *)
(* isWithinRoot only compares their beginnings.  The file system reads a   *)
(* text as a place of the tree, and win32 does that by the text alone.     *)
(* Components "." and "" are left out: they change no place.  What a       *)
(* transfer does to the bytes of a file and to restartOffset_ is in module *)
(* Transfer; how PASS is judged is in module AuthManager.                  *)
(***************************************************************************)
EXTENDS Naturals, Sequences, SequencesExt

CONSTANTS Sessions, Users, Names,
          Up,              \* the component ".."
          Anonymous,       \* the user name "anonymous"
          allowAnonymous,
          Logins,          \* bound of the model: the user names a client sends
          ArgTexts,        \* bound of the model: the path arguments a client sends
          Places,          \* bound of the model: the places of the tree in use
          MaxText          \* bound of the model: components of currentDir_

Texts == Seq(Users \cup Names \cup {Up})
PlaceNames == Users \cup Names

ASSUME SessionAssumption ==
    /\ Anonymous \in Users
    /\ Up \notin PlaceNames
    /\ allowAnonymous \in BOOLEAN
    /\ \A s \in Sessions : Logins[s] \subseteq Users /\ \A a \in ArgTexts[s] : a \in Texts
    /\ \A p \in Places : p \in Seq(PlaceNames) /\ Len(p) >= 1
    /\ \A u \in Users : <<u>> \in Places
    /\ MaxText \in Nat

VARIABLES
    state,       \* state_
    username,    \* username_
    root,        \* userRootDir_, <<>> before the first login
    cwd,         \* currentDir_
    renameFrom,  \* the place renameFrom_ names, <<>> when it is empty
    chan,        \* DataChannel: "passive", "active", or "none" when open() fails
    op,          \* data command being served, "none" between commands
    target,      \* its path
    dirs, files  \* the places that are there; rootDir always is

userVars == <<username, root, cwd>>
dataVars == <<chan, op, target>>
treeVars == <<dirs, files>>
vars == <<state, username, root, cwd, renameFrom, chan, op, target, dirs, files>>

States == {"CONNECTED", "WAIT_USER", "WAIT_PASS", "READY", "TRANSFERRING", "CLOSED"}
Ready == {"READY", "TRANSFERRING"}
NoUser == "nobody"

\* STOR is "STORING" while its file is open and "EXCEEDED" from closing it
\* over the size limit to deleting it.
Ops == {"none", "LIST", "RETR", "STOR", "STORING", "EXCEEDED"}

Init ==
    /\ state = [s \in Sessions |-> "CONNECTED"]
    /\ username = [s \in Sessions |-> NoUser]
    /\ root = [s \in Sessions |-> <<>>]
    /\ cwd = [s \in Sessions |-> <<>>]
    /\ renameFrom = [s \in Sessions |-> <<>>]
    /\ chan = [s \in Sessions |-> "none"]
    /\ op = [s \in Sessions |-> "none"]
    /\ target = [s \in Sessions |-> <<>>]
    /\ dirs = {} /\ files = {}

Set(f, s, v) == [f EXCEPT ![s] = v]

\* The session reads its next command: always-allowed verbs, and the others
\* behind the authentication guard of run().
Reads(s) == state[s] \notin {"CONNECTED", "CLOSED"} /\ op[s] = "none"
LoggedIn(s) == Reads(s) /\ state[s] \in Ready

-----------------------------------------------------------------------------
(* Paths and the file system, from how the handlers use platform.cpp.      *)

\* A text without ".." is its own place.  Otherwise each ".." takes away the
\* component before it, and one that climbs out of rootDir remains.
Plain(p) == \A i \in DOMAIN p : p[i] # Up
Place(p) ==
    IF Plain(p) THEN p ELSE
    LET walk[i \in 0 .. Len(p)] ==
            IF i = 0 THEN <<>>
            ELSE IF p[i] = Up /\ walk[i - 1] # <<>> /\ Last(walk[i - 1]) # Up
            THEN Front(walk[i - 1])
            ELSE Append(walk[i - 1], p[i])
    IN walk[Len(p)]

\* resolvePath: "abs" starts at the user's root, "rel" at currentDir_.
Args(s) == {"abs", "rel"} \X ArgTexts[s]
resolvePath(s, a) == (IF a[1] = "abs" THEN root[s] ELSE cwd[s]) \o a[2]

\* The comparison is of texts.
isWithinRoot(s, p) == IsPrefix(root[s], p)

Entries == dirs \cup files
Exists(p) == p \in Entries
Below(p, q) == IsPrefix(p, q)
Empty(p) == \A q \in Entries \ {p} : ~Below(p, q)

\* createDir and fopen(..., "wb") need the parent; rootDir is there.
CanCreate(p) == Len(p) = 1 \/ Front(p) \in dirs
CreateDir(p) == dirs' = IF CanCreate(p) /\ ~Exists(p) THEN dirs \cup {p} ELSE dirs

\* fopen lets nobody delete or rename the file while it is open.
Opened(p) == \E x \in Sessions : op[x] = "STORING" /\ Place(target[x]) = p

\* MoveFile takes a directory with everything in it, and replaces nothing.
CanRename(from, to) ==
    /\ Exists(from) /\ ~Exists(to) /\ CanCreate(to) /\ ~Below(from, to)
    /\ \A q \in files : Below(from, q) => ~Opened(q)
Moved(from, to, S) ==
    {IF Below(from, p) THEN to \o SubSeq(p, Len(from) + 1, Len(p)) ELSE p : p \in S}

-----------------------------------------------------------------------------
(* Session life and login.                                                 *)

Run(s) ==
    /\ state[s] = "CONNECTED"
    /\ state' = Set(state, s, "WAIT_USER")
    /\ UNCHANGED <<userVars, renameFrom, dataVars, treeVars>>

\* run() returns or throws, and the worker destroys the session.
Closes(s) ==
    /\ state' = Set(state, s, "CLOSED")
    /\ username' = Set(username, s, NoUser)
    /\ root' = Set(root, s, <<>>) /\ cwd' = Set(cwd, s, <<>>)
    /\ renameFrom' = Set(renameFrom, s, <<>>)
    /\ chan' = Set(chan, s, "none")
    /\ UNCHANGED <<op, target, treeVars>>

\* QUIT; or recv() returns nothing: disconnected or timed out.
Leave(s) == Reads(s) /\ Closes(s)

\* Anonymous login, and what a correct password does.
EnterHome(s, u) ==
    /\ username' = Set(username, s, u)
    /\ root' = Set(root, s, <<u>>)
    /\ CreateDir(<<u>>)
    /\ cwd' = Set(cwd, s, <<u>>)
    /\ state' = Set(state, s, "READY")

\* Mutant: USER keeps the login.
UserKeepsReady(s, u) ==
    /\ Reads(s)
    /\ username' = Set(username, s, u)
    /\ state' = IF state[s] = "READY" THEN state ELSE Set(state, s, "WAIT_PASS")
    /\ UNCHANGED <<root, cwd, renameFrom, dataVars, treeVars>>

handleUser(s, u) ==
    /\ Reads(s)
    /\ \/ /\ u = Anonymous /\ allowAnonymous
          /\ EnterHome(s, u)
       \/ /\ ~(u = Anonymous /\ allowAnonymous)
          /\ username' = Set(username, s, u)
          /\ state' = Set(state, s, "WAIT_PASS")
          /\ UNCHANGED <<root, cwd, dirs>>
    /\ UNCHANGED <<renameFrom, dataVars, files>>

\* Mutant: a second login keeps the working directory of the first.
PassKeepsCwd(s) ==
    /\ Reads(s) /\ state[s] = "WAIT_PASS"
    /\ root' = Set(root, s, <<username[s]>>)
    /\ CreateDir(<<username[s]>>)
    /\ cwd' = IF cwd[s] = <<>> THEN Set(cwd, s, <<username[s]>>) ELSE cwd
    /\ state' = Set(state, s, "READY")
    /\ UNCHANGED <<username, renameFrom, dataVars, files>>

\* Rate limited, wrong or right.  In any state but WAIT_PASS the answer is 503.
handlePass(s) ==
    /\ Reads(s) /\ state[s] = "WAIT_PASS"
    /\ \/ Closes(s)
       \/ /\ state' = Set(state, s, "WAIT_USER")
          /\ UNCHANGED <<userVars, renameFrom, dataVars, treeVars>>
       \/ /\ EnterHome(s, username[s])
          /\ UNCHANGED <<renameFrom, dataVars, files>>

-----------------------------------------------------------------------------
(* Directories and names.                                                  *)

handleCwd(s, a) ==
    LET p == resolvePath(s, a) IN
    /\ LoggedIn(s)
    /\ isWithinRoot(s, p) /\ Place(p) \in dirs \cup {<<>>}
    /\ Len(p) <= MaxText
    /\ cwd' = Set(cwd, s, p)
    /\ UNCHANGED <<state, username, root, renameFrom, dataVars, treeVars>>

\* The last component of the text goes, be it "..".
handleCdup(s) ==
    /\ LoggedIn(s)
    /\ cwd[s] # root[s]
    /\ isWithinRoot(s, Front(cwd[s]))
    /\ cwd' = Set(cwd, s, Front(cwd[s]))
    /\ UNCHANGED <<state, username, root, renameFrom, dataVars, treeVars>>

\* Mutant: what is there already is taken for the new directory.
MkdOverFile(s, a) ==
    LET p == resolvePath(s, a) IN
    /\ LoggedIn(s)
    /\ isWithinRoot(s, p) /\ Place(p) \in Places
    /\ CanCreate(Place(p))
    /\ dirs' = dirs \cup {Place(p)}
    /\ UNCHANGED <<state, userVars, renameFrom, dataVars, files>>

handleMkd(s, a) ==
    LET p == resolvePath(s, a) IN
    /\ LoggedIn(s)
    /\ isWithinRoot(s, p) /\ Place(p) \in Places
    /\ CreateDir(Place(p))
    /\ UNCHANGED <<state, userVars, renameFrom, dataVars, files>>

\* Somebody's working directory may go with it.
handleRmd(s, a) ==
    LET p == resolvePath(s, a) IN
    /\ LoggedIn(s)
    /\ isWithinRoot(s, p) /\ Place(p) \in dirs /\ Empty(Place(p))
    /\ dirs' = dirs \ {Place(p)}
    /\ UNCHANGED <<state, userVars, renameFrom, dataVars, files>>

handleDele(s, a) ==
    LET p == resolvePath(s, a) IN
    /\ LoggedIn(s)
    /\ isWithinRoot(s, p) /\ Place(p) \in files /\ ~Opened(Place(p))
    /\ files' = files \ {Place(p)}
    /\ UNCHANGED <<state, userVars, renameFrom, dataVars, dirs>>

handleRnfr(s, a) ==
    LET p == resolvePath(s, a) IN
    /\ LoggedIn(s)
    /\ isWithinRoot(s, p) /\ Exists(Place(p))
    /\ renameFrom' = Set(renameFrom, s, Place(p))
    /\ UNCHANGED <<state, userVars, dataVars, treeVars>>

\* renameFrom_ is not checked again, and it is forgotten whether or not the
\* rename succeeds.
handleRnto(s, a) ==
    LET from == renameFrom[s]
        to == Place(resolvePath(s, a))
    IN
    /\ LoggedIn(s)
    /\ from # <<>>
    /\ isWithinRoot(s, resolvePath(s, a)) /\ to \in Places
    /\ IF CanRename(from, to) /\ Moved(from, to, Entries) \subseteq Places
       THEN dirs' = Moved(from, to, dirs) /\ files' = Moved(from, to, files)
       ELSE UNCHANGED treeVars
    /\ renameFrom' = Set(renameFrom, s, <<>>)
    /\ UNCHANGED <<state, userVars, dataVars>>

-----------------------------------------------------------------------------
(* The data connection.                                                    *)

\* enterPassive closes the old listener first; if it then fails usePassive_
\* keeps its value, so an earlier PORT stays in force.
handlePasv(s) ==
    /\ LoggedIn(s)
    /\ \/ chan' = Set(chan, s, "passive")
       \/ chan' = Set(chan, s, IF chan[s] = "passive" THEN "none" ELSE chan[s])
    /\ UNCHANGED <<state, userVars, renameFrom, op, target, treeVars>>

handlePort(s) ==
    /\ LoggedIn(s)
    /\ chan' = Set(chan, s, "active")
    /\ UNCHANGED <<state, userVars, renameFrom, op, target, treeVars>>

\* std::stoi throws on an argument that is not a list of numbers.
PortThrows(s) == LoggedIn(s) /\ Closes(s)

\* LIST and NLST, which read currentDir_, RETR and STOR, up to
\* dataChannel_.open().
BeginList(s) ==
    /\ LoggedIn(s)
    /\ op' = Set(op, s, "LIST")
    /\ UNCHANGED <<state, userVars, renameFrom, chan, target, treeVars>>

BeginFile(s, c, a) ==
    LET p == resolvePath(s, a) IN
    /\ LoggedIn(s)
    /\ isWithinRoot(s, p) /\ Place(p) \in Places
    /\ c = "RETR" => Place(p) \in files
    /\ op' = Set(op, s, c)
    /\ target' = Set(target, s, p)
    /\ UNCHANGED <<state, userVars, renameFrom, chan, treeVars>>

\* The client connects to the listener, or accepts the server's connection.
OpenData(s) ==
    /\ op[s] # "none" /\ state[s] = "READY"
    /\ chan[s] \in {"passive", "active"}
    /\ state' = Set(state, s, "TRANSFERRING")
    /\ chan' = Set(chan, s, IF chan[s] = "passive" THEN "none" ELSE "active")
    /\ UNCHANGED <<userVars, renameFrom, op, target, treeVars>>

\* accept() on a listener already used, connect() to nowhere: 425.  accept()
\* on a listener nobody connects to does not return.
OpenDataFails(s) ==
    /\ op[s] # "none" /\ state[s] = "READY"
    /\ chan[s] # "passive"
    /\ op' = Set(op, s, "none")
    /\ target' = Set(target, s, <<>>)
    /\ UNCHANGED <<state, userVars, renameFrom, chan, treeVars>>

\* recvFile: fopen makes the file, if its directory is still there.
CanStore(p) == CanCreate(p) /\ p \notin dirs
StorOpen(s) ==
    /\ state[s] = "TRANSFERRING" /\ op[s] = "STOR"
    /\ CanStore(Place(target[s]))
    /\ files' = files \cup {Place(target[s])}
    /\ op' = Set(op, s, "STORING")
    /\ UNCHANGED <<state, userVars, renameFrom, chan, target, dirs>>

\* The upload exceeds maxFileSize: the file is closed, and then deleted.
StorExceeds(s) ==
    /\ state[s] = "TRANSFERRING" /\ op[s] = "STORING"
    /\ op' = Set(op, s, "EXCEEDED")
    /\ UNCHANGED <<state, userVars, renameFrom, chan, target, treeVars>>

\* Back to the loop of run().
Finish(s) ==
    /\ state' = Set(state, s, "READY")
    /\ op' = Set(op, s, "none")
    /\ target' = Set(target, s, <<>>)
    /\ UNCHANGED <<userVars, renameFrom, chan, dirs>>

\* deleteFile fails on a file that is gone or that somebody has opened since.
StorDelete(s) ==
    /\ state[s] = "TRANSFERRING" /\ op[s] = "EXCEEDED"
    /\ files' = IF Opened(Place(target[s])) THEN files ELSE files \ {Place(target[s])}
    /\ Finish(s)

\* The listing or the file has been sent or stored, or STOR cannot open it.
FinishData(s) ==
    /\ state[s] = "TRANSFERRING" /\ op[s] # "EXCEEDED"
    /\ op[s] = "STOR" => ~CanStore(Place(target[s]))
    /\ files' = files
    /\ Finish(s)

-----------------------------------------------------------------------------
\* A command with path argument a.
PathCommand(s, a) ==
    \/ handleCwd(s, a) \/ handleMkd(s, a) \/ handleRmd(s, a) \/ handleDele(s, a)
    \/ handleRnfr(s, a) \/ handleRnto(s, a)
    \/ \E c \in {"RETR", "STOR"} : BeginFile(s, c, a)

Transferring(s) == StorOpen(s) \/ StorExceeds(s) \/ StorDelete(s) \/ FinishData(s)

OtherStep(s) ==
    \/ Run(s) \/ Leave(s) \/ handlePass(s) \/ handleCdup(s)
    \/ \E u \in Logins[s] : handleUser(s, u)
    \/ handlePasv(s) \/ handlePort(s) \/ PortThrows(s)
    \/ BeginList(s) \/ OpenData(s) \/ OpenDataFails(s) \/ Transferring(s)

Next ==
    \/ \E s \in Sessions : OtherStep(s) \/ \E a \in Args(s) : PathCommand(s, a)
    \/ (\A s \in Sessions : state[s] = "CLOSED") /\ UNCHANGED vars

Spec == Init /\ [][Next]_vars

\* What the server does on its own: a failing open returns and a transfer that
\* has begun ends.  The client is free.
FairSpec ==
    /\ Spec
    /\ \A s \in Sessions : WF_vars(OpenDataFails(s)) /\ WF_vars(Transferring(s))

-----------------------------------------------------------------------------
TypeOK ==
    /\ state \in [Sessions -> States]
    /\ username \in [Sessions -> Users \cup {NoUser}]
    /\ chan \in [Sessions -> {"none", "passive", "active"}]
    /\ op \in [Sessions -> Ops]
    /\ dirs \cap files = {}
    /\ Entries \subseteq Places

\* A session that may touch files works on texts that begin with the root of
\* the user it is logged in as, through any sequence of logins, failed logins,
\* CWD and CDUP; so a text without ".." names a place in that user's home.
\* Of a text with ".." only its beginning is known: nothing keeps its place in
\* the home.
ReadyOwnsRoot ==
    \A s \in Sessions : state[s] \in Ready =>
        /\ root[s] = <<username[s]>>
        /\ \A p \in {cwd[s]} \cup (IF op[s] \in {"none", "LIST"} THEN {} ELSE {target[s]}) :
              isWithinRoot(s, p) /\ (Plain(p) => Below(root[s], Place(p)))

\* A step of session s, with path argument a if it takes one, and that the
\* paths it uses have no "..".
Step(s, a) == OtherStep(s) \/ PathCommand(s, a)
Straight(s, a) == Plain(resolvePath(s, a)) /\ Plain(target[s])

\* What a session makes, by login, MKD, STOR or RNTO, it makes while it is
\* logged in, and in the home of the user it is logged in as when its path has
\* no "..".
WritesAtHome ==
    [][\A p \in Entries' \ Entries : \A s \in Sessions : \A a \in Args(s) : Step(s, a) =>
         /\ state'[s] \in Ready
         /\ Straight(s, a) => p[1] = username'[s]]_vars

\* What a session removes, by DELE, RMD, RNTO or an upload over the limit, it
\* removes while it is logged in, and from the home of the user it is logged in
\* as when its path has no ".."; except that RNTO takes what RNFR named, maybe
\* under an earlier login: neither USER nor PASS forgets renameFrom_.
RemovesAtHome ==
    [][\A p \in Entries \ Entries' : \A s \in Sessions : \A a \in Args(s) : Step(s, a) =>
         /\ state[s] \in Ready
         /\ \/ Straight(s, a) => p[1] = username[s]
            \/ /\ renameFrom[s] # <<>> /\ renameFrom'[s] = <<>>
               /\ Below(renameFrom[s], p)]_vars

\* A data command comes to an end and the control connection is read again
\* ("isolating the I/O of active file transfers from the primary command
\* channel").
ControlAlive == \A s \in Sessions : (op[s] # "none") ~> (op[s] = "none")
=============================================================================
