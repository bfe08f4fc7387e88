---------------------------- MODULE SessionProofs ---------------------------
(***************************************************************************)
(* For any sessions, users, names, arguments and places: the tree stays a  *)
(* tree, a session that may touch files uses texts that begin with its     *)
(* user's root, and it makes and removes things in its user's home only,   *)
(* as long as its paths have no "..".                                      *)
(***************************************************************************)
EXTENDS Session, TLAPS

-----------------------------------------------------------------------------
(* The strengthening.                                                      *)

Paths == Seq(PlaceNames)

\* A user name has been given before a password is asked for.
LoginInv ==
    \A s \in Sessions :
        state[s] \in {"WAIT_PASS", "READY", "TRANSFERRING"} => username[s] \in Users

\* A session that is logged in has its user's root, and its texts begin there.
HomeInv ==
    \A s \in Sessions : state[s] \in Ready =>
        /\ root[s] = <<username[s]>>
        /\ IsPrefix(root[s], cwd[s])
        /\ op[s] \notin {"none", "LIST"} => IsPrefix(root[s], target[s])

\* The place of a STOR was checked against the bound when it was begun.
Uploads == {"STOR", "STORING", "EXCEEDED"}
TargetInv == \A s \in Sessions : op[s] \in Uploads => Place(target[s]) \in Places

\* What is in the tree has its parents in the tree, and they are directories.
TreeInv ==
    \A p \in Entries : \A k \in 1 .. Len(p) - 1 : SubSeq(p, 1, k) \in dirs

\* What the sessions know.
Chans == {"none", "passive", "active"}
SessionInv ==
    /\ state \in [Sessions -> States]
    /\ username \in [Sessions -> Users \cup {NoUser}]
    /\ chan \in [Sessions -> Chans]
    /\ op \in [Sessions -> Ops]
    /\ root \in [Sessions -> Texts]
    /\ cwd \in [Sessions -> Texts]
    /\ renameFrom \in [Sessions -> Paths]
    /\ target \in [Sessions -> Texts]
    /\ LoginInv
    /\ TargetInv
    /\ HomeInv

\* What is in the file system.
FileInv ==
    /\ dirs \subseteq Places
    /\ files \subseteq Places
    /\ dirs \cap files = {}
    /\ TreeInv

IInv == SessionInv /\ FileInv

-----------------------------------------------------------------------------
(* Facts about paths.                                                      *)

\* The first k names of a path.
LEMMA PreFacts ==
    ASSUME NEW S, NEW p \in Seq(S), NEW k \in 0 .. Len(p)
    PROVE  /\ SubSeq(p, 1, k) \in Seq(S)
           /\ Len(SubSeq(p, 1, k)) = k
           /\ \A i \in 1 .. k : SubSeq(p, 1, k)[i] = p[i]
  OBVIOUS

\* Two sequences are equal when their elements are.
LEMMA SeqEqual ==
    ASSUME NEW S, NEW p \in Seq(S), NEW q \in Seq(S), Len(p) = Len(q),
           \A i \in 1 .. Len(p) : p[i] = q[i]
    PROVE  p = q
  OBVIOUS

\* IsPrefix, by elements.
LEMMA PrefixFacts ==
    ASSUME NEW S, NEW p \in Seq(S), NEW q \in Seq(S)
    PROVE  IsPrefix(p, q) <=> Len(p) <= Len(q) /\ \A i \in 1 .. Len(p) : p[i] = q[i]
  <1>1. SubSeq(p, 1, Len(p)) = p
    BY PreFacts, SeqEqual
  <1>2. ASSUME Len(p) <= Len(q)
        PROVE  /\ SubSeq(q, 1, Len(p)) \in Seq(S) /\ Len(SubSeq(q, 1, Len(p))) = Len(p)
               /\ \A i \in 1 .. Len(p) : SubSeq(q, 1, Len(p))[i] = q[i]
    <2>1. Len(p) \in 0 .. Len(q)
      BY <1>2
    <2> QED
      BY <2>1, PreFacts
  <1>3. ASSUME Len(p) <= Len(q), \A i \in 1 .. Len(p) : p[i] = q[i]
        PROVE  p = SubSeq(q, 1, Len(p))
    BY <1>2, <1>3, SeqEqual
  <1> QED
    BY <1>1, <1>2, <1>3 DEF IsPrefix

\* A place of the tree is a path, and not rootDir.
LEMMA PlaceFacts ==
    ASSUME NEW p \in Places
    PROVE  p \in Paths /\ Len(p) \in Nat /\ Len(p) >= 1 /\ p # <<>>
  <1>1. p \in Paths /\ Len(p) >= 1
    BY SessionAssumption DEF Paths
  <1>2. Len(p) \in Nat
    BY <1>1 DEF Paths
  <1>3. p # <<>>
    BY <1>1
  <1> QED
    BY <1>1, <1>2, <1>3

\* Two paths joined have the elements of the first, then of the second.
LEMMA Joined ==
    ASSUME NEW a \in Paths, NEW b \in Paths
    PROVE  /\ a \o b \in Paths /\ Len(a \o b) = Len(a) + Len(b)
           /\ \A i \in 1 .. Len(a) : (a \o b)[i] = a[i]
           /\ \A i \in 1 .. Len(b) : (a \o b)[Len(a) + i] = b[i]
  <1>1. Len(a) \in Nat /\ Len(b) \in Nat
    BY DEF Paths
  <1>2. a \o b \in Paths /\ Len(a \o b) = Len(a) + Len(b)
    BY DEF Paths
  <1>3. \A i \in 1 .. Len(a) : (a \o b)[i] = a[i]
    BY <1>1 DEF Paths
  <1>4. \A i \in 1 .. Len(b) : (a \o b)[Len(a) + i] = b[i]
    BY <1>1 DEF Paths
  <1> QED
    BY <1>2, <1>3, <1>4

\* Where MoveFile takes a path below the one it renames.
Dest(from, to, p) == to \o SubSeq(p, Len(from) + 1, Len(p))

\* A place of a moved entry is a path below the new name.
LEMMA DestFacts ==
    ASSUME NEW from \in Paths, NEW to \in Paths, NEW p \in Paths, IsPrefix(from, p)
    PROVE  /\ Dest(from, to, p) \in Paths
           /\ Len(Dest(from, to, p)) = Len(to) + Len(p) - Len(from)
           /\ \A i \in 1 .. Len(to) : Dest(from, to, p)[i] = to[i]
           /\ \A i \in 1 .. Len(p) - Len(from) :
                 Dest(from, to, p)[Len(to) + i] = p[Len(from) + i]
  <1> DEFINE r == SubSeq(p, Len(from) + 1, Len(p))
  <1>1. Len(from) <= Len(p) /\ Len(from) \in Nat /\ Len(p) \in Nat /\ Len(to) \in Nat
    BY PrefixFacts DEF Paths
  <1>2. /\ r \in Paths /\ Len(r) = Len(p) - Len(from)
        /\ \A i \in 1 .. Len(p) - Len(from) : r[i] = p[Len(from) + i]
    BY <1>1 DEF Paths
  <1>3. Dest(from, to, p) = to \o r
    BY DEF Dest
  <1> HIDE DEF r
  <1>4. /\ to \o r \in Paths /\ Len(to \o r) = Len(to) + Len(r)
        /\ \A i \in 1 .. Len(to) : (to \o r)[i] = to[i]
        /\ \A i \in 1 .. Len(r) : (to \o r)[Len(to) + i] = r[i]
    BY <1>2, Joined
  <1> QED
    BY <1>1, <1>2, <1>3, <1>4

\* A path is in a user's home when its first name is the user's.
LEMMA HomePrefix ==
    ASSUME NEW S, NEW u \in S, NEW q \in Seq(S)
    PROVE  IsPrefix(<<u>>, q) <=> Len(q) >= 1 /\ q[1] = u
  <1> DEFINE h == <<u>>
  <1>1. h \in Seq(S) /\ Len(h) = 1 /\ h[1] = u
    OBVIOUS
  <1> HIDE DEF h
  <1>2. IsPrefix(h, q) <=> Len(h) <= Len(q) /\ \A i \in 1 .. Len(h) : h[i] = q[i]
    BY <1>1, PrefixFacts
  <1>3. Len(q) \in Nat /\ 1 .. 1 = {1}
    OBVIOUS
  <1>4. IsPrefix(h, q) <=> Len(q) >= 1 /\ q[1] = u
    BY <1>1, <1>2, <1>3
  <1> QED
    BY <1>4 DEF h

\* A text that begins with the root of a user has that user's name first.
LEMMA TextHome ==
    ASSUME NEW u \in Users, NEW q \in Texts
    PROVE  IsPrefix(<<u>>, q) <=> Len(q) >= 1 /\ q[1] = u
  <1> DEFINE S == Users \cup Names \cup {Up}
  <1>1. u \in S /\ q \in Seq(S)
    BY DEF Texts
  <1> HIDE DEF S
  <1> QED
    BY <1>1, HomePrefix

\* The text resolvePath makes begins with the root of the user who is logged
\* in, so its place is in that user's home when it has no "..".
LEMMA Resolved ==
    ASSUME SessionInv, NEW s \in Sessions, LoggedIn(s), NEW a \in Args(s)
    PROVE  /\ username[s] \in Users /\ root[s] = <<username[s]>>
           /\ resolvePath(s, a) \in Texts
           /\ IsPrefix(root[s], resolvePath(s, a))
           /\ Plain(resolvePath(s, a)) => Place(resolvePath(s, a))[1] = username[s]
  <1> DEFINE S == Users \cup Names \cup {Up}
  <1>1. /\ username[s] \in Users /\ root[s] = <<username[s]>>
        /\ IsPrefix(root[s], cwd[s]) /\ root[s] \in Texts /\ cwd[s] \in Texts
    BY DEF LoggedIn, LoginInv, HomeInv, SessionInv, Ready
  <1>2. /\ Len(cwd[s]) >= 1 /\ cwd[s][1] = username[s]
        /\ Len(root[s]) = 1 /\ root[s][1] = username[s]
    <2>1. Len(cwd[s]) >= 1 /\ cwd[s][1] = username[s]
      BY <1>1, TextHome
    <2> QED
      BY <1>1, <2>1
  <1> DEFINE b == IF a[1] = "abs" THEN root[s] ELSE cwd[s]
             e == a[2]
             r == resolvePath(s, a)
  <1>3. b \in Seq(S) /\ Len(b) >= 1 /\ b[1] = username[s] /\ e \in Seq(S)
    <2>1. e \in ArgTexts[s]
      BY DEF Args
    <2>2. e \in Texts
      BY <2>1, SessionAssumption
    <2>3. b \in Texts /\ Len(b) >= 1 /\ b[1] = username[s]
      BY <1>1, <1>2
    <2> QED
      BY <2>2, <2>3 DEF Texts
  <1>4. r = b \o e
    BY DEF resolvePath
  <1> HIDE DEF b, e, r, S
  <1>5. /\ r \in Seq(S) /\ Len(r) >= 1 /\ r[1] = username[s]
    BY <1>3, <1>4
  <1>6. r \in Texts
    BY <1>5 DEF S, Texts
  <1>7. IsPrefix(root[s], r)
    BY <1>1, <1>5, <1>6, TextHome
  <1>8. Plain(r) => Place(r)[1] = username[s]
    BY <1>5 DEF Place
  <1> QED
    BY <1>1, <1>6, <1>7, <1>8 DEF r

\* A new entry has its parents in the tree.
LEMMA NewEntry ==
    ASSUME TreeInv, NEW p \in Paths, CanCreate(p)
    PROVE  \A k \in 1 .. Len(p) - 1 : SubSeq(p, 1, k) \in dirs
  <1> SUFFICES ASSUME NEW k \in 1 .. Len(p) - 1 PROVE SubSeq(p, 1, k) \in dirs
    OBVIOUS
  <1> DEFINE f == Front(p)
  <1>1. Len(p) \in Nat /\ Len(p) > 1 /\ Len(p) - 1 \in 0 .. Len(p) /\ k \in 0 .. Len(p)
    <2>1. Len(p) \in Nat
      BY DEF Paths
    <2> QED
      BY <2>1
  <1>2. f \in dirs /\ f = SubSeq(p, 1, Len(p) - 1)
    <2>1. ASSUME Len(p) = 1 PROVE FALSE
      BY <1>1, <2>1
    <2> QED
      BY <2>1 DEF CanCreate, Front
  <1>3. /\ f \in Paths /\ Len(f) = Len(p) - 1
        /\ \A i \in 1 .. Len(p) - 1 : f[i] = p[i]
    BY <1>1, <1>2, PreFacts DEF Paths
  <1> HIDE DEF f
  <1>4. CASE k = Len(p) - 1
    BY <1>2, <1>4
  <1>5. CASE k # Len(p) - 1
    <2>1. k \in 1 .. Len(f) - 1 /\ k \in 0 .. Len(f)
      BY <1>1, <1>3, <1>5
    <2>2. SubSeq(f, 1, k) \in dirs
      BY <1>2, <2>1 DEF TreeInv, Entries
    <2>3. /\ SubSeq(f, 1, k) \in Paths /\ Len(SubSeq(f, 1, k)) = k
          /\ \A i \in 1 .. k : SubSeq(f, 1, k)[i] = f[i]
      BY <1>3, <2>1, PreFacts DEF Paths
    <2>4. /\ SubSeq(p, 1, k) \in Paths /\ Len(SubSeq(p, 1, k)) = k
          /\ \A i \in 1 .. k : SubSeq(p, 1, k)[i] = p[i]
      BY <1>1, PreFacts DEF Paths
    <2>5. \A i \in 1 .. k : i \in 1 .. Len(p) - 1
      BY <1>1
    <2>6. SubSeq(f, 1, k) = SubSeq(p, 1, k)
      BY <1>3, <2>3, <2>4, <2>5, SeqEqual DEF Paths
    <2> QED
      BY <2>2, <2>6
  <1> QED
    BY <1>4, <1>5

\* A prefix that is no longer than the path is what SubSeq cuts off.
LEMMA PrefixIsSubSeq ==
    ASSUME NEW p \in Paths, NEW q \in Paths
    PROVE  IsPrefix(p, q) <=> Len(p) <= Len(q) /\ p = SubSeq(q, 1, Len(p))
  <1>1. SubSeq(p, 1, Len(p)) = p
    BY PreFacts, SeqEqual DEF Paths
  <1> QED
    BY <1>1 DEF IsPrefix

\* A prefix of a prefix of a path is a prefix of the path.
LEMMA PrefixOfPrefix ==
    ASSUME NEW p \in Paths, NEW q \in Paths, NEW k \in 0 .. Len(q),
           IsPrefix(p, SubSeq(q, 1, k))
    PROVE  IsPrefix(p, q) /\ Len(p) <= k
  <1> DEFINE r == SubSeq(q, 1, k)
  <1>1. /\ r \in Paths /\ Len(r) = k /\ \A i \in 1 .. k : r[i] = q[i]
        /\ Len(p) \in Nat /\ Len(q) \in Nat /\ IsPrefix(p, r)
    BY PreFacts DEF Paths
  <1> HIDE DEF r
  <1>2. Len(p) <= k /\ \A i \in 1 .. Len(p) : p[i] = r[i]
    BY <1>1, PrefixFacts DEF Paths
  <1>3. \A i \in 1 .. Len(p) : p[i] = q[i]
    BY <1>1, <1>2
  <1>4. Len(p) <= Len(q)
    BY <1>1, <1>2
  <1> QED
    BY <1>2, <1>3, <1>4, PrefixFacts DEF Paths

\* MoveFile onto a free name keeps the tree a tree: no two entries collide, and
\* what it moves keeps its parents.
LEMMA MovedTree ==
    ASSUME FileInv, NEW from \in Paths, NEW to \in Paths,
           Len(to) >= 1, CanRename(from, to)
    PROVE  /\ Moved(from, to, dirs) \subseteq Paths /\ Moved(from, to, files) \subseteq Paths
           /\ Moved(from, to, dirs) \cap Moved(from, to, files) = {}
           /\ \A p \in Moved(from, to, dirs) \cup Moved(from, to, files) :
                 \A k \in 1 .. Len(p) - 1 : SubSeq(p, 1, k) \in Moved(from, to, dirs)
           /\ \A p \in Moved(from, to, dirs) \cup Moved(from, to, files) :
                 p \in Entries \/ IsPrefix(to, p)
           /\ \A p \in Entries :
                 p \in Moved(from, to, dirs) \cup Moved(from, to, files) \/ IsPrefix(from, p)
  <1> DEFINE tree == Entries
             mv(p) == IF IsPrefix(from, p) THEN Dest(from, to, p) ELSE p
             nd == {mv(p) : p \in dirs}
             nf == {mv(p) : p \in files}
  <1>0. /\ tree \subseteq Paths /\ dirs \cap files = {}
        /\ dirs \subseteq tree /\ files \subseteq tree
        /\ Moved(from, to, dirs) = nd /\ Moved(from, to, files) = nf
        /\ from \in tree /\ to \notin tree /\ CanCreate(to) /\ ~IsPrefix(from, to)
        /\ Len(from) \in Nat /\ Len(to) \in Nat
        /\ tree = dirs \cup files
    <2>1. tree \subseteq Paths
      BY PlaceFacts DEF FileInv, Entries
    <2>2. /\ dirs \cap files = {} /\ dirs \subseteq tree /\ files \subseteq tree
          /\ from \in tree /\ to \notin tree /\ CanCreate(to) /\ ~IsPrefix(from, to)
      BY DEF FileInv, Entries, CanRename, Exists, Below
    <2>3. Moved(from, to, dirs) = nd /\ Moved(from, to, files) = nf
      BY DEF Moved, Below, Dest
    <2>4. Len(from) \in Nat /\ Len(to) \in Nat /\ tree = dirs \cup files
      BY DEF Paths, Entries
    <2> QED
      BY <2>1, <2>2, <2>3, <2>4
  \* Nothing in the tree is below the new name.
  <1>1. \A q \in tree : ~IsPrefix(to, q)
    <2> SUFFICES ASSUME NEW q \in tree, IsPrefix(to, q) PROVE FALSE
      OBVIOUS
    <2>1. q \in Paths /\ Len(q) \in Nat /\ Len(to) <= Len(q) /\ to = SubSeq(q, 1, Len(to))
      BY <1>0, PrefixIsSubSeq DEF Paths
    <2>2. CASE Len(to) = Len(q)
      <3>1. SubSeq(q, 1, Len(q)) = q
        BY <2>1, PreFacts, SeqEqual DEF Paths
      <3> QED
        BY <1>0, <2>1, <2>2, <3>1
    <2>3. CASE Len(to) < Len(q)
      <3>1. Len(to) \in 1 .. Len(q) - 1
        BY <1>0, <2>1, <2>3
      <3> QED
        BY <1>0, <2>1, <3>1 DEF FileInv, TreeInv
    <2> QED
      BY <1>0, <2>1, <2>2, <2>3
  \* What is not below the old name stays, and so do its parents.
  <1>2. ASSUME NEW q \in Paths, ~IsPrefix(from, q), NEW k \in 0 .. Len(q)
        PROVE  ~IsPrefix(from, SubSeq(q, 1, k))
    BY <1>2, PrefixOfPrefix
  <1>3. \A q \in tree : IsPrefix(from, q) =>
            /\ mv(q) = Dest(from, to, q) /\ mv(q) \in Paths
            /\ Len(mv(q)) = Len(to) + Len(q) - Len(from) /\ Len(from) <= Len(q)
            /\ \A i \in 1 .. Len(to) : mv(q)[i] = to[i]
            /\ \A i \in 1 .. Len(q) - Len(from) : mv(q)[Len(to) + i] = q[Len(from) + i]
    <2> SUFFICES ASSUME NEW q \in tree, IsPrefix(from, q)
                 PROVE  /\ mv(q) = Dest(from, to, q) /\ mv(q) \in Paths
                        /\ Len(mv(q)) = Len(to) + Len(q) - Len(from) /\ Len(from) <= Len(q)
                        /\ \A i \in 1 .. Len(to) : mv(q)[i] = to[i]
                        /\ \A i \in 1 .. Len(q) - Len(from) :
                              mv(q)[Len(to) + i] = q[Len(from) + i]
      OBVIOUS
    <2>1. mv(q) = Dest(from, to, q) /\ q \in Paths
      BY <1>0
    <2>2. Len(from) <= Len(q)
      BY <1>0, <2>1, PrefixFacts DEF Paths
    <2>3. /\ Dest(from, to, q) \in Paths
          /\ Len(Dest(from, to, q)) = Len(to) + Len(q) - Len(from)
          /\ \A i \in 1 .. Len(to) : Dest(from, to, q)[i] = to[i]
          /\ \A i \in 1 .. Len(q) - Len(from) :
                Dest(from, to, q)[Len(to) + i] = q[Len(from) + i]
      BY <2>1, DestFacts
    <2> HIDE DEF mv
    <2> QED
      BY <2>1, <2>2, <2>3
  <1>4. \A q \in tree : ~IsPrefix(from, q) => mv(q) = q
    OBVIOUS
  <1> HIDE DEF mv
  <1>5. \A q \in tree : mv(q) \in Paths
    BY <1>0, <1>3, <1>4
  <1>6. \A q \in tree : IsPrefix(from, q) => IsPrefix(to, mv(q))
    <2> SUFFICES ASSUME NEW q \in tree, IsPrefix(from, q) PROVE IsPrefix(to, mv(q))
      OBVIOUS
    <2>1. /\ mv(q) \in Paths /\ Len(q) \in Nat /\ Len(from) <= Len(q)
          /\ Len(mv(q)) = Len(to) + Len(q) - Len(from)
          /\ \A i \in 1 .. Len(to) : mv(q)[i] = to[i]
      BY <1>0, <1>3 DEF Paths
    <2>2. Len(to) <= Len(mv(q))
      BY <1>0, <2>1
    <2> QED
      BY <1>0, <2>1, <2>2, PrefixFacts DEF Paths
  \* No two entries collide.
  <1>7. \A p, q \in tree : mv(p) = mv(q) => p = q
    <2> SUFFICES ASSUME NEW p \in tree, NEW q \in tree, mv(p) = mv(q) PROVE p = q
      OBVIOUS
    <2>1. CASE ~IsPrefix(from, p) /\ ~IsPrefix(from, q)
      BY <1>4, <2>1
    <2>2. CASE IsPrefix(from, p) /\ ~IsPrefix(from, q)
      BY <1>1, <1>4, <1>6, <2>2
    <2>3. CASE ~IsPrefix(from, p) /\ IsPrefix(from, q)
      BY <1>1, <1>4, <1>6, <2>3
    <2>4. CASE IsPrefix(from, p) /\ IsPrefix(from, q)
      <3>1. /\ p \in Paths /\ q \in Paths /\ Len(p) \in Nat /\ Len(q) \in Nat
            /\ Len(from) <= Len(p) /\ Len(from) <= Len(q)
            /\ \A i \in 1 .. Len(from) : from[i] = p[i]
            /\ \A i \in 1 .. Len(from) : from[i] = q[i]
        BY <1>0, <2>4, PrefixFacts DEF Paths
      <3>2. Len(to) + Len(p) - Len(from) = Len(to) + Len(q) - Len(from)
        BY <1>3, <2>4
      <3>3. Len(p) = Len(q)
        BY <1>0, <3>1, <3>2
      <3>4. \A i \in 1 .. Len(p) - Len(from) : p[Len(from) + i] = q[Len(from) + i]
        BY <1>3, <2>4, <3>3
      <3>5. ASSUME NEW i \in 1 .. Len(p) PROVE p[i] = q[i]
        <4>1. CASE i <= Len(from)
          BY <1>0, <3>1, <4>1
        <4>2. CASE i > Len(from)
          <5>1. i - Len(from) \in 1 .. Len(p) - Len(from) /\ Len(from) + (i - Len(from)) = i
            BY <1>0, <3>1, <4>2
          <5> QED
            BY <3>4, <5>1
        <4> QED
          BY <1>0, <3>1, <4>1, <4>2
      <3> QED
        BY <3>1, <3>3, <3>5, SeqEqual DEF Paths
    <2> QED
      BY <2>1, <2>2, <2>3, <2>4
  <1>8. nd \cap nf = {}
    BY <1>0, <1>7
  \* Parents.
  <1>9. ASSUME NEW q \in tree, NEW k \in 1 .. Len(mv(q)) - 1
        PROVE  SubSeq(mv(q), 1, k) \in nd
    <2>0. q \in Paths /\ Len(q) \in Nat /\ mv(q) \in Paths /\ Len(mv(q)) \in Nat
      BY <1>0, <1>5 DEF Paths
    <2>1. CASE ~IsPrefix(from, q)
      <3>1. mv(q) = q /\ SubSeq(q, 1, k) \in dirs
        BY <1>4, <1>9, <2>1 DEF FileInv, TreeInv
      <3>2. k \in 0 .. Len(q)
        BY <1>9, <2>0, <3>1
      <3>3. mv(SubSeq(q, 1, k)) = SubSeq(q, 1, k)
        BY <1>0, <1>2, <1>4, <2>0, <2>1, <3>1, <3>2
      <3> QED
        BY <3>1, <3>3
    <2>2. CASE IsPrefix(from, q)
      <3>1. /\ Len(mv(q)) = Len(to) + Len(q) - Len(from) /\ Len(from) <= Len(q)
            /\ \A i \in 1 .. Len(to) : mv(q)[i] = to[i]
            /\ \A i \in 1 .. Len(q) - Len(from) : mv(q)[Len(to) + i] = q[Len(from) + i]
        BY <1>3, <2>2
      <3>2. /\ SubSeq(mv(q), 1, k) \in Paths /\ Len(SubSeq(mv(q), 1, k)) = k
            /\ \A i \in 1 .. k : SubSeq(mv(q), 1, k)[i] = mv(q)[i]
        <4>1. k \in 0 .. Len(mv(q))
          BY <1>9, <2>0
        <4> QED
          BY <2>0, <4>1, PreFacts DEF Paths
      \* A parent of the new name.
      <3>3. CASE k < Len(to)
        <4>1. k \in 1 .. Len(to) - 1 /\ k \in 0 .. Len(to)
          BY <1>0, <1>9, <2>0, <3>3
        <4>2. SubSeq(to, 1, k) \in dirs
          BY <1>0, <4>1, NewEntry DEF FileInv
        <4>3. ~IsPrefix(from, SubSeq(to, 1, k))
          BY <1>0, <1>2, <4>1
        <4>4. mv(SubSeq(to, 1, k)) = SubSeq(to, 1, k)
          BY <1>0, <1>4, <4>2, <4>3
        <4>5. /\ SubSeq(to, 1, k) \in Paths /\ Len(SubSeq(to, 1, k)) = k
              /\ \A i \in 1 .. k : SubSeq(to, 1, k)[i] = to[i]
          BY <4>1, PreFacts DEF Paths
        <4>6. \A i \in 1 .. k : i \in 1 .. Len(to)
          BY <1>0, <4>1
        <4>7. SubSeq(mv(q), 1, k) = SubSeq(to, 1, k)
          BY <3>1, <3>2, <4>5, <4>6, SeqEqual DEF Paths
        <4> QED
          BY <4>2, <4>4, <4>7
      \* The new name itself, or what moves below it.
      <3>4. CASE k >= Len(to)
        <4> DEFINE j == k - Len(to) + Len(from)
        <4>1. j \in Nat /\ j \in 0 .. Len(q) /\ j < Len(q) /\ j >= Len(from) /\ k \in Nat
          BY <1>0, <1>9, <2>0, <3>1, <3>4
        <4>2. IsPrefix(from, SubSeq(q, 1, j))
          <5>1. /\ SubSeq(q, 1, j) \in Paths /\ Len(SubSeq(q, 1, j)) = j
                /\ \A i \in 1 .. j : SubSeq(q, 1, j)[i] = q[i]
            BY <2>0, <4>1, PreFacts DEF Paths
          <5>2. \A i \in 1 .. Len(from) : from[i] = q[i]
            BY <2>0, <2>2, PrefixFacts DEF Paths
          <5>3. \A i \in 1 .. Len(from) : i \in 1 .. j
            BY <1>0, <4>1
          <5> QED
            BY <4>1, <5>1, <5>2, <5>3, PrefixFacts DEF Paths
        <4>3. SubSeq(q, 1, j) \in dirs
          <5>1. CASE j >= 1
            <6>1. j \in 1 .. Len(q) - 1
              BY <2>0, <4>1, <5>1
            <6> QED
              BY <6>1 DEF FileInv, TreeInv
          <5>2. CASE j = 0
            <6>1. Len(from) = 0
              BY <1>0, <4>1, <5>2
            <6>2. Len(from) >= 1
              BY <1>0, PlaceFacts DEF FileInv, Entries
            <6> QED
              BY <1>0, <6>1, <6>2
          <5> QED
            BY <4>1, <5>1, <5>2
        <4>4. SubSeq(q, 1, j) \in tree
          BY <1>0, <4>3
        <4> DEFINE r == SubSeq(q, 1, j)
        <4>5. /\ r \in Paths /\ Len(r) = j /\ \A i \in 1 .. j : r[i] = q[i]
          BY <2>0, <4>1, PreFacts DEF Paths
        <4>6. r \in dirs /\ r \in tree /\ IsPrefix(from, r)
          BY <4>2, <4>3, <4>4
        <4> HIDE DEF r
        <4>7. /\ mv(r) \in Paths /\ Len(mv(r)) = Len(to) + Len(r) - Len(from)
              /\ \A i \in 1 .. Len(to) : mv(r)[i] = to[i]
              /\ \A i \in 1 .. Len(r) - Len(from) : mv(r)[Len(to) + i] = r[Len(from) + i]
          BY <1>3, <4>6
        <4>8. Len(mv(r)) = k
          BY <1>0, <4>1, <4>5, <4>7
        <4>9. ASSUME NEW i \in 1 .. k PROVE SubSeq(mv(q), 1, k)[i] = mv(r)[i]
          <5>1. SubSeq(mv(q), 1, k)[i] = mv(q)[i]
            BY <3>2
          <5>2. CASE i <= Len(to)
            <6>1. i \in 1 .. Len(to)
              BY <1>0, <4>1, <5>2
            <6> QED
              BY <3>1, <4>7, <5>1, <6>1
          <5>3. CASE i > Len(to)
            <6> DEFINE d == i - Len(to)
            <6>1. /\ d \in 1 .. Len(q) - Len(from) /\ d \in 1 .. Len(r) - Len(from)
                  /\ Len(to) + d = i /\ Len(from) + d \in 1 .. j
              BY <1>0, <2>0, <4>1, <4>5, <5>3
            <6>2. mv(q)[i] = q[Len(from) + d]
              BY <3>1, <6>1
            <6>3. mv(r)[i] = r[Len(from) + d]
              BY <4>7, <6>1
            <6> QED
              BY <4>5, <5>1, <6>1, <6>2, <6>3
          <5> QED
            BY <1>0, <4>1, <5>2, <5>3
        <4>10. SubSeq(mv(q), 1, k) = mv(r)
          BY <3>2, <4>7, <4>8, <4>9, SeqEqual DEF Paths
        <4> QED
          BY <4>6, <4>10
      <3> QED
        BY <1>0, <1>9, <2>0, <3>3, <3>4
    <2> QED
      BY <2>1, <2>2
  <1>10. \A p \in nd \cup nf : p \in tree \/ IsPrefix(to, p)
    BY <1>0, <1>4, <1>6
  <1>11. \A p \in tree : p \in nd \cup nf \/ IsPrefix(from, p)
    BY <1>0, <1>4
  <1>12. nd \subseteq Paths /\ nf \subseteq Paths
    BY <1>0, <1>5
  <1>13. \A p \in nd \cup nf : \A k \in 1 .. Len(p) - 1 : SubSeq(p, 1, k) \in nd
    BY <1>0, <1>9
  <1> QED
    BY <1>0, <1>8, <1>10, <1>11, <1>12, <1>13

-----------------------------------------------------------------------------
(* What a step of session s keeps.                                         *)

\* A step of s, with an argument its client may send if it takes one.
Acts(s, a) == OtherStep(s) \/ (a \in Args(s) /\ PathCommand(s, a))

\* A step of s that keeps s logged in as it was, with its home, or logs it out.
LEMMA SessionStep ==
    ASSUME IInv, NEW s \in Sessions, NEW a, Acts(s, a)
    PROVE  SessionInv'
  \* Enough: s has the right types and keeps its part of the invariant.
  <1> DEFINE Mine == /\ state'[s] \in {"WAIT_PASS", "READY", "TRANSFERRING"}
                       => username'[s] \in Users
                     /\ op'[s] \in Uploads => Place(target'[s]) \in Places
                     /\ state'[s] \in Ready =>
                          /\ root'[s] = <<username'[s]>>
                          /\ IsPrefix(root'[s], cwd'[s])
                          /\ op'[s] \notin {"none", "LIST"} => IsPrefix(root'[s], target'[s])
             Keeps(f, g, T) == \E v \in T : g = Set(f, s, v)
  <1>1. ASSUME Keeps(state, state', States), Keeps(username, username', Users \cup {NoUser}),
               Keeps(chan, chan', Chans),
               Keeps(op, op', Ops),
               Keeps(root, root', Texts), Keeps(cwd, cwd', Texts),
               Keeps(renameFrom, renameFrom', Paths), Keeps(target, target', Texts), Mine
        PROVE  SessionInv'
    <2>1. /\ state' \in [Sessions -> States]
          /\ username' \in [Sessions -> Users \cup {NoUser}]
          /\ chan' \in [Sessions -> Chans]
          /\ op' \in [Sessions -> Ops]
          /\ root' \in [Sessions -> Texts]
          /\ cwd' \in [Sessions -> Texts]
          /\ renameFrom' \in [Sessions -> Paths]
          /\ target' \in [Sessions -> Texts]
      BY <1>1 DEF IInv, SessionInv, Set
    <2>2. \A x \in Sessions \ {s} :
             /\ state'[x] = state[x] /\ username'[x] = username[x] /\ op'[x] = op[x]
             /\ root'[x] = root[x] /\ cwd'[x] = cwd[x] /\ target'[x] = target[x]
      BY <1>1 DEF IInv, SessionInv, Set
    <2>3. LoginInv' /\ TargetInv' /\ HomeInv'
      BY <1>1, <2>2 DEF IInv, SessionInv, LoginInv, TargetInv, HomeInv
    <2> QED
      BY <2>1, <2>3 DEF SessionInv
  <1>2. /\ Keeps(state, state, States) /\ Keeps(username, username, Users \cup {NoUser})
        /\ Keeps(chan, chan, Chans)
        /\ Keeps(op, op, Ops)
        /\ Keeps(root, root, Texts) /\ Keeps(cwd, cwd, Texts)
        /\ Keeps(renameFrom, renameFrom, Paths) /\ Keeps(target, target, Texts)
    BY DEF IInv, SessionInv, Set
  <1>3. /\ \A v \in States : Keeps(state, Set(state, s, v), States)
        /\ \A v \in Users \cup {NoUser} : Keeps(username, Set(username, s, v), Users \cup {NoUser})
        /\ \A v \in Chans :
              Keeps(chan, Set(chan, s, v), Chans)
        /\ \A v \in Ops :
              Keeps(op, Set(op, s, v), Ops)
        /\ \A v \in Texts : /\ Keeps(root, Set(root, s, v), Texts)
                            /\ Keeps(cwd, Set(cwd, s, v), Texts)
                            /\ Keeps(target, Set(target, s, v), Texts)
        /\ \A v \in Paths : Keeps(renameFrom, Set(renameFrom, s, v), Paths)
    OBVIOUS
  <1>4. /\ \A v : /\ Set(state, s, v)[s] = v /\ Set(username, s, v)[s] = v
                  /\ Set(op, s, v)[s] = v /\ Set(root, s, v)[s] = v
                  /\ Set(cwd, s, v)[s] = v /\ Set(target, s, v)[s] = v
        /\ <<>> \in Paths /\ <<>> \in Texts /\ Ready = {"READY", "TRANSFERRING"}
        /\ {"CONNECTED", "WAIT_USER", "WAIT_PASS", "READY", "TRANSFERRING", "CLOSED"} = States
    BY DEF IInv, SessionInv, Set, Paths, Texts, States, Ready
  \* What held of s before.
  <1>5. /\ state[s] \in States /\ username[s] \in Users \cup {NoUser}
        /\ chan[s] \in Chans
        /\ root[s] \in Texts /\ cwd[s] \in Texts /\ renameFrom[s] \in Paths
        /\ target[s] \in Texts /\ op[s] \in Ops
        /\ state[s] \in {"WAIT_PASS", "READY", "TRANSFERRING"} => username[s] \in Users
        /\ op[s] \in Uploads => Place(target[s]) \in Places
        /\ state[s] \in Ready =>
              /\ root[s] = <<username[s]>>
              /\ IsPrefix(root[s], cwd[s])
              /\ op[s] \notin {"none", "LIST"} => IsPrefix(root[s], target[s])
        /\ "none" \notin Uploads /\ "LIST" \notin Uploads /\ "RETR" \notin Uploads
    BY DEF IInv, SessionInv, LoginInv, TargetInv, HomeInv, Uploads
  <1> HIDE DEF Keeps
  <1>6. CASE Run(s)
    BY <1>6, <1>1, <1>2, <1>3, <1>4, <1>5 DEF Run, userVars, dataVars
  <1>7. ASSUME Reads(s), Closes(s) PROVE SessionInv'
    <2>1. /\ state' = Set(state, s, "CLOSED") /\ username' = Set(username, s, NoUser)
          /\ root' = Set(root, s, <<>>) /\ cwd' = Set(cwd, s, <<>>)
          /\ renameFrom' = Set(renameFrom, s, <<>>) /\ chan' = Set(chan, s, "none")
          /\ op' = op /\ target' = target /\ op[s] = "none" /\ "none" \in Chans
      BY <1>7 DEF Closes, Reads, Chans
    <2>2. Mine
      BY <1>4, <1>5, <2>1
    <2> HIDE DEF Mine
    <2> QED
      BY <1>1, <1>2, <1>3, <1>4, <2>1, <2>2
  <1>8. ASSUME NEW u \in Users, Reads(s), EnterHome(s, u),
               UNCHANGED <<renameFrom, dataVars>>
        PROVE  SessionInv'
    <2>1. <<u>> \in Texts /\ IsPrefix(<<u>>, <<u>>)
      <3>1. <<u>> \in Texts /\ Len(<<u>>) = 1 /\ <<u>>[1] = u
        BY DEF Texts
      <3> QED
        BY <3>1, TextHome
    <2>2. /\ state' = Set(state, s, "READY") /\ username' = Set(username, s, u)
          /\ root' = Set(root, s, <<u>>) /\ cwd' = Set(cwd, s, <<u>>)
          /\ chan' = chan /\ op' = op /\ target' = target /\ renameFrom' = renameFrom
          /\ op[s] = "none"
      BY <1>8 DEF EnterHome, Reads, dataVars
    <2>3. /\ username'[s] = u /\ root'[s] = <<u>> /\ cwd'[s] = <<u>> /\ op'[s] = "none"
      BY <1>4, <2>2
    <2>4. Mine
      BY <1>5, <2>1, <2>3
    <2> HIDE DEF Mine
    <2> QED
      BY <1>1, <1>2, <1>3, <1>4, <2>1, <2>2, <2>4
  <1>9. ASSUME NEW u \in Users, handleUser(s, u) PROVE SessionInv'
    <2>1. CASE EnterHome(s, u)
      BY <1>9, <1>8, <2>1 DEF handleUser
    <2>2. CASE /\ state' = Set(state, s, "WAIT_PASS") /\ username' = Set(username, s, u)
               /\ UNCHANGED <<root, cwd, renameFrom, dataVars>> /\ Reads(s)
      BY <1>1, <1>2, <1>3, <1>4, <1>5, <2>2 DEF Reads, dataVars
    <2> QED
      BY <1>9, <2>1, <2>2 DEF handleUser
  <1>10. CASE handlePass(s)
    <2>1. CASE EnterHome(s, username[s]) /\ UNCHANGED <<renameFrom, dataVars>>
      BY <1>10, <1>5, <1>8, <2>1 DEF handlePass
    <2>2. CASE state' = Set(state, s, "WAIT_USER") /\ UNCHANGED <<userVars, renameFrom, dataVars>>
      BY <1>1, <1>2, <1>3, <1>4, <1>5, <2>2 DEF userVars, dataVars
    <2> QED
      BY <1>7, <1>10, <2>1, <2>2 DEF handlePass
  <1>11. ASSUME NEW p \in Texts, LoggedIn(s), IsPrefix(root[s], p), cwd' = Set(cwd, s, p),
               UNCHANGED <<state, username, root, renameFrom, dataVars>>
        PROVE  SessionInv'
    BY <1>11, <1>1, <1>2, <1>3, <1>4, <1>5 DEF LoggedIn, Reads, dataVars
  <1>12. CASE handleCdup(s)
    <2>1. Front(cwd[s]) \in Texts
      <3>1. username[s] \in Users /\ IsPrefix(<<username[s]>>, cwd[s])
        BY <1>12, <1>4, <1>5 DEF handleCdup, LoggedIn
      <3>2. Len(cwd[s]) >= 1 /\ Len(cwd[s]) \in Nat
        BY <1>5, <3>1, TextHome DEF Texts
      <3>3. Len(cwd[s]) - 1 \in 0 .. Len(cwd[s])
        BY <3>2
      <3> QED
        BY <1>5, <3>3, PreFacts DEF Front, Texts
    <2> QED
      BY <1>12, <1>11, <2>1 DEF handleCdup, isWithinRoot
  <1>13. CASE handlePasv(s) \/ handlePort(s)
    BY <1>13, <1>1, <1>2, <1>3, <1>4, <1>5 DEF handlePasv, handlePort, userVars, Chans
  <1>14. CASE BeginList(s)
    BY <1>14, <1>1, <1>2, <1>3, <1>4, <1>5 DEF BeginList, LoggedIn, Reads, userVars, Ops
  <1>15. CASE OpenData(s)
    BY <1>15, <1>1, <1>2, <1>3, <1>4, <1>5 DEF OpenData, userVars, Chans
  <1>16. ASSUME state' = Set(state, s, "READY") \/ UNCHANGED state, state[s] \in Ready,
               op' = Set(op, s, "none"), target' = Set(target, s, <<>>),
               UNCHANGED <<userVars, renameFrom, chan>>
         PROVE  SessionInv'
    BY <1>16, <1>1, <1>2, <1>3, <1>4, <1>5 DEF userVars, Ops
  <1>17. CASE OpenDataFails(s) \/ StorDelete(s) \/ FinishData(s)
    BY <1>4, <1>16, <1>17 DEF OpenDataFails, StorDelete, FinishData, Finish
  <1>18. CASE StorOpen(s) \/ StorExceeds(s)
    BY <1>18, <1>1, <1>2, <1>3, <1>4, <1>5
       DEF StorOpen, StorExceeds, userVars, Ops, Uploads
  <1>19. CASE a \in Args(s) /\ PathCommand(s, a)
    <2> DEFINE p == resolvePath(s, a)
    <2>1. LoggedIn(s)
      BY <1>19 DEF PathCommand, handleCwd, handleMkd, handleRmd, handleDele, handleRnfr,
                   handleRnto, BeginFile
    <2>2. p \in Texts /\ IsPrefix(root[s], p)
      BY <1>19, <2>1, Resolved DEF IInv
    <2>3. CASE handleCwd(s, a)
      BY <1>11, <2>2, <2>3 DEF handleCwd
    <2>4. CASE handleMkd(s, a) \/ handleRmd(s, a) \/ handleDele(s, a)
      BY <2>4, <1>1, <1>2, <1>5 DEF handleMkd, handleRmd, handleDele, userVars, dataVars
    <2>5. ASSUME NEW q \in Paths, renameFrom' = Set(renameFrom, s, q),
                 UNCHANGED <<state, userVars, dataVars>>
          PROVE  SessionInv'
      BY <2>5, <1>1, <1>2, <1>3, <1>4, <1>5 DEF userVars, dataVars
    <2>6. CASE handleRnfr(s, a)
      <3>1. Place(p) \in Paths
        BY <2>6, PlaceFacts DEF handleRnfr, Exists, Entries, IInv, FileInv
      <3> QED
        BY <2>5, <2>6, <3>1 DEF handleRnfr
    <2>7. CASE handleRnto(s, a)
      BY <1>4, <2>5, <2>7 DEF handleRnto
    <2>8. ASSUME NEW c \in {"RETR", "STOR"}, BeginFile(s, c, a) PROVE SessionInv'
      <3>1. /\ op' = Set(op, s, c) /\ target' = Set(target, s, p) /\ Place(p) \in Places
            /\ UNCHANGED <<state, userVars, renameFrom, chan>>
        BY <2>8 DEF BeginFile
      <3> HIDE DEF p
      <3> QED
        BY <1>1, <1>2, <1>3, <1>4, <1>5, <2>1, <2>2, <3>1 DEF userVars, LoggedIn, Ops
    <2> QED
      BY <1>19, <2>3, <2>4, <2>6, <2>7, <2>8 DEF PathCommand
  <1>20. \A u \in Logins[s] : u \in Users
    BY SessionAssumption
  <1> QED
    BY <1>6, <1>7, <1>9, <1>10, <1>12, <1>13, <1>14, <1>15, <1>17, <1>18, <1>19, <1>20
       DEF Acts, OtherStep, Transferring, Leave, PortThrows, LoggedIn

-----------------------------------------------------------------------------
(* What a step of session s does to the tree.                              *)

\* s, logged in, makes p, in its home if its paths have no "..".
Creates(s, a, p) ==
    /\ state'[s] \in Ready
    /\ Straight(s, a) => p[1] = username'[s]
    /\ CanCreate(p)
    /\ \/ ~Exists(p) /\ dirs' = dirs \cup {p} /\ files' = files
       \/ p \notin dirs /\ files' = files \cup {p} /\ dirs' = dirs

\* s, logged in, removes p, from its home if its paths have no "..".
Removes(s, a, p) ==
    /\ state[s] \in Ready
    /\ Straight(s, a) => p[1] = username[s]
    /\ \/ p \in dirs /\ Empty(p) /\ dirs' = dirs \ {p} /\ files' = files
       \/ p \in files /\ files' = files \ {p} /\ dirs' = dirs

\* s moves what RNFR named to a free name, in its home if that has no "..".
Moves(s, a, from, to) ==
    /\ state[s] \in Ready /\ state'[s] = state[s]
    /\ Straight(s, a) => to[1] = username'[s]
    /\ from = renameFrom[s] /\ from # <<>> /\ renameFrom'[s] = <<>>
    /\ CanRename(from, to)
    /\ Moved(from, to, Entries) \subseteq Places
    /\ dirs' = Moved(from, to, dirs) /\ files' = Moved(from, to, files)

TreeChange(s, a) ==
    \/ UNCHANGED <<dirs, files>>
    \/ \E p \in Places : Creates(s, a, p) \/ Removes(s, a, p)
    \/ \E from \in Paths, to \in Places : Moves(s, a, from, to)

\* The path of an upload that is under way.
LEMMA Target ==
    ASSUME SessionInv, NEW s \in Sessions, state[s] = "TRANSFERRING", op[s] \in Uploads
    PROVE  /\ Place(target[s]) \in Places
           /\ Plain(target[s]) => Place(target[s])[1] = username[s]
  <1>1. Place(target[s]) \in Places
    BY DEF SessionInv, TargetInv
  <1>2. /\ target[s] \in Texts /\ username[s] \in Users
        /\ IsPrefix(<<username[s]>>, target[s])
    BY DEF SessionInv, LoginInv, HomeInv, Uploads, Ready
  <1>3. target[s][1] = username[s]
    BY <1>2, TextHome
  <1> QED
    BY <1>1, <1>3 DEF Place

\* Every step of s changes the tree in one of these ways, or not at all.
LEMMA TreeStep ==
    ASSUME IInv, NEW s \in Sessions, NEW a, Acts(s, a)
    PROVE  TreeChange(s, a)
  <1>0. SessionInv /\ FileInv
    BY DEF IInv
  <1>1. ASSUME UNCHANGED <<dirs, files>> PROVE TreeChange(s, a)
    BY <1>1 DEF TreeChange
  <1>2. ASSUME NEW p \in Places, state'[s] \in Ready,
               Straight(s, a) => p[1] = username'[s], CreateDir(p), files' = files
        PROVE  TreeChange(s, a)
    BY <1>2 DEF CreateDir, TreeChange, Creates
  <1>3. CASE \/ Run(s) \/ handleCdup(s) \/ handlePasv(s) \/ handlePort(s)
             \/ BeginList(s) \/ OpenData(s) \/ OpenDataFails(s) \/ StorExceeds(s)
    BY <1>1, <1>3 DEF Run, handleCdup, handlePasv, handlePort, BeginList, OpenData,
                      OpenDataFails, StorExceeds, treeVars
  <1>4. ASSUME Closes(s) PROVE TreeChange(s, a)
    BY <1>1, <1>4 DEF Closes, treeVars
  <1>5. ASSUME NEW u \in Users, EnterHome(s, u), files' = files PROVE TreeChange(s, a)
    <2>1. <<u>> \in Places /\ <<u>>[1] = u
      BY SessionAssumption
    <2>2. state'[s] = "READY" /\ username'[s] = u /\ CreateDir(<<u>>)
      BY <1>0, <1>5 DEF EnterHome, Set, SessionInv
    <2> QED
      BY <1>2, <1>5, <2>1, <2>2 DEF Ready
  <1>6. ASSUME NEW u \in Users, handleUser(s, u) PROVE TreeChange(s, a)
    BY <1>1, <1>5, <1>6 DEF handleUser
  <1>7. CASE handlePass(s)
    <2>1. username[s] \in Users
      BY <1>0, <1>7 DEF handlePass, SessionInv, LoginInv
    <2> QED
      BY <1>1, <1>4, <1>5, <1>7, <2>1 DEF handlePass, treeVars
  <1>8. CASE StorOpen(s)
    <2> DEFINE p == Place(target[s])
    <2>1. p \in Places /\ (Straight(s, a) => p[1] = username[s])
      BY <1>0, <1>8, Target DEF StorOpen, Uploads, Straight
    <2>2. /\ state'[s] \in Ready /\ username' = username
          /\ CanCreate(p) /\ p \notin dirs /\ files' = files \cup {p} /\ dirs' = dirs
      BY <1>8 DEF StorOpen, CanStore, userVars, Ready
    <2> HIDE DEF p
    <2> QED
      BY <2>1, <2>2 DEF TreeChange, Creates
  <1>9. CASE StorDelete(s)
    <2> DEFINE p == Place(target[s])
    <2>1. p \in Places /\ (Straight(s, a) => p[1] = username[s])
      BY <1>0, <1>9, Target DEF StorDelete, Uploads, Straight
    <2>2. /\ state[s] \in Ready /\ dirs' = dirs /\ (files' = files \/ files' = files \ {p})
      BY <1>9 DEF StorDelete, Finish, Ready
    <2> HIDE DEF p
    <2>3. CASE files' = files \/ p \notin files
      <3>1. files' = files
        BY <2>2, <2>3
      <3> QED
        BY <1>1, <2>2, <3>1
    <2>4. CASE files' = files \ {p} /\ p \in files
      BY <2>1, <2>2, <2>4 DEF TreeChange, Removes
    <2> QED
      BY <2>2, <2>3, <2>4
  <1>10. CASE FinishData(s)
    BY <1>1, <1>10 DEF FinishData, Finish
  <1>11. CASE a \in Args(s) /\ PathCommand(s, a)
    <2> DEFINE p == Place(resolvePath(s, a))
    <2>1. /\ LoggedIn(s) /\ username' = username /\ state' = state
      BY <1>11 DEF PathCommand, handleCwd, handleMkd, handleRmd, handleDele, handleRnfr,
                   handleRnto, BeginFile, userVars
    <2>2. /\ Straight(s, a) => p[1] = username[s]
          /\ state[s] \in Ready
      BY <1>0, <1>11, <2>1, Resolved DEF Straight, LoggedIn
    <2>3. CASE handleCwd(s, a) \/ handleRnfr(s, a) \/ \E c \in {"RETR", "STOR"} : BeginFile(s, c, a)
      BY <1>1, <2>3 DEF handleCwd, handleRnfr, BeginFile, treeVars
    <2>4. CASE handleMkd(s, a)
      <3>1. p \in Places /\ CreateDir(p) /\ files' = files
        BY <2>4 DEF handleMkd
      <3> HIDE DEF p
      <3> QED
        BY <1>2, <2>1, <2>2, <3>1
    <2>5. CASE handleRmd(s, a)
      <3>1. p \in dirs /\ p \in Places /\ Empty(p) /\ dirs' = dirs \ {p} /\ files' = files
        BY <1>0, <2>5 DEF handleRmd, FileInv
      <3> HIDE DEF p
      <3> QED
        BY <2>1, <2>2, <3>1 DEF TreeChange, Removes
    <2>6. CASE handleDele(s, a)
      <3>1. p \in files /\ p \in Places /\ files' = files \ {p} /\ dirs' = dirs
        BY <1>0, <2>6 DEF handleDele, FileInv
      <3> HIDE DEF p
      <3> QED
        BY <2>1, <2>2, <3>1 DEF TreeChange, Removes
    <2>7. CASE handleRnto(s, a)
      <3>1. /\ renameFrom[s] \in Paths /\ renameFrom[s] # <<>> /\ renameFrom'[s] = <<>>
            /\ p \in Places
        BY <1>0, <2>7 DEF handleRnto, SessionInv, Set
      <3>2. CASE UNCHANGED <<dirs, files>>
        BY <1>1, <3>2
      <3>3. CASE /\ CanRename(renameFrom[s], p)
                 /\ Moved(renameFrom[s], p, Entries) \subseteq Places
                 /\ dirs' = Moved(renameFrom[s], p, dirs)
                 /\ files' = Moved(renameFrom[s], p, files)
        <4> HIDE DEF p
        <4>1. Moves(s, a, renameFrom[s], p)
          BY <2>1, <2>2, <3>1, <3>3 DEF Moves
        <4> QED
          BY <3>1, <4>1 DEF TreeChange
      <3> QED
        BY <2>7, <3>2, <3>3 DEF handleRnto, treeVars
    <2> QED
      BY <1>11, <2>3, <2>4, <2>5, <2>6, <2>7 DEF PathCommand
  <1>12. \A u \in Logins[s] : u \in Users
    BY SessionAssumption
  <1> QED
    BY <1>3, <1>4, <1>6, <1>7, <1>8, <1>9, <1>10, <1>11, <1>12
       DEF Acts, OtherStep, Transferring, Leave, PortThrows

\* Each of these ways keeps the tree a tree.
LEMMA FileStep ==
    ASSUME FileInv, NEW s \in Sessions, NEW a, TreeChange(s, a)
    PROVE  FileInv'
  <1>1. CASE UNCHANGED <<dirs, files>>
    BY <1>1 DEF FileInv, TreeInv, Entries
  <1>2. ASSUME NEW p \in Places, Creates(s, a, p) PROVE FileInv'
    <2>1. \A k \in 1 .. Len(p) - 1 : SubSeq(p, 1, k) \in dirs
      BY <1>2, NewEntry, PlaceFacts DEF Creates, FileInv
    <2>2. /\ dirs \subseteq dirs' /\ dirs' \subseteq Places /\ files' \subseteq Places
          /\ dirs' \cap files' = {} /\ Entries' = Entries \cup {p}
      BY <1>2 DEF Creates, FileInv, Exists, Entries
    <2> QED
      BY <2>1, <2>2 DEF FileInv, TreeInv
  <1>3. ASSUME NEW p \in Places, Removes(s, a, p) PROVE FileInv'
    <2>1. /\ dirs' \subseteq dirs /\ files' \subseteq files /\ p \in Paths
      BY <1>3, PlaceFacts DEF Removes
    <2>2. ASSUME NEW q \in Entries', NEW k \in 1 .. Len(q) - 1
          PROVE  SubSeq(q, 1, k) \in dirs'
      <3>1. q \in Entries /\ q \in Paths /\ Len(q) \in Nat
        BY <2>1, <2>2, PlaceFacts DEF FileInv, Entries
      <3>2. SubSeq(q, 1, k) \in dirs
        BY <2>2, <3>1 DEF FileInv, TreeInv
      <3>3. CASE p \in files
        BY <1>3, <3>2, <3>3 DEF Removes, FileInv
      <3>4. CASE p \in dirs
        <4>1. Empty(p) /\ dirs' = dirs \ {p} /\ files' = files
          BY <1>3, <3>4 DEF Removes, FileInv
        <4>2. q # p /\ ~IsPrefix(p, q)
          BY <2>2, <3>1, <3>4, <4>1 DEF Empty, Below, FileInv, Entries
        <4>3. SubSeq(q, 1, k) # p
          <5>1. k \in 0 .. Len(q) /\ k <= Len(q)
            BY <3>1
          <5>2. Len(SubSeq(q, 1, k)) = k
            BY <3>1, <5>1, PreFacts DEF Paths
          <5> QED
            BY <2>1, <3>1, <4>2, <5>1, <5>2, PrefixIsSubSeq
        <4> QED
          BY <3>2, <4>1, <4>3
      <3> QED
        BY <1>3, <3>3, <3>4 DEF Removes
    <2> QED
      BY <2>1, <2>2 DEF FileInv, TreeInv
  <1>4. ASSUME NEW from \in Paths, NEW to \in Places, Moves(s, a, from, to) PROVE FileInv'
    <2> DEFINE nd == Moved(from, to, dirs)
               nf == Moved(from, to, files)
    <2>0. /\ to \in Paths /\ Len(to) >= 1 /\ CanRename(from, to)
          /\ dirs' = nd /\ files' = nf
      BY <1>4, PlaceFacts DEF Moves
    <2>1. /\ nd \cap nf = {}
          /\ \A p \in nd \cup nf : \A k \in 1 .. Len(p) - 1 : SubSeq(p, 1, k) \in nd
      BY <2>0, MovedTree
    <2>2. nd \subseteq Places /\ nf \subseteq Places
      BY <1>4 DEF Moves, Moved, Entries
    <2> HIDE DEF nd, nf
    <2> QED
      BY <2>0, <2>1, <2>2 DEF FileInv, TreeInv, Entries
  <1> QED
    BY <1>1, <1>2, <1>3, <1>4 DEF TreeChange

\* What is new was made by a session that is logged in, and is in its home if
\* its paths have no "..".
LEMMA WriteStep ==
    ASSUME FileInv, NEW s \in Sessions, NEW a, TreeChange(s, a), NEW p \in Entries' \ Entries
    PROVE  state'[s] \in Ready /\ (Straight(s, a) => p[1] = username'[s])
  <1>1. CASE UNCHANGED <<dirs, files>>
    BY <1>1 DEF Entries
  <1>2. ASSUME NEW q \in Places, Creates(s, a, q)
        PROVE  state'[s] \in Ready /\ (Straight(s, a) => p[1] = username'[s])
    <2>1. p = q
      BY <1>2 DEF Creates, Entries
    <2> QED
      BY <1>2, <2>1 DEF Creates
  <1>3. ASSUME NEW q \in Places, Removes(s, a, q) PROVE FALSE
    BY <1>3 DEF Removes, Entries
  <1>4. ASSUME NEW from \in Paths, NEW to \in Places, Moves(s, a, from, to)
        PROVE  state'[s] \in Ready /\ (Straight(s, a) => p[1] = username'[s])
    <2>1. /\ state'[s] \in Ready /\ (Straight(s, a) => to[1] = username'[s])
          /\ to \in Paths /\ Len(to) \in Nat /\ Len(to) >= 1 /\ CanRename(from, to)
          /\ dirs' = Moved(from, to, dirs) /\ files' = Moved(from, to, files)
      BY <1>4, PlaceFacts DEF Moves
    <2>2. /\ Moved(from, to, dirs) \subseteq Paths /\ Moved(from, to, files) \subseteq Paths
          /\ \A q \in Moved(from, to, dirs) \cup Moved(from, to, files) :
                q \in Entries \/ IsPrefix(to, q)
      BY <2>1, MovedTree
    <2>3. IsPrefix(to, p) /\ p \in Paths
      BY <2>1, <2>2 DEF Entries
    <2>4. 1 \in 1 .. Len(to)
      BY <2>1
    <2>5. to[1] = p[1]
      BY <2>1, <2>3, <2>4, PrefixFacts DEF Paths
    <2> QED
      BY <2>1, <2>5
  <1> QED
    BY <1>1, <1>2, <1>3, <1>4 DEF TreeChange

\* What is gone was removed by a session that was logged in; it was in its home
\* if its paths have no "..", or named by its RNFR.
LEMMA RemoveStep ==
    ASSUME FileInv, NEW s \in Sessions, NEW a, TreeChange(s, a), NEW p \in Entries \ Entries'
    PROVE  /\ state[s] \in Ready
           /\ \/ Straight(s, a) => p[1] = username[s]
              \/ /\ renameFrom[s] # <<>> /\ renameFrom'[s] = <<>>
                 /\ Below(renameFrom[s], p)
  <1>1. CASE UNCHANGED <<dirs, files>>
    BY <1>1 DEF Entries
  <1>2. ASSUME NEW q \in Places, Creates(s, a, q) PROVE FALSE
    BY <1>2 DEF Creates, Entries
  <1>3. ASSUME NEW q \in Places, Removes(s, a, q)
        PROVE  state[s] \in Ready /\ (Straight(s, a) => p[1] = username[s])
    <2>1. p = q
      BY <1>3 DEF Removes, Entries
    <2> QED
      BY <1>3, <2>1 DEF Removes
  <1>4. ASSUME NEW from \in Paths, NEW to \in Places, Moves(s, a, from, to)
        PROVE  /\ state[s] \in Ready
               /\ renameFrom[s] # <<>> /\ renameFrom'[s] = <<>> /\ Below(renameFrom[s], p)
    <2>1. /\ state[s] \in Ready /\ from = renameFrom[s]
          /\ renameFrom[s] # <<>> /\ renameFrom'[s] = <<>>
          /\ to \in Paths /\ Len(to) >= 1 /\ CanRename(from, to)
          /\ dirs' = Moved(from, to, dirs) /\ files' = Moved(from, to, files)
      BY <1>4, PlaceFacts DEF Moves
    <2>2. \A q \in Entries :
             q \in Moved(from, to, dirs) \cup Moved(from, to, files) \/ IsPrefix(from, q)
      BY <2>1, MovedTree
    <2>3. IsPrefix(from, p)
      BY <2>1, <2>2 DEF Entries
    <2> QED
      BY <2>1, <2>3 DEF Below
  <1> QED
    BY <1>1, <1>2, <1>3, <1>4 DEF TreeChange

-----------------------------------------------------------------------------
(* The theorems.                                                           *)

\* IInv is inductive.
LEMMA Inductive == Spec => []IInv
  <1>1. Init => IInv
    BY DEF Init, IInv, SessionInv, FileInv, LoginInv, TargetInv, TreeInv, HomeInv,
           States, Ready, Chans, Ops, Uploads, Entries, Paths, Texts
  <1>2. IInv /\ [Next]_vars => IInv'
    <2> SUFFICES ASSUME IInv, [Next]_vars PROVE IInv'
      OBVIOUS
    <2>1. ASSUME NEW s \in Sessions, NEW a, Acts(s, a) PROVE IInv'
      BY <2>1, SessionStep, TreeStep, FileStep DEF IInv
    <2>2. CASE UNCHANGED vars
      BY <2>2 DEF vars, IInv, SessionInv, FileInv, LoginInv, TargetInv, TreeInv, HomeInv,
                  Entries
    <2> QED
      BY <2>1, <2>2 DEF Next, Acts
  <1> QED
    BY <1>1, <1>2, PTL DEF Spec

\* Every variable keeps its type; a place is never both a file and a directory,
\* whatever RNTO moves.
THEOREM TypeCorrect == Spec => []TypeOK
  <1>1. IInv => TypeOK
    BY DEF IInv, SessionInv, FileInv, TypeOK, Entries, Chans
  <1> QED
    BY <1>1, Inductive, PTL

\* A session that may touch files works on texts that begin with the root of
\* the user it is logged in as, through any sequence of USER, PASS, CWD, CDUP
\* and transfers, with ".." or without; without, the places are in the home.
THEOREM Confined == Spec => []ReadyOwnsRoot
  <1>1. ASSUME IInv PROVE ReadyOwnsRoot
    <2> SUFFICES ASSUME NEW s \in Sessions, state[s] \in Ready,
                        NEW p \in {cwd[s]} \cup
                                  (IF op[s] \in {"none", "LIST"} THEN {} ELSE {target[s]})
                 PROVE  /\ root[s] = <<username[s]>> /\ isWithinRoot(s, p)
                        /\ Plain(p) => Below(root[s], Place(p))
      BY DEF ReadyOwnsRoot
    <2>1. /\ root[s] = <<username[s]>> /\ IsPrefix(root[s], cwd[s])
          /\ op[s] \notin {"none", "LIST"} => IsPrefix(root[s], target[s])
      BY <1>1 DEF IInv, SessionInv, HomeInv
    <2>2. IsPrefix(root[s], p)
      BY <2>1
    <2> QED
      BY <2>1, <2>2 DEF isWithinRoot, Below, Place
  <1> QED
    BY <1>1, Inductive, PTL

\* What a session makes it makes while it is logged in, and in the home of its
\* user when its path has no "..".
THEOREM WritesStayHome == Spec => WritesAtHome
  <1>1. ASSUME IInv
        PROVE  \A p \in Entries' \ Entries : \A s \in Sessions : \A a \in Args(s) :
                 Step(s, a) => /\ state'[s] \in Ready
                               /\ Straight(s, a) => p[1] = username'[s]
    <2> SUFFICES ASSUME NEW p \in Entries' \ Entries, NEW s \in Sessions, NEW a \in Args(s),
                        Step(s, a)
                 PROVE  state'[s] \in Ready /\ (Straight(s, a) => p[1] = username'[s])
      OBVIOUS
    <2>1. Acts(s, a)
      BY DEF Acts, Step
    <2> QED
      BY <1>1, <2>1, TreeStep, WriteStep DEF IInv
  <1> QED
    BY <1>1, Inductive, PTL DEF Spec, WritesAtHome

\* What a session removes it removes while it is logged in, and from the home
\* of its user when its path has no "..", or by renaming what its RNFR named.
THEOREM RemovesStayHome == Spec => RemovesAtHome
  <1>1. ASSUME IInv
        PROVE  \A p \in Entries \ Entries' : \A s \in Sessions : \A a \in Args(s) :
                 Step(s, a) =>
                    /\ state[s] \in Ready
                    /\ \/ Straight(s, a) => p[1] = username[s]
                       \/ /\ renameFrom[s] # <<>> /\ renameFrom'[s] = <<>>
                          /\ Below(renameFrom[s], p)
    <2> SUFFICES ASSUME NEW p \in Entries \ Entries', NEW s \in Sessions, NEW a \in Args(s),
                        Step(s, a)
                 PROVE  /\ state[s] \in Ready
                        /\ \/ Straight(s, a) => p[1] = username[s]
                           \/ /\ renameFrom[s] # <<>> /\ renameFrom'[s] = <<>>
                              /\ Below(renameFrom[s], p)
      OBVIOUS
    <2>1. Acts(s, a)
      BY DEF Acts, Step
    <2> QED
      BY <1>1, <2>1, TreeStep, RemoveStep DEF IInv
  <1> QED
    BY <1>1, Inductive, PTL DEF Spec, RemovesAtHome
=============================================================================
