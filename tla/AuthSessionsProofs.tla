-------------------------- MODULE AuthSessionsProofs --------------------------
(* Proofs about AuthSessions, for any users, sessions, requests and limits. *)
EXTENDS AuthSessions, FiniteSetTheorems, WellFoundedInduction, TLAPS

(* the keys in Redis *)
KeysType ==
    /\ session \in [Sids -> Record \cup {None}]
    /\ owner \in [Sids -> Users \cup {None}]
    /\ index \in [Users -> SUBSET Sids]
    /\ sequence \subseteq Users
    /\ drawn \in [Sids -> Nat]
    /\ account \in [Users -> PermSets \cup {None}]

LiveIsIndexed ==
    \A s \in Sids : Live(s) => /\ owner[s] = session[s].user
                               /\ s \in index[session[s].user]
                               /\ drawn[s] # 0
DeadIsUnowned == \A s \in Sids : ~Live(s) => owner[s] = None
OwnMembers ==
    \A u \in Users : \A s \in index[u] : drawn[s] # 0 /\ (Live(s) => session[s].user = u)
SequenceFollows == \A u \in Users : u \in sequence <=> index[u] # {}
IndexIsBounded ==
    MaxSessions > 0 => \A u \in Users : Cardinality(index[u]) <= MaxSessions

KeyInv ==
    /\ KeysType /\ LiveIsIndexed /\ DeadIsUnowned /\ OwnMembers
    /\ SequenceFollows /\ IndexIsBounded

(* what a request holds at each of its awaits *)
Pcs == {"idle", "create", "audit", "undo", "load", "refresh", "corrupt", "corruptMe",
        "authorize", "drop", "validate", "user", "update", "signout"}
Kinds == {"none", "login", "use", "active", "me", "signout"}
Answers == {"none", "200", "401", "403", "500", "503"}
Frame == [pc : Pcs, kind : Kinds, sid : Sids \cup {None}, user : Users \cup {None},
          raw : Record \cup {None}, perms : PermSets \cup {{}}, tries : Nat,
          answer : Answers]

Holds(q) ==
    /\ q.pc \notin {"idle", "create"} => q.sid \in Sids
    /\ q.pc = "create" => q.user \in Users /\ q.perms \in PermSets
    /\ q.pc = "authorize" => q.user \in Users
    /\ q.pc \in {"refresh", "user", "update"} => q.raw \in Record
    /\ q.pc = "user" => q.user \in Users
    /\ q.pc = "update" => q.perms \in PermSets

ReqInv == req \in [Requests -> Frame] /\ \A r \in Requests : Holds(req[r])

(* Redis' part of NoResurrection *)
Buries == \A s \in Drawn : ~Live(s) => session'[s] = None

(***************************************************************************)
(* _CREATE_INDEXED_SESSION_LUA keeps keys and index consistent and leaves  *)
(* room for at most MaxSessions members.                                   *)
(***************************************************************************)
LEMMA CreateInv ==
    ASSUME KeyInv, NEW s \in Sids, drawn[s] = 0, NEW record \in Record, NEW t \in Times,
           CreateIndexed(s, record, t), UNCHANGED account
    PROVE  KeyInv' /\ Buries
<1> DEFINE u == record.user
           members == (index[u] \ Stale(u)) \cup {s}
<1>u. u \in Users BY DEF Record
<1>0. PICK kept \in SUBSET members :
        /\ Cardinality(kept) = Capacity(Cardinality(members))
        /\ index' = [index EXCEPT ![u] = kept]
        /\ session' = [x \in Sids |-> IF x \in members \ kept THEN None
                                      ELSE IF x = s THEN record ELSE session[x]]
        /\ owner' = [x \in Sids |-> IF x \in Stale(u) \/ x \in members \ kept THEN None
                                    ELSE IF x = s THEN u ELSE owner[x]]
  BY Zenon DEF CreateIndexed
<1>1. sequence' = sequence \cup {u} /\ drawn' = [drawn EXCEPT ![s] = Cardinality(Drawn) + 1]
  BY DEF CreateIndexed
<1>m. members \subseteq Sids /\ s \in members BY <1>u DEF KeyInv, KeysType, Stale
<1>f. /\ IsFiniteSet(members) /\ IsFiniteSet(kept) /\ IsFiniteSet(Drawn)
      /\ Cardinality(members) \in Nat /\ Cardinality(Drawn) \in Nat
      /\ Cardinality(members) # 0
  BY <1>m, AuthAssumption, FS_Subset, FS_CardinalityType, FS_EmptySet DEF Drawn
<1>n. kept # {}
  BY <1>0, <1>f, FS_EmptySet, AuthAssumption DEF Capacity
<1>d. ~Live(s) /\ \A v \in Users : s \notin index[v]
  BY DEF KeyInv, LiveIsIndexed, OwnMembers
<1>e. \A x \in Sids : x # s => /\ session'[x] # None => session'[x] = session[x]
                               /\ drawn'[x] = drawn[x]
  BY <1>0, <1>1 DEF KeyInv, KeysType
<1>s. s \in kept => session'[s] = record /\ owner'[s] = u
  <2>1. s \notin Stale(u) BY <1>d, <1>u DEF Stale
  <2> QED BY <2>1, <1>0
<1>z. drawn'[s] # 0 BY <1>1, <1>f DEF KeyInv, KeysType
<1>2. KeysType'
  <2>1. index' \in [Users -> SUBSET Sids] BY <1>0, <1>m, <1>u DEF KeyInv, KeysType
  <2>2. session' \in [Sids -> Record \cup {None}] BY <1>0 DEF KeyInv, KeysType
  <2>3. owner' \in [Sids -> Users \cup {None}] BY <1>0, <1>u DEF KeyInv, KeysType
  <2>4. drawn' \in [Sids -> Nat] BY <1>1, <1>f DEF KeyInv, KeysType
  <2> QED BY <1>1, <1>u, <2>1, <2>2, <2>3, <2>4, SMTT(30) DEF KeyInv, KeysType
<1>3. LiveIsIndexed'
  <2> SUFFICES ASSUME NEW x \in Sids, session'[x] # None
               PROVE  /\ owner'[x] = session'[x].user /\ x \in index'[session'[x].user]
                      /\ drawn'[x] # 0
    BY DEF LiveIsIndexed, Live
  <2>1. x \notin members \ kept BY <1>0
  <2>2. CASE x = s
    BY Zenon, <2>1, <2>2, <1>m, <1>s, <1>z, <1>0, <1>u DEF KeyInv, KeysType
  <2>3. CASE x # s
    <3>1. /\ session'[x] = session[x] /\ Live(x) /\ x \notin Stale(u)
          /\ session[x].user \in Users
      BY <2>3, <1>e DEF Live, Stale, KeyInv, KeysType, Record
    <3>2. owner'[x] = owner[x] BY <3>1, <2>1, <2>3, <1>0
    <3>3. x \in index[session[x].user] /\ owner[x] = session[x].user /\ drawn[x] # 0
      BY <3>1 DEF KeyInv, LiveIsIndexed
    <3>4. session[x].user = u => x \in kept BY <3>1, <3>3, <2>1
    <3> QED BY <3>1, <3>2, <3>3, <3>4, <2>3, <1>e, <1>0, <1>u DEF KeyInv, KeysType
  <2> QED BY <2>2, <2>3
<1>4. DeadIsUnowned'
  <2> SUFFICES ASSUME NEW x \in Sids, session'[x] = None PROVE owner'[x] = None
    BY DEF DeadIsUnowned, Live
  <2>1. CASE x \in members \ kept BY <2>1, <1>0
  <2>2. CASE x \notin members \ kept
    <3>1. x # s BY <2>2, <1>0, AuthAssumption
    <3>2. session[x] = None BY <3>1, <2>2, <1>0
    <3>3. owner[x] = None BY <3>2 DEF KeyInv, DeadIsUnowned, Live
    <3> QED BY <3>1, <3>3, <1>0
  <2> QED BY <2>1, <2>2
<1>5. OwnMembers'
  <2> SUFFICES ASSUME NEW v \in Users, NEW x \in index'[v]
               PROVE  drawn'[x] # 0 /\ (session'[x] # None => session'[x].user = v)
    BY DEF OwnMembers, Live
  <2>1. x \in Sids BY <1>2 DEF KeysType
  <2>2. CASE x = s
    <3>1. v = u BY <2>2, <1>d, <1>0 DEF KeyInv, KeysType
    <3> QED BY ZenonT(30), <3>1, <2>2, <1>s, <1>z, <1>0, <1>u DEF KeyInv, KeysType
  <2>3. CASE x # s
    <3>1. x \in index[v] BY <2>3, <1>0, <1>u DEF KeyInv, KeysType
    <3> QED BY <3>1, <2>1, <2>3, <1>e DEF KeyInv, OwnMembers, Live
  <2> QED BY <2>2, <2>3
<1>6. SequenceFollows'
  BY <1>0, <1>1, <1>n, <1>u DEF KeyInv, KeysType, SequenceFollows
<1>7. IndexIsBounded'
  <2>1. MaxSessions > 0 => Cardinality(kept) <= MaxSessions
    BY <1>0, <1>f, AuthAssumption DEF Capacity
  <2> QED BY <2>1, <1>0, <1>u DEF KeyInv, KeysType, IndexIsBounded
<1>8. Buries
  BY <1>0 DEF Buries, Drawn, Live
<1> QED BY <1>2, <1>3, <1>4, <1>5, <1>6, <1>7, <1>8 DEF KeyInv

LEMMA StutterInv ==
    ASSUME KeyInv, UNCHANGED redis, account' \in [Users -> PermSets \cup {None}]
    PROVE  KeyInv' /\ Buries
<1>1. KeysType' BY DEF KeyInv, KeysType, redis
<1>2. LiveIsIndexed' BY DEF KeyInv, LiveIsIndexed, Live, redis
<1>3. DeadIsUnowned' BY DEF KeyInv, DeadIsUnowned, Live, redis
<1>4. OwnMembers' BY DEF KeyInv, OwnMembers, Live, redis
<1>5. SequenceFollows' BY DEF KeyInv, SequenceFollows, redis
<1>6. IndexIsBounded' BY DEF KeyInv, IndexIsBounded, redis
<1>7. Buries BY DEF Buries, Live, redis
<1> QED BY <1>1, <1>2, <1>3, <1>4, <1>5, <1>6, <1>7 DEF KeyInv

(***************************************************************************)
(* A step that removes records together with their owner keys, and members *)
(* of one index none of which keeps a record.                              *)
(***************************************************************************)
LEMMA RemovalInv ==
    ASSUME KeyInv, NEW u \in Users, NEW gone \in SUBSET Sids, NEW rest \in SUBSET index[u],
           session' = [x \in Sids |-> IF x \in gone THEN None ELSE session[x]],
           owner' = [x \in Sids |-> IF x \in gone THEN None ELSE owner[x]],
           index' = [index EXCEPT ![u] = rest],
           \A x \in index[u] \ rest : session'[x] = None,
           sequence' = IF rest = {} THEN sequence \ {u} ELSE sequence,
           UNCHANGED <<drawn, account>>
    PROVE  KeyInv' /\ Buries
<1>1. KeysType'
  <2>1. index' \in [Users -> SUBSET Sids] BY DEF KeyInv, KeysType
  <2>2. session' \in [Sids -> Record \cup {None}] BY DEF KeyInv, KeysType
  <2>3. owner' \in [Sids -> Users \cup {None}] BY DEF KeyInv, KeysType
  <2> QED BY <2>1, <2>2, <2>3 DEF KeyInv, KeysType
<1>2. \A x \in Sids : session'[x] # None => session'[x] = session[x] /\ owner'[x] = owner[x]
  OBVIOUS
<1>3. LiveIsIndexed'
  <2> SUFFICES ASSUME NEW x \in Sids, session'[x] # None
               PROVE  /\ owner'[x] = session'[x].user /\ x \in index'[session'[x].user]
                      /\ drawn'[x] # 0
    BY DEF LiveIsIndexed, Live
  <2>1. session'[x] = session[x] /\ owner'[x] = owner[x] /\ session[x].user \in Users
    BY <1>2, <1>1 DEF KeysType, Record
  <2>2. x \in index[session[x].user] /\ owner[x] = session[x].user /\ drawn[x] # 0
    BY <2>1 DEF KeyInv, LiveIsIndexed, Live
  <2>3. session[x].user = u => x \in rest BY <2>2
  <2> QED BY <2>1, <2>2, <2>3 DEF KeyInv, KeysType
<1>4. DeadIsUnowned' BY DEF KeyInv, DeadIsUnowned, Live, KeysType
<1>5. OwnMembers'
  <2> SUFFICES ASSUME NEW v \in Users, NEW x \in index'[v]
               PROVE  drawn'[x] # 0 /\ (session'[x] # None => session'[x].user = v)
    BY DEF OwnMembers, Live
  <2>1. x \in index[v] BY DEF KeyInv, KeysType
  <2>2. x \in Sids BY <1>1 DEF KeysType
  <2> QED BY <2>1, <2>2, <1>2 DEF KeyInv, OwnMembers, Live
<1>6. SequenceFollows' BY DEF KeyInv, KeysType, SequenceFollows
<1>7. IndexIsBounded'
  <2> SUFFICES ASSUME MaxSessions > 0, NEW v \in Users
               PROVE  Cardinality(index'[v]) <= MaxSessions
    BY DEF IndexIsBounded
  <2>1. IsFiniteSet(index[v]) /\ index'[v] \subseteq index[v]
    BY AuthAssumption, FS_Subset DEF KeyInv, KeysType
  <2>2. /\ Cardinality(index'[v]) <= Cardinality(index[v])
        /\ Cardinality(index'[v]) \in Nat /\ Cardinality(index[v]) \in Nat
    BY <2>1, FS_Subset, FS_CardinalityType
  <2>3. Cardinality(index[v]) <= MaxSessions BY DEF KeyInv, IndexIsBounded
  <2> QED BY <2>2, <2>3, AuthAssumption
<1>8. Buries BY DEF Buries, Drawn, Live
<1> QED BY <1>1, <1>3, <1>4, <1>5, <1>6, <1>7, <1>8 DEF KeyInv

(* _DELETE_INDEXED_SESSION_LUA *)
LEMMA DeleteInv ==
    ASSUME KeyInv, NEW s \in Sids, DeleteIndexed(s), UNCHANGED account
    PROVE  KeyInv' /\ Buries
<1>1. CASE ~Live(s) /\ owner[s] = None
  <2>1. UNCHANGED redis BY <1>1 DEF DeleteIndexed
  <2>2. account' \in [Users -> PermSets \cup {None}] BY DEF KeyInv, KeysType
  <2> QED BY Zenon, <2>1, <2>2, StutterInv
<1>2. CASE Live(s) \/ owner[s] # None
  <2> DEFINE u == session[s].user
             rest == (index[u] \ Stale(u)) \ {s}
             gone == {s} \cup Stale(u)
  <2>1. Live(s) /\ owner[s] = u /\ u \in Users /\ owner[s] # None
    BY <1>2, AuthAssumption DEF KeyInv, KeysType, DeadIsUnowned, LiveIsIndexed, Live, Record
  <2>2. /\ session' = [session EXCEPT ![s] = None]
        /\ owner' = [x \in Sids |-> IF x = s \/ x \in Stale(u) THEN None ELSE owner[x]]
        /\ index' = [index EXCEPT ![u] = rest]
        /\ sequence' = IF rest = {} THEN sequence \ {u} ELSE sequence
        /\ drawn' = drawn
    BY Zenon, <2>1 DEF DeleteIndexed
  <2>3. \A x \in Stale(u) : session[x] = None BY DEF Stale, Live
  <2>4. gone \in SUBSET Sids /\ rest \in SUBSET index[u]
    BY <2>1 DEF KeyInv, KeysType, Stale
  <2>5. session' = [x \in Sids |-> IF x \in gone THEN None ELSE session[x]]
    BY Zenon, <2>2, <2>3 DEF KeyInv, KeysType
  <2>6. owner' = [x \in Sids |-> IF x \in gone THEN None ELSE owner[x]]
    BY <2>2
  <2>7. \A x \in index[u] \ rest : session'[x] = None
    BY <2>5, <2>4, <2>1 DEF KeyInv, KeysType
  <2> HIDE DEF u, rest, gone
  <2> QED BY <2>1, <2>2, <2>4, <2>5, <2>6, <2>7, RemovalInv, ZenonT(30)
<1> QED BY <1>1, <1>2

(* _DELETE_CORRUPT_INDEXED_SESSION_LUA *)
LEMMA CompareDeleteInv ==
    ASSUME KeyInv, NEW s \in Sids, NEW raw, DeleteCorruptIndexed(s, raw), UNCHANGED account
    PROVE  KeyInv' /\ Buries
<1>1. account' \in [Users -> PermSets \cup {None}] BY DEF KeyInv, KeysType
<1> QED BY <1>1, DeleteInv, StutterInv DEF DeleteCorruptIndexed

(* encoding a record again leaves a record of the same user *)
LEMMA ReencodedType ==
    ASSUME NEW raw \in Record
    PROVE  Reencoded(raw) \in Record /\ Reencoded(raw).user = raw.user
<1>1. PICK b \in BOOLEAN : b = (raw.list /\ raw.perms # {}) BY Zenon
<1>2. Reencoded(raw) = [raw EXCEPT !.list = b] BY <1>1 DEF Reencoded
<1> QED BY <1>2 DEF Record

(* _REFRESH_INDEXED_SESSION_LUA: a record is only written over the version *)
(* that was read                                                           *)
LEMMA CompareSetInv ==
    ASSUME KeyInv, NEW s \in Sids, NEW raw \in Record, NEW perms \in PermSets,
           NEW t \in Times, NEW result,
           RefreshIndexed(s, raw, [raw EXCEPT !.perms = perms], t, result),
           UNCHANGED account
    PROVE  KeyInv' /\ Buries
<1> DEFINE record == [raw EXCEPT !.perms = perms]
           new == Reencoded([record EXCEPT !.gen = record.gen + 1])
<1>a. account' \in [Users -> PermSets \cup {None}] BY DEF KeyInv, KeysType
<1>1. CASE UNCHANGED redis BY <1>1, <1>a, StutterInv
<1>2. CASE DeleteIndexed(s) BY <1>2, DeleteInv
<1>3. CASE /\ session[s] = raw
           /\ session' = [session EXCEPT ![s] = new]
           /\ owner' = [owner EXCEPT ![s] = record.user]
           /\ index' = [index EXCEPT ![record.user] = @ \cup {s}]
           /\ sequence' = sequence \cup {record.user}
           /\ drawn' = drawn
  <2>1. new \in Record /\ new.user = raw.user /\ record.user = raw.user /\ raw.user \in Users
    <3>1. record \in Record /\ record.user = raw.user BY DEF Record
    <3> HIDE DEF record
    <3>2. [record EXCEPT !.gen = record.gen + 1] \in Record
      BY <3>1 DEF Record
    <3>3. [record EXCEPT !.gen = record.gen + 1].user = raw.user
      BY <3>1 DEF Record
    <3> QED BY <3>1, <3>2, <3>3, ReencodedType DEF Record
  <2>2. Live(s) /\ owner[s] = raw.user /\ s \in index[raw.user] /\ drawn[s] # 0
    BY <1>3, AuthAssumption DEF KeyInv, LiveIsIndexed, Live
  <2>3. index' = index /\ sequence' = sequence /\ owner' = owner
    BY <1>3, <2>1, <2>2 DEF KeyInv, KeysType, SequenceFollows
  <2>4. \A x \in Sids : /\ x # s => session'[x] = session[x]
                        /\ session'[s] = new /\ session'[s] # None
    BY <1>3, <2>1, AuthAssumption DEF KeyInv, KeysType
  <2> HIDE DEF new, record
  <2>5. KeysType' BY <1>3, <2>1, <2>3 DEF KeyInv, KeysType
  <2>6. LiveIsIndexed'
    BY <1>3, <2>1, <2>2, <2>3, <2>4 DEF KeyInv, LiveIsIndexed, Live
  <2>7. DeadIsUnowned' BY <2>3, <2>4 DEF KeyInv, DeadIsUnowned, Live
  <2>8. OwnMembers'
    BY <1>3, <2>1, <2>2, <2>3, <2>4 DEF KeyInv, KeysType, OwnMembers, Live
  <2>9. SequenceFollows' BY <2>3 DEF KeyInv, SequenceFollows
  <2>10. IndexIsBounded' BY <2>3 DEF KeyInv, IndexIsBounded
  <2>11. Buries BY <2>2, <2>4 DEF Buries, Drawn, Live
  <2> QED BY <2>5, <2>6, <2>7, <2>8, <2>9, <2>10, <2>11 DEF KeyInv
<1> QED BY <1>1, <1>2, <1>3 DEF RefreshIndexed

-----------------------------------------------------------------------------
(* Requests *)

LEMMA FrameInv ==
    ASSUME ReqInv, NEW r \in Requests, NEW q \in Frame, Holds(q),
           req' = [req EXCEPT ![r] = q]
    PROVE  ReqInv'
BY DEF ReqInv

LEMMA AnswerInv ==
    ASSUME ReqInv, NEW r \in Requests, NEW a \in Answers, Answer(r, a)
    PROVE  ReqInv'
<1> DEFINE q == [Idle EXCEPT !.answer = a]
<1>1. q \in Frame BY DEF Idle, Frame, Pcs, Kinds, Answers
<1>2. Holds(q) BY DEF Idle, Holds
<1> QED BY Zenon, <1>1, <1>2, FrameInv DEF Answer

LEMMA AnswerMeInv ==
    ASSUME ReqInv, NEW r \in Requests, NEW a \in Answers, AnswerMe(r, a)
    PROVE  ReqInv'
BY AnswerInv DEF Answers, AnswerMe

LEMMA GoInv ==
    ASSUME ReqInv, NEW r \in Requests, NEW pc \in Pcs, Go(r, pc),
           Holds([req[r] EXCEPT !.pc = pc])
    PROVE  ReqInv'
<1>1. [req[r] EXCEPT !.pc = pc] \in Frame BY DEF ReqInv, Frame, Pcs, Kinds, Answers
<1> QED BY Zenon, <1>1, FrameInv DEF Go

LEMMA UnauthenticatedInv ==
    ASSUME ReqInv, NEW r \in Requests, Unauthenticated(r), req[r].sid \in Sids
    PROVE  ReqInv'
<1>1. CASE Go(r, "validate")
  <2>1. Holds([req[r] EXCEPT !.pc = "validate"]) BY DEF ReqInv, Frame, Pcs, Kinds, Answers, Holds
  <2> QED BY Zenon, <1>1, <2>1, GoInv DEF Pcs
<1> QED BY <1>1, AnswerInv DEF Answers, Unauthenticated

LEMMA ServedInv ==
    ASSUME ReqInv, NEW r \in Requests, Served(r), req[r].sid \in Sids
    PROVE  ReqInv'
<1>1. CASE Go(r, "signout")
  <2>1. Holds([req[r] EXCEPT !.pc = "signout"]) BY DEF ReqInv, Frame, Pcs, Kinds, Answers, Holds
  <2> QED BY Zenon, <1>1, <2>1, GoInv DEF Pcs
<1> QED BY <1>1, AnswerInv, SMTT(60) DEF Answers, Served

LEMMA SameKeys ==
    ASSUME KeyInv, UNCHANGED redis, UNCHANGED account
    PROVE  KeyInv' /\ Buries
<1>1. account' \in [Users -> PermSets \cup {None}] BY DEF KeyInv, KeysType
<1> QED BY <1>1, StutterInv

LEMMA SignInInv ==
    ASSUME KeyInv, ReqInv, NEW r \in Requests, NEW u \in Users, SignIn(r, u)
    PROVE  KeyInv' /\ Buries /\ ReqInv'
<1>k. KeyInv' /\ Buries BY SameKeys DEF SignIn, redis
<1>1. CASE Answer(r, "401") BY <1>1, <1>k, AnswerInv DEF Answers
<1>2. CASE /\ req[r].pc = "idle" /\ account[u] # None
           /\ req' = [req EXCEPT ![r].pc = "create", ![r].kind = "login", ![r].user = u,
                                 ![r].perms = account[u]]
  <2> DEFINE q == [req[r] EXCEPT !.pc = "create", !.kind = "login", !.user = u,
                                 !.perms = account[u]]
  <2>1. account[u] \in PermSets BY <1>2 DEF KeyInv, KeysType
  <2>2. q \in Frame
    <3>1. req[r] \in Frame BY DEF ReqInv
    <3>2. q.pc \in Pcs /\ q.kind \in Kinds BY <2>1, <3>1 DEF Frame, Pcs, Kinds
    <3> QED BY Zenon, <2>1, <3>1, <3>2 DEF Frame
  <2>3. Holds(q) BY <2>1 DEF ReqInv, Frame, Pcs, Kinds, Answers, Holds
  <2>4. req' = [req EXCEPT ![r] = q] BY Zenon, <1>2
  <2> QED BY Zenon, <2>2, <2>3, <2>4, <1>k, FrameInv
<1> QED BY <1>1, <1>2 DEF SignIn

LEMMA CreateSessionInv ==
    ASSUME KeyInv, ReqInv, NEW r \in Requests, CreateSession(r)
    PROVE  KeyInv' /\ Buries /\ ReqInv'
<1>1. PICK s \in Sids \ Drawn, t \in Times :
        /\ CreateIndexed(s, [user |-> req[r].user, perms |-> req[r].perms,
                             gen |-> 0, list |-> TRUE], t)
        /\ req' = [req EXCEPT ![r].pc = "audit", ![r].sid = s]
  BY Zenon DEF CreateSession
<1>2. [user |-> req[r].user, perms |-> req[r].perms, gen |-> 0, list |-> TRUE] \in Record
  BY DEF CreateSession, ReqInv, Holds, Record
<1>3. drawn[s] = 0 /\ account' = account BY DEF Drawn, CreateSession
<1>4. KeyInv' /\ Buries BY <1>1, <1>2, <1>3, CreateInv
<1> DEFINE q == [req[r] EXCEPT !.pc = "audit", !.sid = s]
<1>5. q \in Frame
  <2>1. req[r] \in Frame BY DEF ReqInv
  <2>2. q.pc \in Pcs /\ q.kind \in Kinds BY <2>1 DEF Frame, Pcs, Kinds
  <2> QED BY Zenon, <2>1, <2>2 DEF Frame
<1>6. Holds(q) BY DEF ReqInv, Frame, Pcs, Kinds, Answers, Holds
<1>7. req' = [req EXCEPT ![r] = q] BY Zenon, <1>1
<1> QED BY Zenon, <1>4, <1>5, <1>6, <1>7, FrameInv

LEMMA AuditLoginInv ==
    ASSUME KeyInv, ReqInv, NEW r \in Requests, AuditLogin(r)
    PROVE  KeyInv' /\ Buries /\ ReqInv'
<1>k. KeyInv' /\ Buries BY SameKeys DEF AuditLogin, redis
<1>1. CASE Go(r, "undo")
  <2>1. Holds([req[r] EXCEPT !.pc = "undo"]) BY DEF AuditLogin, ReqInv, Frame, Pcs, Kinds, Answers, Holds
  <2> QED BY Zenon, <1>1, <1>k, <2>1, GoInv DEF Pcs
<1> QED BY <1>1, <1>k, AnswerInv DEF Answers, AuditLogin

LEMMA UndoLoginInv ==
    ASSUME KeyInv, ReqInv, NEW r \in Requests, UndoLogin(r)
    PROVE  KeyInv' /\ Buries /\ ReqInv'
<1>1. req[r].sid \in Sids BY DEF UndoLogin, ReqInv, Holds
<1>2. KeyInv' /\ Buries BY <1>1, DeleteInv DEF UndoLogin
<1> QED BY <1>2, AnswerInv DEF Answers, UndoLogin

LEMMA DropSessionInv ==
    ASSUME KeyInv, ReqInv, NEW r \in Requests, DropSession(r)
    PROVE  KeyInv' /\ Buries /\ ReqInv'
<1>1. req[r].sid \in Sids BY DEF DropSession, ReqInv, Holds
<1>2. KeyInv' /\ Buries BY <1>1, DeleteInv DEF DropSession
<1> QED BY <1>2, AnswerInv DEF Answers, DropSession

LEMMA SignOutInv ==
    ASSUME KeyInv, ReqInv, NEW r \in Requests, SignOut(r)
    PROVE  KeyInv' /\ Buries /\ ReqInv'
<1>1. req[r].sid \in Sids BY DEF SignOut, ReqInv, Holds
<1>2. KeyInv' /\ Buries BY <1>1, DeleteInv DEF SignOut
<1> QED BY <1>2, AnswerInv DEF Answers, SignOut

LEMMA ArriveInv ==
    ASSUME KeyInv, ReqInv, NEW r \in Requests, NEW s \in Sids, NEW kind \in Kinds, Arrive(r, s, kind)
    PROVE  KeyInv' /\ Buries /\ ReqInv'
<1>k. KeyInv' /\ Buries BY SameKeys DEF Arrive, redis
<1> DEFINE q == [req[r] EXCEPT !.pc = "load", !.kind = kind, !.sid = s]
<1>1. q \in Frame
  <2>1. req[r] \in Frame BY DEF ReqInv
  <2>2. q.pc \in Pcs /\ q.kind \in Kinds BY <2>1 DEF Frame, Pcs, Kinds
  <2> QED BY Zenon, <2>1, <2>2 DEF Frame
<1>2. Holds(q) BY DEF ReqInv, Frame, Pcs, Kinds, Answers, Holds
<1>3. req' = [req EXCEPT ![r] = q] BY Zenon DEF Arrive
<1> QED BY Zenon, <1>k, <1>1, <1>2, <1>3, FrameInv

LEMMA ReadValidatedInv ==
    ASSUME KeyInv, ReqInv, NEW r \in Requests, ReadValidated(r)
    PROVE  KeyInv' /\ Buries /\ ReqInv'
<1>k. KeyInv' /\ Buries BY SameKeys DEF ReadValidated, redis
<1>0. req[r].sid \in Sids BY DEF ReadValidated, ReqInv, Holds
<1>1. CASE ~Live(req[r].sid)
  BY <1>0, <1>1, <1>k, UnauthenticatedInv DEF ReadValidated
<1>2. CASE Live(req[r].sid)
  <2> DEFINE raw == session[req[r].sid]
             pc == IF Valid(raw) THEN "refresh" ELSE "corrupt"
             q == [req[r] EXCEPT !.raw = raw, !.pc = pc]
  <2>1. raw \in Record /\ pc \in {"refresh", "corrupt"}
    BY <1>0, <1>2 DEF KeyInv, KeysType, Live
  <2>2. req' = [req EXCEPT ![r] = q] BY Zenon, <1>2 DEF ReadValidated
  <2> HIDE DEF raw, pc
  <2>3. q \in Frame
    <3>1. req[r] \in Frame BY DEF ReqInv
    <3>2. q.pc \in Pcs /\ q.kind \in Kinds BY <2>1, <3>1 DEF Frame, Pcs, Kinds
    <3> QED BY Zenon, <2>1, <3>1, <3>2 DEF Frame
  <2>4. Holds(q) BY <2>1, <1>0 DEF ReqInv, Frame, Pcs, Kinds, Answers, Holds
  <2> QED BY Zenon, <1>k, <2>2, <2>3, <2>4, FrameInv
<1> QED BY <1>1, <1>2

LEMMA DeleteCorruptInv ==
    ASSUME KeyInv, ReqInv, NEW r \in Requests, DeleteCorrupt(r)
    PROVE  KeyInv' /\ Buries /\ ReqInv'
<1>1. req[r].sid \in Sids BY DEF DeleteCorrupt, ReqInv, Holds
<1>2. KeyInv' /\ Buries BY Zenon, <1>1, CompareDeleteInv DEF DeleteCorrupt
<1> QED BY <1>2, AnswerInv, AnswerMeInv DEF Answers, DeleteCorrupt

LEMMA RefreshInv ==
    ASSUME KeyInv, ReqInv, NEW r \in Requests, Refresh(r)
    PROVE  KeyInv' /\ Buries /\ ReqInv'
<1>0. req[r].sid \in Sids /\ req[r].raw \in Record BY Zenon DEF Refresh, ReqInv, Holds
<1>1. PICK t \in Times, result \in {"gone", "replaced", "ok"} :
        RefreshIndexed(req[r].sid, req[r].raw, req[r].raw, t, result)
  BY DEF Refresh
<1>2. /\ req[r].raw = [req[r].raw EXCEPT !.perms = req[r].raw.perms]
      /\ req[r].raw.perms \in PermSets /\ req[r].raw.user \in Users
  BY Zenon, <1>0 DEF Record
<1>3. KeyInv' /\ Buries BY <1>0, <1>1, <1>2, CompareSetInv DEF Refresh
<1>4. CASE Unauthenticated(r) BY <1>0, <1>3, <1>4, UnauthenticatedInv
<1>5. CASE Answer(r, "503") BY <1>3, <1>5, AnswerInv DEF Answers
<1>6. CASE req' = [req EXCEPT ![r].pc = "load", ![r].tries = @ + 1, ![r].raw = None]
  <2> DEFINE q == [req[r] EXCEPT !.pc = "load", !.tries = req[r].tries + 1, !.raw = None]
  <2>1. q \in Frame
    <3>1. req[r] \in Frame BY DEF ReqInv
    <3>2. q.pc \in Pcs /\ q.kind \in Kinds BY <3>1 DEF Frame, Pcs, Kinds
    <3>3. req[r].tries + 1 \in Nat BY <3>1 DEF Frame
    <3> QED BY Zenon, <3>1, <3>2, <3>3 DEF Frame
  <2>2. Holds(q) BY <1>0 DEF ReqInv, Frame, Pcs, Kinds, Answers, Holds
  <2>3. req' = [req EXCEPT ![r] = q] BY Zenon, <1>6
  <2> QED BY Zenon, <1>3, <2>1, <2>2, <2>3, FrameInv
<1>7. CASE req' = [req EXCEPT
                     ![r].pc = IF req[r].kind \in {"me", "signout"} THEN "validate"
                               ELSE "authorize",
                     ![r].user = req[r].raw.user, ![r].raw = None]
  <2> DEFINE pc == IF req[r].kind \in {"me", "signout"} THEN "validate" ELSE "authorize"
             q == [req[r] EXCEPT !.pc = pc, !.user = req[r].raw.user, !.raw = None]
  <2>1. pc \in {"validate", "authorize"} OBVIOUS
  <2>2. req' = [req EXCEPT ![r] = q] BY Zenon, <1>7
  <2> HIDE DEF pc
  <2>3. q \in Frame
    <3>1. req[r] \in Frame BY DEF ReqInv
    <3>2. q.pc \in Pcs /\ q.kind \in Kinds BY <1>2, <2>1, <3>1 DEF Frame, Pcs, Kinds
    <3> QED BY Zenon, <1>2, <2>1, <3>1, <3>2 DEF Frame
  <2>4. Holds(q) BY <1>0, <1>2, <2>1 DEF ReqInv, Frame, Pcs, Kinds, Answers, Holds
  <2> QED BY Zenon, <1>3, <2>2, <2>3, <2>4, FrameInv
<1> QED BY <1>4, <1>5, <1>6, <1>7 DEF Refresh

LEMMA AuthorizeInv ==
    ASSUME KeyInv, ReqInv, NEW r \in Requests, Authorize(r)
    PROVE  KeyInv' /\ Buries /\ ReqInv'
<1>k. KeyInv' /\ Buries BY SameKeys, SMTT(60) DEF Authorize, redis
<1>1. CASE Go(r, "drop")
  <2>1. Holds([req[r] EXCEPT !.pc = "drop"]) BY DEF Authorize, ReqInv, Frame, Pcs, Kinds, Answers, Holds
  <2> QED BY Zenon, <1>1, <1>k, <2>1, GoInv DEF Pcs
<1>2. CASE Answer(r, "403") BY <1>2, <1>k, AnswerInv DEF Answers
<1>3. CASE Answer(r, "200") BY ZenonT(30), <1>3, <1>k, AnswerInv DEF Answers
<1> QED BY ZenonT(30), <1>1, <1>2, <1>3 DEF Authorize

LEMMA ValidatedSessionInv ==
    ASSUME KeyInv, ReqInv, NEW r \in Requests, ValidatedSession(r)
    PROVE  KeyInv' /\ Buries /\ ReqInv'
<1>k. KeyInv' /\ Buries BY SameKeys DEF ValidatedSession, redis
<1>0. req[r].sid \in Sids BY DEF ValidatedSession, ReqInv, Holds
<1>1. CASE ~Live(req[r].sid)
  BY <1>1, <1>k, AnswerMeInv DEF Answers, ValidatedSession
<1>2. CASE Live(req[r].sid)
  <2> DEFINE raw == session[req[r].sid]
             pc == IF Valid(raw) THEN "user" ELSE "corruptMe"
             q == [req[r] EXCEPT !.raw = raw, !.user = raw.user, !.pc = pc]
  <2>1. raw \in Record /\ pc \in {"user", "corruptMe"}
    BY <1>0, <1>2 DEF KeyInv, KeysType, Live
  <2>2. req' = [req EXCEPT ![r] = q] BY Zenon, <1>2 DEF ValidatedSession
  <2>u. raw.user \in Users BY <2>1 DEF Record
  <2> HIDE DEF raw, pc
  <2>3. q \in Frame
    <3>1. req[r] \in Frame BY DEF ReqInv
    <3>2. q.pc \in Pcs /\ q.kind \in Kinds BY <2>1, <2>u, <3>1 DEF Frame, Pcs, Kinds
    <3> QED BY Zenon, <2>1, <2>u, <3>1, <3>2 DEF Frame
  <2>4. Holds(q) BY <2>1, <2>u, <1>0 DEF ReqInv, Frame, Pcs, Kinds, Answers, Holds
  <2> QED BY Zenon, <1>k, <2>2, <2>3, <2>4, FrameInv
<1> QED BY <1>1, <1>2

LEMMA GetUserInv ==
    ASSUME KeyInv, ReqInv, NEW r \in Requests, GetUser(r)
    PROVE  KeyInv' /\ Buries /\ ReqInv'
<1>k. KeyInv' /\ Buries BY SameKeys DEF GetUser, redis
<1>0. req[r].sid \in Sids /\ req[r].user \in Users /\ req[r].raw \in Record
  BY SMTT(60) DEF GetUser, ReqInv, Holds
<1>1. CASE Go(r, "drop")
  <2>1. Holds([req[r] EXCEPT !.pc = "drop"]) BY <1>0 DEF ReqInv, Frame, Pcs, Kinds, Answers, Holds
  <2> QED BY Zenon, <1>1, <1>k, <2>1, GoInv DEF Pcs
<1>2. CASE Served(r) BY <1>0, <1>2, <1>k, ServedInv
<1>3. CASE /\ account[req[r].user] # None
           /\ req' = [req EXCEPT ![r].pc = "update", ![r].perms = account[req[r].user]]
  <2> DEFINE q == [req[r] EXCEPT !.pc = "update", !.perms = account[req[r].user]]
  <2>1. account[req[r].user] \in PermSets BY <1>0, <1>3 DEF KeyInv, KeysType
  <2>2. q \in Frame
    <3>1. req[r] \in Frame BY DEF ReqInv
    <3>2. q.pc \in Pcs /\ q.kind \in Kinds BY <2>1, <3>1 DEF Frame, Pcs, Kinds
    <3> QED BY Zenon, <2>1, <3>1, <3>2 DEF Frame
  <2>3. Holds(q) BY <1>0, <2>1 DEF ReqInv, Frame, Pcs, Kinds, Answers, Holds
  <2>4. req' = [req EXCEPT ![r] = q] BY Zenon, <1>3
  <2> QED BY Zenon, <1>k, <2>2, <2>3, <2>4, FrameInv
<1> QED BY <1>1, <1>2, <1>3 DEF GetUser

LEMMA UpdateRecordInv ==
    ASSUME KeyInv, ReqInv, NEW r \in Requests, UpdateRecord(r)
    PROVE  KeyInv' /\ Buries /\ ReqInv'
<1>0. req[r].sid \in Sids /\ req[r].raw \in Record /\ req[r].perms \in PermSets
  BY DEF UpdateRecord, ReqInv, Holds
<1>1. PICK t \in Times, result \in {"gone", "replaced", "ok"} :
        RefreshIndexed(req[r].sid, req[r].raw,
                       [req[r].raw EXCEPT !.perms = req[r].perms], t, result)
  BY DEF UpdateRecord
<1>2. KeyInv' /\ Buries BY <1>0, <1>1, CompareSetInv DEF UpdateRecord
<1> QED BY <1>0, <1>2, AnswerMeInv, ServedInv DEF Answers, UpdateRecord

(* Redis drops expired keys *)
LEMMA ExpireInv ==
    ASSUME KeyInv, NEW s \in Sids, Expire(s)
    PROVE  KeyInv' /\ Buries
<1> DEFINE u == session[s].user
<1>1. Live(s) BY DEF Expire
<1>2. u \in Users BY <1>1 DEF KeyInv, KeysType, Live, Record
<1>3. /\ session' = [x \in Sids |-> IF x \in {s} THEN None ELSE session[x]]
      /\ owner' = [x \in Sids |-> IF x \in {s} THEN None ELSE owner[x]]
  BY Zenon DEF Expire, KeyInv, KeysType
<1>4. /\ index' = [index EXCEPT ![u] = index[u]]
      /\ sequence' = IF index[u] = {} THEN sequence \ {u} ELSE sequence
  BY <1>2 DEF Expire, KeyInv, KeysType, SequenceFollows
<1> HIDE DEF u
<1>5. UNCHANGED <<drawn, account>> BY DEF Expire
<1>6. \A x \in index[u] \ index[u] : session'[x] = None OBVIOUS
<1> QED BY Zenon, <1>2, <1>3, <1>4, <1>5, <1>6, RemovalInv

LEMMA ExpireIndexInv ==
    ASSUME KeyInv, NEW u \in Users, ExpireIndex(u)
    PROVE  KeyInv' /\ Buries
<1>1. /\ session' = [x \in Sids |-> IF x \in {} THEN None ELSE session[x]]
      /\ owner' = [x \in Sids |-> IF x \in {} THEN None ELSE owner[x]]
  BY DEF ExpireIndex, KeyInv, KeysType
<1>2. /\ index' = [index EXCEPT ![u] = {}]
      /\ sequence' = IF {} = {} THEN sequence \ {u} ELSE sequence
      /\ UNCHANGED <<drawn, account>>
  BY DEF ExpireIndex
<1>3. \A x \in index[u] \ {} : session'[x] = None
  BY DEF ExpireIndex, Stale, Live
<1>4. {} \in SUBSET Sids /\ {} \in SUBSET index[u] OBVIOUS
<1> QED BY Zenon, <1>1, <1>2, <1>3, <1>4, RemovalInv

(***************************************************************************)
(* The inductive invariant.  IndexConsistent and SessionLimit need that an *)
(* index is bounded by itself (stale members included), that its members   *)
(* have been drawn, and that a request holds a record where it compares    *)
(* one.                                                                    *)
(***************************************************************************)
Inv == KeyInv /\ ReqInv

LEMMA InitInv == Init => Inv
<1> SUFFICES ASSUME Init PROVE Inv OBVIOUS
<1>1. KeysType /\ LiveIsIndexed /\ DeadIsUnowned /\ OwnMembers
  BY DEF Init, KeysType, LiveIsIndexed, DeadIsUnowned, OwnMembers, Live
<1>2. SequenceFollows BY DEF Init, SequenceFollows
<1>3. IndexIsBounded BY FS_EmptySet, AuthAssumption DEF Init, IndexIsBounded
<1>4. Idle \in Frame BY Zenon DEF Idle, Frame, Pcs, Kinds, Answers
<1>5. Holds(Idle) BY DEF Idle, Holds
<1>6. ReqInv BY Zenon, <1>4, <1>5 DEF Init, ReqInv
<1> QED BY <1>1, <1>2, <1>3, <1>6 DEF Inv, KeyInv, Init

LEMMA StepInv ==
    ASSUME Inv, NEW r \in Requests, Step(r)
    PROVE  KeyInv' /\ Buries /\ ReqInv'
<1>1. ASSUME NEW s \in Sids, NEW kind \in {"use", "active", "me", "signout"}, Arrive(r, s, kind)
      PROVE  KeyInv' /\ Buries /\ ReqInv'
  <2>1. kind \in Kinds BY <1>1 DEF Kinds
  <2> QED BY <1>1, <2>1, ArriveInv DEF Inv
<1> QED
  BY ZenonT(30), <1>1, SignInInv, CreateSessionInv, AuditLoginInv, UndoLoginInv, ReadValidatedInv,
     DeleteCorruptInv, RefreshInv, AuthorizeInv, DropSessionInv, ValidatedSessionInv,
     GetUserInv, UpdateRecordInv, SignOutInv
  DEF Inv, Step

LEMMA EnvironmentInv ==
    ASSUME Inv, Environment
    PROVE  KeyInv' /\ Buries /\ ReqInv'
<1>r. ReqInv' BY DEF Inv, ReqInv, Environment, Age, Expire, ExpireIndex, ChangeAccount
<1>1. ASSUME NEW s \in Sids, Age(s) PROVE KeyInv' /\ Buries
  <2>1. Age(s) => session' = session /\ owner' = owner /\ index' = index
                  /\ sequence' = sequence /\ drawn' = drawn /\ account' = account
    BY Zenon DEF Age
  <2>2. KeysType' BY <1>1, <2>1 DEF Inv, KeyInv, KeysType
  <2>3. LiveIsIndexed' BY Zenon, <1>1, <2>1 DEF Inv, KeyInv, LiveIsIndexed, Live
  <2>4. DeadIsUnowned' BY Zenon, <1>1, <2>1 DEF Inv, KeyInv, DeadIsUnowned, Live
  <2>5. OwnMembers' BY <1>1, <2>1 DEF Inv, KeyInv, OwnMembers, Live
  <2>6. SequenceFollows' BY <1>1, <2>1 DEF Inv, KeyInv, SequenceFollows
  <2>7. IndexIsBounded' BY <1>1, <2>1 DEF Inv, KeyInv, IndexIsBounded
  <2>8. Buries BY <1>1, <2>1 DEF Buries, Live
  <2> QED BY <2>2, <2>3, <2>4, <2>5, <2>6, <2>7, <2>8, SMTT(30) DEF KeyInv
<1>2. ASSUME NEW s \in Sids, Expire(s) PROVE KeyInv' /\ Buries
  BY <1>2, ExpireInv DEF Inv
<1>3. ASSUME NEW u \in Users, ExpireIndex(u) PROVE KeyInv' /\ Buries
  BY <1>3, ExpireIndexInv DEF Inv
<1>4. ASSUME NEW u \in Users, ChangeAccount(u) PROVE KeyInv' /\ Buries
  <2>1. account' \in [Users -> PermSets \cup {None}]
    BY <1>4 DEF ChangeAccount, Inv, KeyInv, KeysType
  <2> QED BY <1>4, <2>1, StutterInv DEF ChangeAccount, Inv
<1> QED BY Zenon, <1>r, <1>1, <1>2, <1>3, <1>4 DEF Environment

LEMMA NextInv == Inv /\ [Next]_vars => Inv' /\ [Buries]_vars
<1> SUFFICES ASSUME Inv, [Next]_vars PROVE Inv' /\ [Buries]_vars OBVIOUS
<1>1. CASE Next
  BY <1>1, StepInv, EnvironmentInv DEF Next, Inv
<1>2. CASE UNCHANGED vars
  <2>1. KeyInv' BY <1>2, SameKeys DEF vars, redis, Inv
  <2>2. ReqInv' BY <1>2 DEF vars, ReqInv, Inv
  <2> QED BY <1>2, <2>1, <2>2 DEF Inv
<1> QED BY <1>1, <1>2

LEMMA InvImplies == Inv => IndexConsistent /\ SessionLimit
<1> SUFFICES ASSUME Inv PROVE IndexConsistent /\ SessionLimit OBVIOUS
<1>1. IndexConsistent
  BY DEF Inv, KeyInv, LiveIsIndexed, DeadIsUnowned, OwnMembers, SequenceFollows,
         IndexConsistent
<1>2. ASSUME MaxSessions > 0, NEW u \in Users
      PROVE  Cardinality({s \in Sids : Live(s) /\ session[s].user = u}) <= MaxSessions
  <2> DEFINE live == {s \in Sids : Live(s) /\ session[s].user = u}
  <2>1. live \subseteq index[u] BY DEF Inv, KeyInv, LiveIsIndexed
  <2>2. IsFiniteSet(index[u]) BY AuthAssumption, FS_Subset DEF Inv, KeyInv, KeysType
  <2>3. /\ Cardinality(live) <= Cardinality(index[u])
        /\ Cardinality(live) \in Nat /\ Cardinality(index[u]) \in Nat
    BY <2>1, <2>2, FS_Subset, FS_CardinalityType
  <2>4. Cardinality(index[u]) <= MaxSessions BY <1>2 DEF Inv, KeyInv, IndexIsBounded
  <2> QED BY <2>3, <2>4, AuthAssumption
<1> QED BY <1>1, <1>2 DEF SessionLimit

(***************************************************************************)
(* Keys, owner keys and indexes agree at all times: the scripts never      *)
(* answer session-user-mismatch and never have to repair an index.         *)
(***************************************************************************)
THEOREM KeysAgree == Spec => []IndexConsistent
<1>1. Spec => []Inv BY InitInv, NextInv, PTL DEF Spec
<1> QED BY <1>1, InvImplies, PTL

(***************************************************************************)
(* No user ever has more live sessions than                                *)
(* MAX_CONCURRENT_SESSIONS_PER_USER.                                       *)
(***************************************************************************)
THEOREM LimitHolds == Spec => []SessionLimit
<1>1. Spec => []Inv BY InitInv, NextInv, PTL DEF Spec
<1> QED BY <1>1, InvImplies, PTL

(***************************************************************************)
(* Both together: the limit holds because the scripts that enforce it can  *)
(* rely on the index.                                                      *)
(***************************************************************************)
THEOREM KeysStaySound == Spec => []KeysAreSound
<1>1. IndexConsistent /\ SessionLimit => KeysAreSound BY DEF KeysAreSound
<1> QED BY <1>1, KeysAgree, LimitHolds, PTL

(***************************************************************************)
(* A session that has ended stays ended: no refresh, replacement or        *)
(* clean-up of a request that is still running brings it back.             *)
(***************************************************************************)
THEOREM EndedForGood == Spec => NoResurrection
<1>1. Spec => []Inv BY InitInv, NextInv, PTL DEF Spec
<1>2. Inv /\ [Next]_vars => [\A s \in Drawn : ~Live(s) => session'[s] = None]_vars
  BY NextInv DEF Buries
<1> QED BY <1>1, <1>2, PTL DEF Spec, NoResurrection


-----------------------------------------------------------------------------
(***************************************************************************)
(* Scores.  The index of a user orders its members as they were created,   *)
(* whatever the clocks say: a new score is above every other one.          *)
(***************************************************************************)

(* a set of naturals has a least element *)
LEMMA LeastNat ==
    ASSUME NEW T, T \subseteq Nat, T # {}
    PROVE  \E x \in T : \A y \in T : x <= y
<1>1. \E x \in T : \A y \in T : ~ (<<y, x>> \in OpToRel(<, Nat))
  BY NatLessThanWellFounded, WFMin, Zenon
<1>2. PICK x \in T : \A y \in T : ~ (<<y, x>> \in OpToRel(<, Nat))
  BY <1>1, Zenon
<1>3. ASSUME NEW y \in T PROVE x <= y
  <2>1. x \in Nat /\ y \in Nat OBVIOUS
  <2>2. ~(y < x) BY <1>2, <2>1, Zenon DEF OpToRel
  <2> QED BY <2>1, <2>2
<1> QED BY <1>3, Zenon

(* a finite set of members has one with the highest score: the member that *)
(* the fewest others are above                                             *)
LEMMA HighestMember ==
    ASSUME NEW S, IsFiniteSet(S), S # {}, NEW f, \A m \in S : f[m] \in Nat
    PROVE  \E m \in S : \A k \in S : f[k] <= f[m]
<1> DEFINE Above(m) == {k \in S : f[m] < f[k]}
           Counts == {Cardinality(Above(m)) : m \in S}
<1>1. \A m \in S : IsFiniteSet(Above(m)) /\ Cardinality(Above(m)) \in Nat
  <2> SUFFICES ASSUME NEW m \in S PROVE IsFiniteSet(Above(m)) /\ Cardinality(Above(m)) \in Nat
    OBVIOUS
  <2>1. Above(m) \in SUBSET S OBVIOUS
  <2> HIDE DEF Above
  <2> QED BY <2>1, FS_Subset, FS_CardinalityType
<1>2. Counts \subseteq Nat /\ Counts # {} BY Zenon, <1>1
<1>3. PICK n \in Counts : \A x \in Counts : n <= x
  <2> HIDE DEF Counts
  <2> QED BY Zenon, <1>2, LeastNat
<1>4. PICK m \in S : n = Cardinality(Above(m)) OBVIOUS
<1>5. ASSUME NEW k \in S, f[m] < f[k] PROVE FALSE
  <2>1. Above(k) \in SUBSET Above(m) /\ k \in Above(m) /\ k \notin Above(k)
    BY <1>5
  <2>2. Cardinality(Above(m)) <= Cardinality(Above(k)) BY Zenon, <1>3, <1>4
  <2> HIDE DEF Above
  <2>3. Cardinality(Above(k)) <= Cardinality(Above(m))
    BY Zenon, <1>1, <2>1, FS_Subset
  <2>4. Cardinality(Above(m)) = Cardinality(Above(k)) BY <1>1, <2>2, <2>3
  <2>5. Above(m) = Above(k) BY <1>1, <2>1, <2>4, FS_Subset
  <2> QED BY <2>1, <2>5
<1> QED BY <1>5

LEMMA NewScoreIsHighest ==
    ASSUME score \in [Sids -> Nat], NEW S \in SUBSET Sids, NEW t \in Times
    PROVE  NewScore(S, t) \in Nat /\ \A m \in S : score[m] < NewScore(S, t)
<1>0. t \in Nat /\ IsFiniteSet(S) BY AuthAssumption, FS_Subset
<1>1. Highest(S) \in Nat /\ \A m \in S : score[m] <= Highest(S)
  <2>1. CASE S = {} BY <2>1 DEF Highest
  <2>2. CASE S # {}
    <3>1. \A m \in S : score[m] \in Nat OBVIOUS
    <3>2. \E m \in S : \A k \in S : score[k] <= score[m]
      BY <1>0, <2>2, <3>1, HighestMember
    <3>3. \E n \in {score[m] : m \in S} : \A m \in S : score[m] <= n
      BY <3>2
    <3> DEFINE Bounds(n) == \A m \in S : score[m] <= n
               h == CHOOSE n \in {score[m] : m \in S} : Bounds(n)
    <3>4. h \in {score[m] : m \in S} /\ Bounds(h) BY <3>3
    <3>5. Highest(S) = h BY <2>2 DEF Highest
    <3> HIDE DEF h
    <3> QED BY <3>1, <3>4, <3>5
  <2> QED BY <2>1, <2>2
<1> QED BY <1>0, <1>1 DEF NewScore

(***************************************************************************)
(* Within an index scores follow the order of creation; ranks of creation  *)
(* are distinct, and a session is a member of one index only, so that      *)
(* forgetting the scores of one index does not touch another.              *)
(***************************************************************************)
ScoreType == score \in [Sids -> Nat]
RanksAreBounded == \A s \in Sids : drawn[s] <= Cardinality(Drawn)
RanksAreDistinct == \A a, b \in Sids : drawn[a] = drawn[b] /\ drawn[a] # 0 => a = b
ScoresFollowRanks ==
    \A u \in Users : \A a, b \in index[u] : drawn[a] < drawn[b] => score[a] < score[b]
IndexesAreDisjoint == \A u, v \in Users : \A s \in index[u] : s \in index[v] => u = v
AgedIsLive == aged \subseteq {s \in Sids : Live(s)}

ScoreInv ==
    /\ ScoreType /\ RanksAreBounded /\ RanksAreDistinct
    /\ ScoresFollowRanks /\ IndexesAreDisjoint /\ AgedIsLive

(* a step that creates no session, adds no member and touches no score of a *)
(* member that stays                                                        *)
LEMMA KeepsScores ==
    ASSUME KeyInv, ScoreInv, drawn' = drawn, score' \in [Sids -> Nat],
           \A u \in Users : index'[u] \subseteq index[u],
           \A u \in Users : \A x \in index'[u] : score'[x] = score[x],
           AgedIsLive'
    PROVE  ScoreInv'
<1>1. ScoreType' BY DEF ScoreType
<1>2. RanksAreBounded' BY DEF ScoreInv, RanksAreBounded, Drawn
<1>3. RanksAreDistinct' BY DEF ScoreInv, RanksAreDistinct
<1>4. ScoresFollowRanks' BY DEF ScoreInv, ScoresFollowRanks
<1>5. IndexesAreDisjoint' BY DEF ScoreInv, IndexesAreDisjoint
<1> QED BY <1>1, <1>2, <1>3, <1>4, <1>5 DEF ScoreInv

(* what UNCHANGED redis leaves *)
LEMMA SameScores ==
    ASSUME KeyInv, ScoreInv, UNCHANGED redis
    PROVE  ScoreInv' /\ drawn' = drawn
<1>1. drawn' = drawn /\ score' = score /\ index' = index /\ session' = session /\ aged' = aged
  BY DEF redis
<1>2. AgedIsLive' BY <1>1 DEF ScoreInv, AgedIsLive, Live
<1>3. score' \in [Sids -> Nat] BY <1>1 DEF ScoreInv, ScoreType
<1> QED BY <1>1, <1>2, <1>3, KeepsScores

(* removing members of one index, and their scores with them *)
LEMMA RemovalScores ==
    ASSUME KeyInv, ScoreInv, NEW u \in Users, NEW rest \in SUBSET index[u],
           index' = [index EXCEPT ![u] = rest],
           score' = Scored(score, index[u] \ rest),
           drawn' = drawn, AgedIsLive'
    PROVE  ScoreInv'
<1>1. score' \in [Sids -> Nat] BY DEF Scored, ScoreInv, ScoreType
<1>2. \A v \in Users : index'[v] \subseteq index[v] BY DEF KeyInv, KeysType
<1>3. ASSUME NEW v \in Users, NEW x \in index'[v] PROVE score'[x] = score[x]
  <2>1. x \in index[v] /\ x \in Sids BY <1>2 DEF KeyInv, KeysType
  <2>2. v = u => x \in rest BY DEF KeyInv, KeysType
  <2>3. x \notin index[u] \ rest BY <2>1, <2>2 DEF ScoreInv, IndexesAreDisjoint
  <2> QED BY <2>1, <2>3 DEF Scored
<1> QED BY Zenon, <1>1, <1>2, <1>3, KeepsScores

(* _DELETE_INDEXED_SESSION_LUA *)
LEMMA DeleteScores ==
    ASSUME KeyInv, ScoreInv, NEW s \in Sids, DeleteIndexed(s)
    PROVE  ScoreInv' /\ drawn' = drawn
<1>1. CASE ~Live(s) /\ owner[s] = None
  <2>1. UNCHANGED redis BY <1>1 DEF DeleteIndexed
  <2> QED BY Zenon, <2>1, SameScores
<1>2. CASE Live(s) \/ owner[s] # None
  <2> DEFINE u == session[s].user
             rest == (index[u] \ Stale(u)) \ {s}
  <2>1. Live(s) /\ owner[s] = u /\ u \in Users /\ owner[s] # None
    BY <1>2, AuthAssumption DEF KeyInv, KeysType, DeadIsUnowned, LiveIsIndexed, Live, Record
  <2>2. /\ session' = [session EXCEPT ![s] = None]
        /\ index' = [index EXCEPT ![u] = rest]
        /\ score' = Scored(score, index[u] \ rest)
        /\ aged' = aged \ {s}
        /\ drawn' = drawn
    BY Zenon, <2>1 DEF DeleteIndexed
  <2>3. rest \in SUBSET index[u] BY Zenon
  <2>4. AgedIsLive'
    BY <2>2 DEF ScoreInv, AgedIsLive, Live, KeyInv, KeysType
  <2> HIDE DEF u, rest
  <2> QED BY Zenon, <2>1, <2>2, <2>3, <2>4, RemovalScores
<1> QED BY <1>1, <1>2

(* _DELETE_CORRUPT_INDEXED_SESSION_LUA *)
LEMMA CompareDeleteScores ==
    ASSUME KeyInv, ScoreInv, NEW s \in Sids, NEW raw, DeleteCorruptIndexed(s, raw)
    PROVE  ScoreInv' /\ drawn' = drawn
BY DeleteScores, SameScores DEF DeleteCorruptIndexed

(* _REFRESH_INDEXED_SESSION_LUA: the session it writes is a member already *)
LEMMA CompareSetScores ==
    ASSUME KeyInv, ScoreInv, NEW s \in Sids, NEW raw \in Record, NEW perms \in PermSets,
           NEW t \in Times, NEW result,
           RefreshIndexed(s, raw, [raw EXCEPT !.perms = perms], t, result)
    PROVE  ScoreInv' /\ drawn' = drawn
<1> DEFINE record == [raw EXCEPT !.perms = perms]
           new == Reencoded([record EXCEPT !.gen = record.gen + 1])
<1>1. CASE UNCHANGED redis BY <1>1, SameScores
<1>2. CASE DeleteIndexed(s) BY <1>2, DeleteScores
<1>3. CASE /\ session[s] = raw
           /\ session' = [session EXCEPT ![s] = new]
           /\ index' = [index EXCEPT ![record.user] = @ \cup {s}]
           /\ score' = IF s \in index[record.user] THEN score
                       ELSE [score EXCEPT ![s] = NewScore(index[record.user], t)]
           /\ aged' = aged /\ drawn' = drawn
  <2>1. record.user = raw.user /\ raw.user \in Users /\ record \in Record BY DEF Record
  <2>2. s \in index[raw.user]
    BY <1>3, AuthAssumption DEF KeyInv, LiveIsIndexed, Live
  <2> HIDE DEF record
  <2>3. index' = index /\ score' = score
    BY <1>3, <2>1, <2>2 DEF KeyInv, KeysType
  <2>4. new # None
    <3>1. [record EXCEPT !.gen = record.gen + 1] \in Record BY <2>1 DEF Record
    <3> QED BY <3>1, ReencodedType, AuthAssumption
  <2> HIDE DEF new
  <2>5. AgedIsLive' BY <1>3, <2>4 DEF ScoreInv, AgedIsLive, Live, KeyInv, KeysType
  <2>6. score' \in [Sids -> Nat] BY Zenon, <2>3 DEF ScoreInv, ScoreType
  <2> QED BY <1>3, <2>3, <2>5, <2>6, KeepsScores
<1> QED BY <1>1, <1>2, <1>3 DEF RefreshIndexed

(* what EvictsOldest says of one step *)
EvictsInOrder ==
    \A s \in Sids \ Drawn : drawn'[s] # 0 =>
      /\ session'[s] # None
      /\ \A v \in Sids : Live(v) /\ session'[v] = None =>
           /\ session[v].user = session'[s].user
           /\ \A k \in Sids : session'[k] # None /\ session'[k].user = session[v].user
                                => drawn[v] < drawn'[k]

(***************************************************************************)
(* _CREATE_INDEXED_SESSION_LUA gives the new session the highest score, so *)
(* the loop that evicts the lowest score never reaches it, and every       *)
(* session it evicts was created before every session that stays.          *)
(***************************************************************************)
LEMMA CreateScores ==
    ASSUME KeyInv, ScoreInv, NEW s \in Sids, drawn[s] = 0, NEW record \in Record,
           NEW t \in Times, CreateIndexed(s, record, t), KeyInv'
    PROVE  ScoreInv' /\ EvictsInOrder
<1> DEFINE u == record.user
           others == index[u] \ Stale(u)
           members == others \cup {s}
           rank == [score EXCEPT ![s] = NewScore(others, t)]
<1>u. u \in Users BY DEF Record
<1>0. PICK kept \in SUBSET members :
        /\ Cardinality(kept) = Capacity(Cardinality(members))
        /\ \A k \in kept, v \in members \ kept : rank[v] < rank[k]
        /\ score' = Scored(rank, (index[u] \cup {s}) \ kept)
        /\ index' = [index EXCEPT ![u] = kept]
        /\ session' = [x \in Sids |-> IF x \in members \ kept THEN None
                                      ELSE IF x = s THEN record ELSE session[x]]
        /\ aged' = aged \ (members \ kept)
  BY Zenon DEF CreateIndexed
<1>1. drawn' = [drawn EXCEPT ![s] = Cardinality(Drawn) + 1] BY Zenon DEF CreateIndexed
<1>m. members \subseteq Sids /\ s \in members /\ others \in SUBSET Sids
  BY Zenon, <1>u DEF KeyInv, KeysType, Stale
<1>d. ~Live(s) /\ \A v \in Users : s \notin index[v]
  BY Zenon DEF KeyInv, LiveIsIndexed, OwnMembers
<1>o. others \subseteq index[u] /\ s \notin others /\ index[u] \subseteq Sids
  BY Zenon, <1>d, <1>u DEF KeyInv, KeysType
<1>f. /\ IsFiniteSet(members) /\ IsFiniteSet(kept) /\ IsFiniteSet(Drawn)
      /\ Cardinality(members) \in Nat /\ Cardinality(Drawn) \in Nat
      /\ Cardinality(members) # 0
  BY Zenon, <1>m, AuthAssumption, FS_Subset, FS_CardinalityType, FS_EmptySet DEF Drawn
<1>n. kept # {}
  BY <1>0, <1>f, FS_EmptySet, AuthAssumption DEF Capacity
<1>h. NewScore(others, t) \in Nat /\ \A m \in others : score[m] < NewScore(others, t)
  BY Zenon, <1>m, NewScoreIsHighest DEF ScoreInv, ScoreType
<1>r. /\ rank \in [Sids -> Nat] /\ \A m \in others : rank[m] = score[m] /\ rank[m] < rank[s]
      /\ \A x \in Sids : x # s => rank[x] = score[x]
  BY ZenonT(30), <1>h, <1>m, <1>o DEF ScoreInv, ScoreType
<1> HIDE DEF others, rank
<1>k. s \in kept
  <2> SUFFICES ASSUME s \notin kept PROVE FALSE OBVIOUS
  <2>1. PICK k \in kept : k \in others BY Zenon, <1>n DEF members
  <2>2. rank[s] < rank[k] BY Zenon, <1>0, <1>m, <2>1
  <2> QED BY <2>1, <2>2, <1>r, <1>m
<1>x. /\ \A x \in Sids : x # s => drawn'[x] = drawn[x]
      /\ drawn'[s] = Cardinality(Drawn) + 1
      /\ \A x \in Sids : drawn[x] \in Nat /\ drawn[x] < Cardinality(Drawn) + 1
  BY <1>1, <1>f DEF KeyInv, KeysType, ScoreInv, RanksAreBounded
<1>2. ScoreType' BY Zenon, <1>0, <1>r DEF ScoreType, Scored
<1>3. RanksAreBounded'
  <2>1. Drawn' = Drawn \cup {s} /\ s \notin Drawn
    BY <1>x, <1>f DEF Drawn
  <2>2. Cardinality(Drawn') = Cardinality(Drawn) + 1 BY Zenon, <2>1, <1>f, FS_AddElement
  <2> QED BY <2>2, <1>x, <1>f DEF RanksAreBounded
<1>4. RanksAreDistinct'
  <2>1. \A x \in Sids : x # s => drawn'[x] # drawn'[s] BY <1>x, <1>f
  <2> QED BY Zenon, <2>1, <1>x DEF RanksAreDistinct, ScoreInv
<1>i. \A v \in Users : index'[v] = IF v = u THEN kept ELSE index[v]
  BY Zenon, <1>0 DEF KeyInv, KeysType
<1>5. IndexesAreDisjoint'
  <2>1. kept \subseteq index[u] \cup {s} BY Zenon, <1>o DEF members
  <2> QED BY <2>1, <1>i, <1>d, <1>u DEF IndexesAreDisjoint, ScoreInv
<1>6. ScoresFollowRanks'
  <2> SUFFICES ASSUME NEW v \in Users, NEW a \in index'[v], NEW b \in index'[v],
                      drawn'[a] < drawn'[b]
               PROVE  score'[a] < score'[b]
    BY Zenon DEF ScoresFollowRanks
  <2>s. a \in Sids /\ b \in Sids BY Zenon DEF KeyInv, KeysType
  <2>1. CASE v # u
    <3>1. a \in index[v] /\ b \in index[v] BY Zenon, <1>i, <2>1
    <3>2. a # s /\ b # s /\ a \notin index[u] /\ b \notin index[u]
      BY Zenon, <3>1, <2>1, <1>d, <1>u DEF ScoreInv, IndexesAreDisjoint
    <3>3. score'[a] = score[a] /\ score'[b] = score[b]
      BY Zenon, <1>0, <3>2, <2>s, <1>r DEF Scored
    <3> QED BY Zenon, <3>1, <3>2, <3>3, <2>s, <1>x DEF ScoreInv, ScoresFollowRanks
  <2>2. CASE v = u
    <3>1. a \in kept /\ b \in kept BY Zenon, <1>i, <2>2
    <3>2. score'[a] = rank[a] /\ score'[b] = rank[b] BY Zenon, <1>0, <3>1, <2>s DEF Scored
    <3>3. a # s BY <1>x, <2>s, <1>f
    <3>4. a \in others BY Zenon, <3>1, <3>3 DEF members
    <3>5. CASE b = s BY Zenon, <3>2, <3>4, <3>5, <1>r
    <3>6. CASE b # s
      <4>1. b \in others BY Zenon, <3>1, <3>6 DEF members
      <4>2. drawn[a] < drawn[b] BY Zenon, <1>x, <2>s, <3>3, <3>6
      <4>3. score[a] < score[b] BY <4>1, <4>2, <3>4, <1>o, <1>u DEF ScoreInv, ScoresFollowRanks
      <4> QED BY Zenon, <4>1, <4>3, <3>2, <3>4, <1>r
    <3> QED BY Zenon, <3>5, <3>6
  <2> QED BY Zenon, <2>1, <2>2
<1>7. AgedIsLive'
  <2>1. record # None BY Zenon, AuthAssumption
  <2> QED BY Zenon, <2>1, <1>0 DEF ScoreInv, AgedIsLive, Live
<1>8. EvictsInOrder
  <2> SUFFICES ASSUME NEW x \in Sids \ Drawn, drawn'[x] # 0
               PROVE  /\ session'[x] # None
                      /\ \A v \in Sids : Live(v) /\ session'[v] = None =>
                           /\ session[v].user = session'[x].user
                           /\ \A k \in Sids : session'[k] # None /\ session'[k].user = session[v].user
                                                => drawn[v] < drawn'[k]
    BY Zenon DEF EvictsInOrder
  <2>1. x = s BY <1>x DEF Drawn
  <2>2. session'[s] = record /\ record # None BY Zenon, <1>0, <1>k, AuthAssumption
  <2>3. ASSUME NEW v \in Sids, Live(v), session'[v] = None
        PROVE  /\ v \in others /\ v \notin kept /\ session[v].user = u
               /\ v # s
    <3>1. v # s BY Zenon, <2>3, <2>2
    <3>2. v \in members \ kept BY Zenon, <3>1, <2>3, <1>0 DEF Live
    <3>3. v \in others BY Zenon, <3>1, <3>2 DEF members
    <3>4. session[v].user = u BY Zenon, <3>3, <2>3, <1>o, <1>u DEF KeyInv, OwnMembers
    <3> QED BY Zenon, <3>1, <3>2, <3>3, <3>4
  <2>4. ASSUME NEW v \in Sids, Live(v), session'[v] = None,
               NEW k \in Sids, session'[k] # None, session'[k].user = u
        PROVE  drawn[v] < drawn'[k]
    <3>1. v \in others /\ v \notin kept /\ v # s BY Zenon, <2>3, <2>4
    <3>2. k \in kept
      <4>1. k \in index'[u] BY Zenon, <2>4 DEF KeyInv, LiveIsIndexed, Live
      <4> QED BY Zenon, <4>1, <1>i, <1>u
    <3>3. CASE k = s BY Zenon, <3>3, <1>x
    <3>4. CASE k # s
      <4>1. k \in others BY <3>2, <3>4 DEF members
      <4>2. rank[v] < rank[k] BY Zenon, <1>0, <3>1, <3>2 DEF members
      <4>3. score[v] < score[k] BY Zenon, <4>1, <4>2, <3>1, <1>r
      <4>4. ~(drawn[k] < drawn[v])
        <5>1. score[v] \in Nat /\ score[k] \in Nat BY Zenon DEF ScoreInv, ScoreType
        <5> QED BY <5>1, <4>1, <4>3, <3>1, <1>o, <1>u DEF ScoreInv, ScoresFollowRanks
      <4>5. drawn[k] # drawn[v]
        <5>1. drawn[k] # 0 /\ drawn[v] # 0
          BY Zenon, <4>1, <3>1, <1>o, <1>u DEF KeyInv, OwnMembers
        <5> QED BY Zenon, <5>1, <3>1, <3>2 DEF ScoreInv, RanksAreDistinct
      <4> QED BY <4>4, <4>5, <1>x, <3>4
    <3> QED BY Zenon, <3>3, <3>4
  <2> HIDE DEF u
  <2>5. session'[x].user = u BY Zenon, <2>1, <2>2 DEF u
  <2> QED BY Zenon, <2>1, <2>2, <2>3, <2>4, <2>5
<1> QED BY <1>2, <1>3, <1>4, <1>5, <1>6, <1>7, <1>8 DEF ScoreInv

(* what every step does to the order of the sessions *)
KeepsOrder == ScoreInv' /\ EvictsInOrder /\ Drawn \subseteq Drawn'

LEMMA NothingDrawn ==
    ASSUME ScoreInv', drawn' = drawn
    PROVE  KeepsOrder
BY DEF KeepsOrder, EvictsInOrder, Drawn

LEMMA CreateSessionScores ==
    ASSUME Inv, ScoreInv, NEW r \in Requests, CreateSession(r)
    PROVE  KeepsOrder
<1>1. PICK s \in Sids \ Drawn, t \in Times :
        CreateIndexed(s, [user |-> req[r].user, perms |-> req[r].perms,
                          gen |-> 0, list |-> TRUE], t)
  BY DEF CreateSession
<1> DEFINE record == [user |-> req[r].user, perms |-> req[r].perms, gen |-> 0, list |-> TRUE]
<1>2. record \in Record
  BY DEF CreateSession, Inv, ReqInv, Holds, Record
<1>3. drawn[s] = 0 BY DEF Drawn
<1>4. KeyInv' BY Zenon, CreateSessionInv DEF Inv
<1>5. CreateIndexed(s, record, t) BY Zenon, <1>1
<1> HIDE DEF record
<1>6. ScoreInv' /\ EvictsInOrder BY Zenon, <1>2, <1>3, <1>4, <1>5, CreateScores DEF Inv
<1>7. drawn' = [drawn EXCEPT ![s] = Cardinality(Drawn) + 1]
  BY Zenon, <1>5 DEF CreateIndexed
<1>8. Drawn \subseteq Drawn' BY <1>7, <1>3 DEF Drawn, Inv, KeyInv, KeysType
<1> QED BY <1>6, <1>8 DEF KeepsOrder

(* the steps that compare and write the record of a session *)
LEMMA WriteScores ==
    ASSUME Inv, ScoreInv, NEW r \in Requests, Refresh(r) \/ UpdateRecord(r)
    PROVE  KeepsOrder
<1>1. CASE Refresh(r)
  <2>0. req[r].sid \in Sids /\ req[r].raw \in Record BY Zenon, <1>1 DEF Refresh, Inv, ReqInv, Holds
  <2>1. PICK t \in Times, result \in {"gone", "replaced", "ok"} :
          RefreshIndexed(req[r].sid, req[r].raw, req[r].raw, t, result)
    BY <1>1 DEF Refresh
  <2>2. /\ req[r].raw = [req[r].raw EXCEPT !.perms = req[r].raw.perms]
        /\ req[r].raw.perms \in PermSets
    BY <2>0, SMTT(30) DEF Record
  <2> QED BY <2>0, <2>1, <2>2, CompareSetScores, NothingDrawn DEF Inv
<1>2. CASE UpdateRecord(r)
  <2>0. req[r].sid \in Sids /\ req[r].raw \in Record /\ req[r].perms \in PermSets
    BY <1>2 DEF UpdateRecord, Inv, ReqInv, Holds
  <2>1. PICK t \in Times, result \in {"gone", "replaced", "ok"} :
          RefreshIndexed(req[r].sid, req[r].raw,
                         [req[r].raw EXCEPT !.perms = req[r].perms], t, result)
    BY <1>2 DEF UpdateRecord
  <2> QED BY <2>0, <2>1, CompareSetScores, NothingDrawn DEF Inv
<1> QED BY <1>1, <1>2

(* the steps that delete a session *)
LEMMA DeleteStepScores ==
    ASSUME Inv, ScoreInv, NEW r \in Requests,
           UndoLogin(r) \/ DropSession(r) \/ SignOut(r) \/ DeleteCorrupt(r)
    PROVE  KeepsOrder
<1>1. req[r].sid \in Sids
  BY Zenon DEF UndoLogin, DropSession, SignOut, DeleteCorrupt, Inv, ReqInv, Holds
<1>2. CASE DeleteIndexed(req[r].sid) BY <1>1, <1>2, DeleteScores, NothingDrawn DEF Inv
<1>3. CASE DeleteCorruptIndexed(req[r].sid, req[r].raw)
  BY <1>1, <1>3, CompareDeleteScores, NothingDrawn DEF Inv
<1> QED BY <1>2, <1>3, Zenon DEF UndoLogin, DropSession, SignOut, DeleteCorrupt

LEMMA StepScores ==
    ASSUME Inv, ScoreInv, NEW r \in Requests, Step(r)
    PROVE  KeepsOrder
<1>1. CASE UNCHANGED redis BY <1>1, SameScores, NothingDrawn DEF Inv
<1>2. CASE CreateSession(r) BY <1>2, CreateSessionScores
<1>3. CASE Refresh(r) \/ UpdateRecord(r) BY <1>3, WriteScores
<1>4. CASE UndoLogin(r) \/ DropSession(r) \/ SignOut(r) \/ DeleteCorrupt(r)
  BY <1>4, DeleteStepScores
<1>5. (\E u \in Users : SignIn(r, u)) => UNCHANGED redis BY Zenon DEF SignIn, redis
<1>6. (\E s \in Sids, kind \in {"use", "active", "me", "signout"} : Arrive(r, s, kind))
        => UNCHANGED redis
  BY Zenon DEF Arrive, redis
<1>7. AuditLogin(r) \/ ReadValidated(r) \/ Authorize(r) \/ ValidatedSession(r) \/ GetUser(r)
        => UNCHANGED redis
  BY Zenon DEF AuditLogin, ReadValidated, Authorize, ValidatedSession, GetUser, redis
<1> QED BY <1>1, <1>2, <1>3, <1>4, <1>5, <1>6, <1>7, Zenon DEF Step

LEMMA EnvironmentScores ==
    ASSUME Inv, ScoreInv, Environment
    PROVE  KeepsOrder
<1>1. ASSUME NEW s \in Sids, Age(s) PROVE KeepsOrder
  <2>1. /\ session' = session /\ index' = index /\ score' = score /\ drawn' = drawn
        /\ aged' = aged \cup {s} /\ Live(s)
    BY Zenon, <1>1 DEF Age
  <2>2. AgedIsLive' BY <2>1 DEF ScoreInv, AgedIsLive, Live
  <2>3. score' \in [Sids -> Nat] BY Zenon, <2>1 DEF ScoreInv, ScoreType
  <2>4. ScoreInv' BY <2>1, <2>2, <2>3, KeepsScores DEF Inv
  <2> QED BY <2>1, <2>4, NothingDrawn
<1>2. ASSUME NEW s \in Sids, Expire(s) PROVE KeepsOrder
  <2>1. /\ session' = [session EXCEPT ![s] = None] /\ index' = index /\ score' = score
        /\ drawn' = drawn /\ aged' = aged \ {s}
    BY Zenon, <1>2 DEF Expire
  <2>2. AgedIsLive' BY <2>1 DEF ScoreInv, AgedIsLive, Live, Inv, KeyInv, KeysType
  <2>3. score' \in [Sids -> Nat] BY Zenon, <2>1 DEF ScoreInv, ScoreType
  <2>4. ScoreInv' BY <2>1, <2>2, <2>3, KeepsScores DEF Inv
  <2> QED BY <2>1, <2>4, NothingDrawn
<1>3. ASSUME NEW u \in Users, ExpireIndex(u) PROVE KeepsOrder
  <2>1. /\ session' = session /\ index' = [index EXCEPT ![u] = {}]
        /\ score' = Scored(score, index[u] \ {}) /\ drawn' = drawn /\ aged' = aged
    BY Zenon, <1>3 DEF ExpireIndex
  <2>2. AgedIsLive' BY <2>1 DEF ScoreInv, AgedIsLive, Live
  <2>3. {} \in SUBSET index[u] OBVIOUS
  <2>4. ScoreInv' BY Zenon, <2>1, <2>2, <2>3, RemovalScores DEF Inv
  <2> QED BY Zenon, <2>1, <2>4, NothingDrawn
<1>4. ASSUME NEW u \in Users, ChangeAccount(u) PROVE KeepsOrder
  BY Zenon, <1>4, SameScores, NothingDrawn DEF ChangeAccount, Inv
<1> QED BY <1>1, <1>2, <1>3, <1>4, Zenon DEF Environment

LEMMA InitScores == Init => ScoreInv
<1> SUFFICES ASSUME Init PROVE ScoreInv OBVIOUS
<1>1. Drawn = {} BY Zenon DEF Init, Drawn
<1>2. RanksAreBounded BY <1>1, FS_EmptySet DEF Init, RanksAreBounded
<1> QED BY <1>2 DEF Init, ScoreInv, ScoreType, RanksAreDistinct, ScoresFollowRanks,
                   IndexesAreDisjoint, AgedIsLive

LEMMA NextScores == Inv /\ ScoreInv /\ [Next]_vars => ScoreInv' /\ [EvictsInOrder]_vars
<1> SUFFICES ASSUME Inv, ScoreInv, [Next]_vars PROVE ScoreInv' /\ [EvictsInOrder]_vars BY Zenon
<1>1. CASE Next
  BY <1>1, StepScores, EnvironmentScores DEF Next, KeepsOrder
<1>2. CASE UNCHANGED vars
  <2>1. UNCHANGED redis BY <1>2, Zenon DEF vars, redis
  <2> QED BY <1>2, <2>1, SameScores DEF Inv
<1> QED BY <1>1, <1>2

(***************************************************************************)
(* A login that evicts takes the oldest sessions of its own user and never *)
(* the one it has just created, whatever the clocks of the workers say.    *)
(***************************************************************************)
THEOREM OldestGoFirst == Spec => EvictsOldest
<1>1. Spec => []Inv BY InitInv, NextInv, PTL DEF Spec
<1>2. Spec => []ScoreInv BY <1>1, InitScores, NextScores, PTL DEF Spec
<1>3. [EvictsInOrder]_vars =>
        [\A s \in Sids \ Drawn : drawn'[s] # 0 =>
           /\ session'[s] # None
           /\ \A v \in Sids : Live(v) /\ session'[v] = None =>
                /\ session[v].user = session'[s].user
                /\ \A k \in Sids : session'[k] # None /\ session'[k].user = session[v].user
                                     => drawn[v] < drawn'[k]]_vars
  BY DEF EvictsInOrder
<1> QED BY <1>1, <1>2, <1>3, NextScores, PTL DEF Spec, EvictsOldest

-----------------------------------------------------------------------------
(***************************************************************************)
(* Requests again: what the kind of a request, its copy of the record and  *)
(* the cookie it hands out say about its next step.                        *)
(***************************************************************************)
Stage(q) ==
    /\ q.pc = "idle" => q.sid = None
    /\ q.pc \in {"load", "refresh"} => q.kind \in {"use", "active", "me", "signout"}
    /\ q.pc \in {"refresh", "user", "update"} => q.raw.list
    /\ q.pc = "authorize" => q.kind \in {"use", "active"}
    /\ q.pc \in {"validate", "user", "update"} => q.kind \in {"me", "signout"}
    /\ q.pc = "signout" => q.kind = "signout"

StageInv == \A r \in Requests : Stage(req[r])
AuditedIsDrawn == \A r \in Requests : req[r].pc = "audit" => req[r].sid \in Drawn
CookiesAreDrawn == cookies \subseteq Drawn

(* only a record without permissions is ever written as one that does not  *)
(* parse                                                                   *)
ListsSurvive == \A s \in Sids : Live(s) /\ session[s].perms # {} => session[s].list

RequestInv == StageInv /\ AuditedIsDrawn

LEMMA StageFrame ==
    ASSUME ReqInv, RequestInv, NEW r \in Requests, NEW q, Stage(q), q.pc # "audit",
           req' = [req EXCEPT ![r] = q], Drawn \subseteq Drawn'
    PROVE  RequestInv'
<1>1. \A p \in Requests : req'[p] = IF p = r THEN q ELSE req[p] BY Zenon DEF ReqInv
<1>2. StageInv'
  <2> SUFFICES ASSUME NEW p \in Requests PROVE Stage(req'[p]) BY Zenon DEF StageInv
  <2>1. CASE p = r BY Zenon, <1>1, <2>1
  <2>2. CASE p # r BY Zenon, <1>1, <2>2 DEF RequestInv, StageInv
  <2> QED BY Zenon, <2>1, <2>2
<1>3. AuditedIsDrawn' BY <1>1 DEF RequestInv, AuditedIsDrawn
<1> QED BY Zenon, <1>2, <1>3 DEF RequestInv

LEMMA AnswerStage ==
    ASSUME ReqInv, RequestInv, NEW r \in Requests, NEW a, Answer(r, a), Drawn \subseteq Drawn'
    PROVE  RequestInv'
<1> DEFINE q == [Idle EXCEPT !.answer = a]
<1>1. Stage(q) /\ q.pc # "audit" BY DEF Idle, Stage
<1> QED BY Zenon, <1>1, StageFrame DEF Answer

LEMMA GoStage ==
    ASSUME ReqInv, RequestInv, NEW r \in Requests, NEW pc, Go(r, pc),
           pc \in {"undo", "drop"} \/ (pc = "validate" /\ req[r].kind \in {"me", "signout"})
             \/ (pc = "signout" /\ req[r].kind = "signout"),
           Drawn \subseteq Drawn'
    PROVE  RequestInv'
<1> DEFINE q == [req[r] EXCEPT !.pc = pc]
<1>1. q.pc = pc /\ q.kind = req[r].kind BY DEF ReqInv, Frame
<1>2. Stage(q) /\ q.pc # "audit" BY Zenon, <1>1 DEF Stage
<1> QED BY Zenon, <1>2, StageFrame DEF Go

LEMMA UnauthenticatedStage ==
    ASSUME ReqInv, RequestInv, NEW r \in Requests, Unauthenticated(r), Drawn \subseteq Drawn'
    PROVE  RequestInv'
BY Zenon, AnswerStage, GoStage DEF Unauthenticated

LEMMA AnswerMeStage ==
    ASSUME ReqInv, RequestInv, NEW r \in Requests, NEW a, AnswerMe(r, a), Drawn \subseteq Drawn'
    PROVE  RequestInv'
BY Zenon, AnswerStage DEF AnswerMe

LEMMA ServedStage ==
    ASSUME ReqInv, RequestInv, NEW r \in Requests, Served(r), Drawn \subseteq Drawn'
    PROVE  RequestInv'
BY AnswerStage, GoStage DEF Served

LEMMA StepStage ==
    ASSUME Inv, RequestInv, NEW r \in Requests, Step(r), Drawn \subseteq Drawn', KeyInv'
    PROVE  RequestInv'
<1>f. ReqInv /\ req[r] \in Frame /\ req \in [Requests -> Frame] /\ Stage(req[r])
  BY Zenon DEF Inv, ReqInv, RequestInv, StageInv
<1>a. ASSUME NEW a, Answer(r, a) PROVE RequestInv' BY Zenon, <1>a, <1>f, AnswerStage
<1>1. ASSUME NEW u \in Users, SignIn(r, u) PROVE RequestInv'
  <2>1. CASE Answer(r, "401") BY <1>a, <2>1
  <2>2. CASE req' = [req EXCEPT ![r].pc = "create", ![r].kind = "login", ![r].user = u,
                                ![r].perms = account[u]]
    <3> DEFINE q == [req[r] EXCEPT !.pc = "create", !.kind = "login", !.user = u,
                                   !.perms = account[u]]
    <3>1. q.pc = "create" BY <1>f DEF Frame
    <3>2. Stage(q) BY <3>1 DEF Stage
    <3>3. req' = [req EXCEPT ![r] = q] BY Zenon, <2>2
    <3> QED BY Zenon, <3>1, <3>2, <3>3, <1>f, StageFrame
  <2> QED BY <1>1, <2>1, <2>2 DEF SignIn
<1>2. ASSUME CreateSession(r) PROVE RequestInv'
  <2>1. PICK s \in Sids \ Drawn, t \in Times :
          /\ CreateIndexed(s, [user |-> req[r].user, perms |-> req[r].perms,
                               gen |-> 0, list |-> TRUE], t)
          /\ req' = [req EXCEPT ![r].pc = "audit", ![r].sid = s]
    BY Zenon, <1>2 DEF CreateSession
  <2>2. s \in Drawn'
    <3>1. drawn' = [drawn EXCEPT ![s] = Cardinality(Drawn) + 1] BY Zenon, <2>1 DEF CreateIndexed
    <3>2. Cardinality(Drawn) \in Nat
      BY Zenon, AuthAssumption, FS_Subset, FS_CardinalityType DEF Drawn
    <3>3. drawn'[s] # 0 BY <3>1, <3>2 DEF Inv, KeyInv, KeysType
    <3> QED BY Zenon, <3>3 DEF Drawn
  <2>3. /\ req'[r].pc = "audit" /\ req'[r].sid = s
        /\ \A p \in Requests : p # r => req'[p] = req[p]
    BY Zenon, <2>1, <1>f DEF Frame
  <2>4. Stage(req'[r]) BY Zenon, <2>3 DEF Stage
  <2>5. StageInv' BY Zenon, <2>3, <2>4 DEF RequestInv, StageInv
  <2>6. AuditedIsDrawn' BY Zenon, <2>2, <2>3 DEF RequestInv, AuditedIsDrawn
  <2> QED BY <2>5, <2>6 DEF RequestInv
<1>3. ASSUME AuditLogin(r) PROVE RequestInv' BY Zenon, <1>3, <1>a, <1>f, GoStage DEF AuditLogin
<1>4. ASSUME UndoLogin(r) \/ DropSession(r) \/ SignOut(r) PROVE RequestInv'
  BY <1>4, <1>a DEF UndoLogin, DropSession, SignOut
<1>5. ASSUME NEW s \in Sids, NEW kind \in {"use", "active", "me", "signout"}, Arrive(r, s, kind)
      PROVE  RequestInv'
  <2> DEFINE q == [req[r] EXCEPT !.pc = "load", !.kind = kind, !.sid = s]
  <2>1. q.pc = "load" /\ q.kind = kind BY <1>f DEF Frame
  <2>2. Stage(q) BY <2>1 DEF Stage
  <2>3. req' = [req EXCEPT ![r] = q] BY Zenon, <1>5 DEF Arrive
  <2> QED BY Zenon, <2>1, <2>2, <2>3, <1>f, StageFrame
<1>6. ASSUME ReadValidated(r) PROVE RequestInv'
  <2>1. CASE Unauthenticated(r) BY <2>1, <1>f, UnauthenticatedStage
  <2>2. CASE Live(req[r].sid)
    <3> DEFINE raw == session[req[r].sid]
               pc == IF Valid(raw) THEN "refresh" ELSE "corrupt"
               q == [req[r] EXCEPT !.raw = raw, !.pc = pc]
    <3>1. req' = [req EXCEPT ![r] = q] BY Zenon, <1>6, <2>2 DEF ReadValidated
    <3>2. q.pc = pc /\ q.raw = raw /\ q.kind = req[r].kind BY Zenon, <1>f DEF Frame
    <3>3. (pc = "refresh" /\ raw.list) \/ pc = "corrupt" BY DEF Valid
    <3>4. req[r].kind \in {"use", "active", "me", "signout"}
      BY Zenon, <1>6, <1>f DEF ReadValidated, Stage
    <3> HIDE DEF q, pc, raw
    <3>5. Stage(q) BY Zenon, <3>2, <3>3, <3>4 DEF Stage
    <3>6. q.pc # "audit" BY Zenon, <3>2, <3>3
    <3> QED BY Zenon, <3>1, <3>5, <3>6, <1>f, StageFrame
  <2> QED BY Zenon, <1>6, <2>1, <2>2 DEF ReadValidated
<1>7. ASSUME DeleteCorrupt(r) PROVE RequestInv'
  BY Zenon, <1>7, <1>a, <1>f, AnswerMeStage DEF DeleteCorrupt
<1>8. ASSUME Refresh(r) PROVE RequestInv'
  <2>1. CASE Unauthenticated(r) BY <2>1, <1>f, UnauthenticatedStage
  <2>2. CASE Answer(r, "503") BY Zenon, <2>2, <1>a
  <2>k. req[r].kind \in {"use", "active", "me", "signout"} BY <1>8, <1>f DEF Refresh, Stage
  <2>3. CASE req' = [req EXCEPT ![r].pc = "load", ![r].tries = @ + 1, ![r].raw = None]
    <3> DEFINE q == [req[r] EXCEPT !.pc = "load", !.tries = req[r].tries + 1, !.raw = None]
    <3>1. q.pc = "load" /\ q.kind = req[r].kind BY <1>f DEF Frame
    <3>2. Stage(q) BY <3>1, <2>k DEF Stage
    <3>3. req' = [req EXCEPT ![r] = q] BY Zenon, <2>3
    <3> QED BY Zenon, <3>1, <3>2, <3>3, <1>f, StageFrame
  <2>4. CASE req' = [req EXCEPT
                       ![r].pc = IF req[r].kind \in {"me", "signout"} THEN "validate"
                                 ELSE "authorize",
                       ![r].user = req[r].raw.user, ![r].raw = None]
    <3> DEFINE pc == IF req[r].kind \in {"me", "signout"} THEN "validate" ELSE "authorize"
               q == [req[r] EXCEPT !.pc = pc, !.user = req[r].raw.user, !.raw = None]
    <3>1. q.pc = pc /\ q.kind = req[r].kind BY <1>f DEF Frame
    <3>2. Stage(q) BY <3>1, <2>k DEF Stage
    <3>3. req' = [req EXCEPT ![r] = q] BY Zenon, <2>4
    <3>4. q.pc # "audit" BY <3>1
    <3> HIDE DEF q
    <3> QED BY Zenon, <3>2, <3>3, <3>4, <1>f, StageFrame
  <2> QED BY ZenonT(30), <1>8, <2>1, <2>2, <2>3, <2>4 DEF Refresh
<1>9. ASSUME Authorize(r) PROVE RequestInv' BY Zenon, <1>9, <1>a, <1>f, GoStage DEF Authorize
<1>10. ASSUME ValidatedSession(r) PROVE RequestInv'
  <2>1. CASE AnswerMe(r, "401") BY ZenonT(30), <2>1, <1>f, AnswerMeStage
  <2>2. CASE Live(req[r].sid)
    <3> DEFINE raw == session[req[r].sid]
               pc == IF Valid(raw) THEN "user" ELSE "corruptMe"
               q == [req[r] EXCEPT !.raw = raw, !.user = raw.user, !.pc = pc]
    <3>1. req' = [req EXCEPT ![r] = q] BY Zenon, <1>10, <2>2 DEF ValidatedSession
    <3>2. q.pc = pc /\ q.raw = raw /\ q.kind = req[r].kind BY Zenon, <1>f DEF Frame
    <3>3. (pc = "user" /\ raw.list) \/ pc = "corruptMe" BY Zenon DEF Valid
    <3>4. req[r].kind \in {"me", "signout"} BY Zenon, <1>10, <1>f DEF ValidatedSession, Stage
    <3> HIDE DEF q, pc, raw
    <3>5. Stage(q) BY Zenon, <3>2, <3>3, <3>4 DEF Stage
    <3>6. q.pc # "audit" BY Zenon, <3>2, <3>3
    <3> QED BY Zenon, <3>1, <3>5, <3>6, <1>f, StageFrame
  <2> QED BY Zenon, <1>10, <2>1, <2>2 DEF ValidatedSession
<1>11. ASSUME GetUser(r) PROVE RequestInv'
  <2>1. CASE Go(r, "drop") BY <2>1, <1>f, GoStage
  <2>2. CASE Served(r) BY <2>2, <1>f, ServedStage
  <2>3. CASE req' = [req EXCEPT ![r].pc = "update", ![r].perms = account[req[r].user]]
    <3> DEFINE q == [req[r] EXCEPT !.pc = "update", !.perms = account[req[r].user]]
    <3>1. q.pc = "update" /\ q.raw = req[r].raw /\ q.kind = req[r].kind BY <1>f DEF Frame
    <3>2. Stage(q) BY <3>1, <1>11, <1>f DEF Stage, GetUser
    <3>3. req' = [req EXCEPT ![r] = q] BY Zenon, <2>3
    <3> QED BY Zenon, <3>1, <3>2, <3>3, <1>f, StageFrame
  <2> QED BY Zenon, <1>11, <2>1, <2>2, <2>3 DEF GetUser
<1>12. ASSUME UpdateRecord(r) PROVE RequestInv'
  BY <1>12, <1>f, AnswerMeStage, ServedStage DEF UpdateRecord
<1> QED BY <1>1, <1>2, <1>3, <1>4, <1>5, <1>6, <1>7, <1>8, <1>9, <1>10, <1>11, <1>12, Zenon
    DEF Step

(***************************************************************************)
(* A record that is written again: RefreshIndexed stores new, which keeps  *)
(* the user and still parses if there are permissions in it.               *)
(***************************************************************************)
Rewritten(record) == Reencoded([record EXCEPT !.gen = record.gen + 1])

LEMMA WrittenRecord ==
    ASSUME NEW raw \in Record, NEW perms \in PermSets, raw.list
    PROVE  LET new == Rewritten([raw EXCEPT !.perms = perms])
           IN  new \in Record /\ new.user = raw.user /\ new.perms = perms
               /\ (perms # {} => new.list)
<1> DEFINE mid == [raw EXCEPT !.perms = perms]
           next == [mid EXCEPT !.gen = mid.gen + 1]
           new == Reencoded(next)
<1>1. next \in Record /\ next.user = raw.user /\ next.perms = perms /\ next.list
  <2>1. mid \in Record /\ mid.user = raw.user /\ mid.perms = perms BY DEF Record
  <2>2. mid.list BY DEF Record
  <2>3. next = [mid EXCEPT !.gen = mid.gen + 1] OBVIOUS
  <2> HIDE DEF mid, next
  <2>4. next \in Record BY <2>1, <2>3 DEF Record
  <2>5. next.user = raw.user /\ next.perms = perms BY <2>1, <2>3 DEF Record
  <2>6. next.list BY <2>1, <2>2, <2>3 DEF Record
  <2> QED BY <2>4, <2>5, <2>6
<1> HIDE DEF next
<1>2. PICK b \in BOOLEAN : b = (next.list /\ next.perms # {}) BY Zenon
<1>3. Reencoded(next) = [next EXCEPT !.list = b] BY <1>2 DEF Reencoded
<1>4. new \in Record /\ new.user = raw.user /\ new.perms = perms /\ new.list = b
  BY <1>1, <1>3 DEF Record
<1>5. perms # {} => b = TRUE BY Zenon, <1>1, <1>2
<1> HIDE DEF new
<1>6. new \in Record /\ new.user = raw.user /\ new.perms = perms /\ (perms # {} => new.list)
  BY Zenon, <1>4, <1>5
<1> QED BY Zenon, <1>6 DEF new, next, Rewritten

LEMMA DeleteLists ==
    ASSUME KeyInv, ListsSurvive, NEW s \in Sids, DeleteIndexed(s)
    PROVE  ListsSurvive'
<1>1. session' = session \/ session' = [session EXCEPT ![s] = None]
  BY DEF DeleteIndexed, redis
<1> QED BY Zenon, <1>1 DEF ListsSurvive, Live, KeyInv, KeysType

LEMMA CompareSetLists ==
    ASSUME KeyInv, ListsSurvive, NEW s \in Sids, NEW raw \in Record, raw.list,
           NEW perms \in PermSets, NEW t \in Times, NEW result,
           RefreshIndexed(s, raw, [raw EXCEPT !.perms = perms], t, result)
    PROVE  ListsSurvive'
<1> DEFINE new == Rewritten([raw EXCEPT !.perms = perms])
<1>1. CASE UNCHANGED redis BY <1>1 DEF redis, ListsSurvive, Live
<1>2. CASE DeleteIndexed(s) BY <1>2, DeleteLists
<1>3. CASE session' = [session EXCEPT ![s] = new]
  <2>1. new.perms = perms /\ (perms # {} => new.list) BY WrittenRecord
  <2> HIDE DEF new
  <2> QED BY <1>3, <2>1, SMTT(30) DEF ListsSurvive, Live, KeyInv, KeysType
<1> QED BY <1>1, <1>2, <1>3 DEF RefreshIndexed, Rewritten

LEMMA StepLists ==
    ASSUME Inv, RequestInv, ListsSurvive, NEW r \in Requests, Step(r)
    PROVE  ListsSurvive'
<1>f. KeyInv /\ req[r] \in Frame /\ Holds(req[r]) /\ Stage(req[r])
  BY Zenon DEF Inv, ReqInv, RequestInv, StageInv
<1>1. CASE UNCHANGED redis BY Zenon, <1>1 DEF redis, ListsSurvive, Live
<1>2. CASE CreateSession(r)
  <2>1. PICK s \in Sids \ Drawn, t \in Times :
          CreateIndexed(s, [user |-> req[r].user, perms |-> req[r].perms,
                            gen |-> 0, list |-> TRUE], t)
    BY Zenon, <1>2 DEF CreateSession
  <2> DEFINE record == [user |-> req[r].user, perms |-> req[r].perms, gen |-> 0, list |-> TRUE]
  <2>2. \A x \in Sids : session'[x] \in {None, record, session[x]}
    <3>1. PICK gone : session' = [x \in Sids |-> IF x \in gone THEN None
                                                 ELSE IF x = s THEN record ELSE session[x]]
      BY <2>1, ZenonT(30) DEF CreateIndexed
    <3> HIDE DEF record
    <3> QED BY <3>1
  <2>3. record.list BY Zenon
  <2> HIDE DEF record
  <2> QED BY <2>2, <2>3 DEF ListsSurvive, Live
<1>3. CASE Refresh(r)
  <2>0. req[r].sid \in Sids /\ req[r].raw \in Record /\ req[r].raw.list
    BY Zenon, <1>3, <1>f DEF Refresh, Holds, Stage
  <2>1. PICK t \in Times, result \in {"gone", "replaced", "ok"} :
          RefreshIndexed(req[r].sid, req[r].raw, req[r].raw, t, result)
    BY <1>3 DEF Refresh
  <2>2. /\ req[r].raw = [req[r].raw EXCEPT !.perms = req[r].raw.perms]
        /\ req[r].raw.perms \in PermSets
    BY <2>0, SMTT(30) DEF Record
  <2> QED BY <2>0, <2>1, <2>2, <1>f, CompareSetLists
<1>4. CASE UpdateRecord(r)
  <2>0. /\ req[r].sid \in Sids /\ req[r].raw \in Record /\ req[r].raw.list
        /\ req[r].perms \in PermSets
    BY <1>4, <1>f DEF UpdateRecord, Holds, Stage
  <2>1. PICK t \in Times, result \in {"gone", "replaced", "ok"} :
          RefreshIndexed(req[r].sid, req[r].raw,
                         [req[r].raw EXCEPT !.perms = req[r].perms], t, result)
    BY Zenon, <1>4 DEF UpdateRecord
  <2> QED BY ZenonT(30), <2>0, <2>1, <1>f, CompareSetLists
<1>5. CASE UndoLogin(r) \/ DropSession(r) \/ SignOut(r) \/ DeleteCorrupt(r)
  <2>1. req[r].sid \in Sids
    BY Zenon, <1>5, <1>f DEF UndoLogin, DropSession, SignOut, DeleteCorrupt, Holds
  <2>2. DeleteIndexed(req[r].sid) \/ UNCHANGED redis
    BY <1>5, Zenon DEF UndoLogin, DropSession, SignOut, DeleteCorrupt, DeleteCorruptIndexed
  <2> QED BY <2>1, <2>2, <1>1, <1>f, DeleteLists
<1>6. (\E u \in Users : SignIn(r, u)) => UNCHANGED redis BY Zenon DEF SignIn, redis
<1>7. (\E s \in Sids, kind \in {"use", "active", "me", "signout"} : Arrive(r, s, kind))
        => UNCHANGED redis
  BY Zenon DEF Arrive, redis
<1>8. AuditLogin(r) \/ ReadValidated(r) \/ Authorize(r) \/ ValidatedSession(r) \/ GetUser(r)
        => UNCHANGED redis
  BY Zenon DEF AuditLogin, ReadValidated, Authorize, ValidatedSession, GetUser, redis
<1> QED BY <1>1, <1>2, <1>3, <1>4, <1>5, <1>6, <1>7, <1>8, Zenon DEF Step

LEMMA EnvironmentLists ==
    ASSUME Inv, ListsSurvive, Environment
    PROVE  ListsSurvive'
<1>1. \A s \in Sids : session'[s] \in {None, session[s]}
  BY DEF Environment, Age, Expire, ExpireIndex, ChangeAccount, redis, Inv, KeyInv, KeysType
<1> QED BY Zenon, <1>1 DEF ListsSurvive, Live

(***************************************************************************)
(* TypeOK: what remains is the cookies, which are handed out at the end of *)
(* a login, and the history variable calm.                                 *)
(***************************************************************************)
Inv2 == Inv /\ ScoreInv /\ RequestInv /\ ListsSurvive /\ CookiesAreDrawn /\ calm \subseteq Requests

LEMMA InitInv2 == Init => Inv2
<1> SUFFICES ASSUME Init PROVE Inv2 OBVIOUS
<1>1. Inv /\ ScoreInv BY Zenon, InitInv, InitScores
<1>2. \A r \in Requests : req[r] = Idle BY Zenon DEF Init
<1>3. RequestInv BY <1>2 DEF Idle, RequestInv, StageInv, Stage, AuditedIsDrawn
<1>4. ListsSurvive /\ CookiesAreDrawn /\ calm \subseteq Requests
  BY DEF Init, ListsSurvive, CookiesAreDrawn, Live
<1> QED BY <1>1, <1>3, <1>4 DEF Inv2

LEMMA NextInv2 == Inv2 /\ [Next]_vars => Inv2'
<1> SUFFICES ASSUME Inv2, [Next]_vars PROVE Inv2' OBVIOUS
<1>1. Inv' BY NextInv DEF Inv2
<1>2. ScoreInv' BY Zenon, NextScores DEF Inv2
<1>3. ASSUME NEW r \in Requests, Step(r), Watch(r) PROVE Inv2'
  <2>1. Drawn \subseteq Drawn' BY Zenon, <1>3, StepScores DEF Inv2, KeepsOrder
  <2>2. RequestInv' BY Zenon, <1>1, <1>3, <2>1, StepStage DEF Inv2, Inv
  <2>3. ListsSurvive' BY Zenon, <1>3, StepLists DEF Inv2
  <2>4. cookies' = cookies \/ (req[r].pc = "audit" /\ cookies' = cookies \cup {req[r].sid})
    BY <1>3, Zenon DEF Step, SignIn, CreateSession, AuditLogin, UndoLogin, Arrive, ReadValidated,
       DeleteCorrupt, Refresh, Authorize, DropSession, ValidatedSession, GetUser, UpdateRecord,
       SignOut
  <2>5. CookiesAreDrawn'
    BY <2>1, <2>4 DEF Inv2, RequestInv, AuditedIsDrawn, CookiesAreDrawn
  <2>6. calm' \subseteq Requests BY Zenon, <1>3 DEF Watch
  <2> QED BY ZenonT(30), <1>1, <1>2, <2>2, <2>3, <2>5, <2>6 DEF Inv2
<1>4. ASSUME Environment, Watch(None) PROVE Inv2'
  <2>1. Drawn \subseteq Drawn' BY <1>4, EnvironmentScores DEF Inv2, KeepsOrder
  <2>2. req' = req /\ cookies' = cookies
    BY <1>4, Zenon DEF Environment, Age, Expire, ExpireIndex, ChangeAccount
  <2>3. RequestInv' BY <2>1, <2>2 DEF Inv2, RequestInv, StageInv, AuditedIsDrawn
  <2>4. ListsSurvive' BY <1>4, EnvironmentLists DEF Inv2
  <2>5. CookiesAreDrawn' BY Zenon, <2>1, <2>2 DEF Inv2, CookiesAreDrawn
  <2>6. calm' \subseteq Requests BY Zenon, <1>4 DEF Watch
  <2> QED BY ZenonT(30), <1>1, <1>2, <2>3, <2>4, <2>5, <2>6 DEF Inv2
<1>5. CASE UNCHANGED vars
  <2>1. RequestInv' BY Zenon, <1>5 DEF vars, Inv2, RequestInv, StageInv, AuditedIsDrawn, Drawn
  <2>2. ListsSurvive' BY Zenon, <1>5 DEF vars, Inv2, ListsSurvive, Live
  <2>3. CookiesAreDrawn' /\ calm' \subseteq Requests
    BY <1>5 DEF vars, Inv2, CookiesAreDrawn, Drawn
  <2> QED BY Zenon, <1>1, <1>2, <2>1, <2>2, <2>3 DEF Inv2
<1> QED BY <1>3, <1>4, <1>5, Zenon DEF Next

(***************************************************************************)
(* The keys keep their types, only live sessions age, and a browser only   *)
(* gets the id of a session that was created.                              *)
(***************************************************************************)
THEOREM KeysAreTyped == Spec => []TypeOK
<1>1. Spec => []Inv2 BY InitInv2, NextInv2, PTL DEF Spec
<1>2. Inv2 => TypeOK
  BY DEF Inv2, Inv, KeyInv, KeysType, ScoreInv, ScoreType, AgedIsLive, CookiesAreDrawn, TypeOK
<1> QED BY <1>1, <1>2, PTL

-----------------------------------------------------------------------------
(***************************************************************************)
(* A request nothing interferes with.  Whatever it has read is still what  *)
(* Redis and the database hold, so its compare-and-set steps succeed.      *)
(***************************************************************************)
Calmly(r) ==
    LET q == req[r]
    IN  /\ q.sid \in Sids /\ Clear(q.sid)
        /\ q.pc \in {"load", "refresh", "authorize", "validate", "user", "update", "signout"}
        /\ q.pc \in {"refresh", "user", "update"} => q.raw = session[q.sid]
        /\ q.pc \in {"authorize", "user", "update"} => q.user = session[q.sid].user
        /\ q.pc = "update" => q.perms = account[q.user]

CalmInv == \A r \in calm : Calmly(r)

Serves(r) ==
    /\ req'[r].pc = "idle"
    /\ req'[r].answer \in IF req[r].kind = "signout" THEN {"200", "500"} ELSE {"200"}

LEMMA AnswerServes ==
    ASSUME ReqInv, NEW r \in Requests, NEW a, Answer(r, a),
           a = "200" \/ (a = "500" /\ req[r].kind = "signout")
    PROVE  Serves(r)
<1>1. req'[r] = [Idle EXCEPT !.answer = a] BY Zenon DEF Answer, ReqInv
<1> QED BY <1>1 DEF Idle, Serves

LEMMA ClearRecord ==
    ASSUME KeyInv, NEW s \in Sids, Clear(s)
    PROVE  /\ session[s] \in Record /\ session[s].user \in Users /\ session[s].perms # {}
           /\ account[session[s].user] \in PermSets /\ account[session[s].user] # {}
           /\ Live(s) /\ s \notin aged /\ session[s] # None
<1>1. session[s] \in Record /\ session[s] # None BY Zenon DEF Clear, Live, KeyInv, KeysType
<1>2. session[s].user \in Users BY Zenon, <1>1 DEF Record
<1> QED BY Zenon, <1>1, <1>2 DEF Clear, KeyInv, KeysType

(* one that only reads leaves the record as it is *)
LEMMA ReadsCalmly ==
    ASSUME NEW s \in Sids, Clear(s), UNCHANGED redis, account' = account
    PROVE  Clear(s)' /\ session'[s] = session[s]
BY DEF Clear, Live, redis

(* one that writes finds the version it compares with *)
LEMMA WritesCalmly ==
    ASSUME KeyInv, NEW s \in Sids, Clear(s), session[s].list, account' = account,
           NEW perms \in PermSets, perms # {},
           NEW t \in Times, NEW result \in {"gone", "replaced", "ok"},
           RefreshIndexed(s, session[s], [session[s] EXCEPT !.perms = perms], t, result)
    PROVE  Clear(s)' /\ result = "ok" /\ session'[s].user = session[s].user
<1> DEFINE raw == session[s]
           new == Rewritten([raw EXCEPT !.perms = perms])
<1>1. raw \in Record /\ Live(s) /\ s \notin aged BY ClearRecord
<1>2. session' = [session EXCEPT ![s] = new] /\ aged' = aged /\ result = "ok"
  BY <1>1 DEF RefreshIndexed, Rewritten
<1>3. new \in Record /\ new.user = raw.user /\ new.perms = perms BY <1>1, WrittenRecord
<1> HIDE DEF new
<1>4. session'[s] = new BY <1>2 DEF KeyInv, KeysType
<1>5. new # None BY Zenon, <1>3, AuthAssumption
<1> QED BY ZenonT(30), <1>1, <1>2, <1>3, <1>4, <1>5 DEF Clear, Live

LEMMA ServedCalmly ==
    ASSUME ReqInv, NEW r \in Requests, Served(r), NEW s \in Sids, s = req[r].sid, Clear(s)'
    PROVE  Serves(r) \/ Calmly(r)'
<1>1. CASE Answer(r, "200") BY Zenon, <1>1, AnswerServes
<1>2. CASE Go(r, "signout")
  <2>1. req'[r].pc = "signout" /\ req'[r].sid = req[r].sid BY Zenon, <1>2 DEF Go, ReqInv, Frame
  <2> QED BY <2>1 DEF Calmly
<1> QED BY Zenon, <1>1, <1>2 DEF Served

LEMMA RefreshCalmly ==
    ASSUME Inv2, NEW r \in Requests, Calmly(r), Refresh(r)
    PROVE  Calmly(r)'
<1>s. PICK s \in Sids : s = req[r].sid BY Zenon DEF Calmly
<1> DEFINE raw == session[s]
<1>f. /\ KeyInv /\ req[r] \in Frame /\ req \in [Requests -> Frame] /\ Stage(req[r])
      /\ account' = account
  BY Zenon DEF Inv2, Inv, ReqInv, RequestInv, StageInv, Refresh
<1>1. Clear(s) /\ req[r].raw = raw BY <1>s DEF Calmly, Refresh
<1>2. raw \in Record /\ raw.perms # {} /\ raw.perms \in PermSets
  BY Zenon, <1>1, <1>f, ClearRecord DEF Record
<1>3. raw.list BY <1>1, <1>f DEF Stage, Refresh
<1>4. PICK t \in Times, result \in {"gone", "replaced", "ok"} :
        /\ RefreshIndexed(s, raw, raw, t, result)
        /\ \/ result = "gone"
           \/ result = "replaced"
           \/ result = "ok" /\ ~Valid(Reencoded(raw))
           \/ /\ result = "ok"
              /\ req' = [req EXCEPT
                           ![r].pc = IF req[r].kind \in {"me", "signout"} THEN "validate"
                                     ELSE "authorize",
                           ![r].user = req[r].raw.user, ![r].raw = None]
  BY <1>s, <1>1, Zenon DEF Refresh
<1>5. raw = [raw EXCEPT !.perms = raw.perms] BY Zenon, <1>2 DEF Record
<1>6. Clear(s)' /\ result = "ok" /\ session'[s].user = raw.user
  BY <1>1, <1>2, <1>3, <1>4, <1>5, <1>f, WritesCalmly
<1>7. Valid(Reencoded(raw))
  <2>1. Reencoded(raw).list BY ZenonT(30), <1>2, <1>3 DEF Reencoded, Record
  <2> QED BY <2>1 DEF Valid
<1>8. /\ req'[r].sid = s /\ req'[r].user = raw.user
      /\ req'[r].pc \in {"validate", "authorize"}
  BY <1>s, <1>1, <1>4, <1>6, <1>7, <1>f DEF Frame
<1> HIDE DEF raw
<1> QED BY Zenon, <1>1, <1>6, <1>8 DEF Calmly

LEMMA UpdateCalmly ==
    ASSUME Inv2, NEW r \in Requests, Calmly(r), UpdateRecord(r)
    PROVE  Serves(r) \/ Calmly(r)'
<1>s. PICK s \in Sids : s = req[r].sid BY DEF Calmly
<1> DEFINE raw == session[s]
<1>f. /\ KeyInv /\ ReqInv /\ Stage(req[r]) /\ account' = account
  BY Zenon DEF Inv2, Inv, ReqInv, RequestInv, StageInv, UpdateRecord
<1>1. /\ Clear(s) /\ req[r].raw = raw /\ req[r].user = raw.user
      /\ req[r].perms = account[raw.user]
  BY Zenon, <1>s DEF Calmly, UpdateRecord
<1>2. raw \in Record /\ req[r].perms # {} /\ req[r].perms \in PermSets
  BY <1>1, <1>f, ClearRecord
<1>3. raw.list BY <1>1, <1>f, Zenon DEF Stage, UpdateRecord
<1>4. PICK t \in Times, result \in {"gone", "replaced", "ok"} :
        /\ RefreshIndexed(s, raw, [raw EXCEPT !.perms = req[r].perms], t, result)
        /\ result = "ok" => Served(r)
  BY ZenonT(30), <1>s, <1>1 DEF UpdateRecord
<1>5. Clear(s)' /\ result = "ok"
  BY ZenonT(30), <1>1, <1>2, <1>3, <1>4, <1>f, WritesCalmly
<1> QED BY ZenonT(30), <1>s, <1>4, <1>5, <1>f, ServedCalmly

LEMMA StepCalmly ==
    ASSUME Inv2, NEW r \in Requests, Calmly(r), Step(r)
    PROVE  Serves(r) \/ Calmly(r)'
<1>s. PICK s \in Sids : s = req[r].sid BY DEF Calmly
<1> DEFINE raw == session[s]
<1>f. /\ KeyInv /\ ReqInv /\ req[r] \in Frame /\ req \in [Requests -> Frame] /\ Stage(req[r])
  BY Zenon DEF Inv2, Inv, ReqInv, RequestInv, StageInv
<1>c. Clear(s) BY Zenon, <1>s DEF Calmly
<1>l. /\ raw \in Record /\ Live(s) /\ raw.perms # {}
      /\ account[raw.user] # None /\ account[raw.user] # {}
  BY Zenon, <1>c, <1>f, ClearRecord, AuthAssumption
<1>v. Valid(raw) BY Zenon, <1>c, <1>l DEF Inv2, ListsSurvive, Valid
<1>1. ASSUME ReadValidated(r) PROVE Calmly(r)'
  <2>1. req' = [req EXCEPT ![r].raw = raw, ![r].pc = "refresh"]
    BY ZenonT(30), <1>s, <1>1, <1>l, <1>v DEF ReadValidated
  <2>2. UNCHANGED redis /\ account' = account BY Zenon, <1>1 DEF ReadValidated
  <2>3. Clear(s)' /\ session'[s] = raw BY <2>2, <1>c, ReadsCalmly
  <2>4. req'[r].pc = "refresh" /\ req'[r].sid = s /\ req'[r].raw = raw
    BY Zenon, <1>s, <2>1, <1>f DEF Frame
  <2> HIDE DEF raw
  <2> QED BY Zenon, <1>c, <2>3, <2>4 DEF Calmly
<1>2. ASSUME Authorize(r) PROVE Serves(r)
  <2>1. req[r].user = raw.user BY Zenon, <1>s, <1>2 DEF Authorize, Calmly
  <2>2. Answer(r, "200") BY <1>2, <1>l, <2>1 DEF Authorize
  <2> QED BY Zenon, <2>2, <1>f, AnswerServes
<1>3. ASSUME ValidatedSession(r) PROVE Calmly(r)'
  <2>1. req' = [req EXCEPT ![r].raw = raw, ![r].user = raw.user, ![r].pc = "user"]
    BY Zenon, <1>s, <1>3, <1>l, <1>v DEF ValidatedSession
  <2>2. UNCHANGED redis /\ account' = account BY Zenon, <1>3 DEF ValidatedSession
  <2>3. Clear(s)' /\ session'[s] = raw BY <2>2, <1>c, ReadsCalmly
  <2>4. req'[r].pc = "user" /\ req'[r].sid = s /\ req'[r].raw = raw /\ req'[r].user = raw.user
    BY Zenon, <1>s, <2>1, <1>f DEF Frame
  <2> HIDE DEF raw
  <2> QED BY Zenon, <1>c, <2>3, <2>4 DEF Calmly
<1>4. ASSUME GetUser(r) PROVE Serves(r) \/ Calmly(r)'
  <2>1. req[r].user = raw.user /\ req[r].raw = raw BY <1>s, <1>4 DEF GetUser, Calmly
  <2>2. UNCHANGED redis /\ account' = account BY Zenon, <1>4 DEF GetUser
  <2>3. Clear(s)' /\ session'[s] = raw BY <2>2, <1>c, ReadsCalmly
  <2>4. CASE Served(r) BY ZenonT(30), <2>3, <2>4, <1>s, <1>f, ServedCalmly
  <2>5. CASE req' = [req EXCEPT ![r].pc = "update", ![r].perms = account[raw.user]]
    <3>1. /\ req'[r].pc = "update" /\ req'[r].sid = s /\ req'[r].raw = raw
          /\ req'[r].user = raw.user /\ req'[r].perms = account[raw.user]
      BY Zenon, <1>s, <2>1, <2>5, <1>f DEF Frame
    <3> HIDE DEF raw
    <3> QED BY Zenon, <3>1, <2>2, <2>3, <1>c DEF Calmly
  <2> QED BY ZenonT(30), <1>4, <1>l, <2>1, <2>4, <2>5 DEF GetUser
<1>5. ASSUME SignOut(r) PROVE Serves(r)
  <2>1. req[r].kind = "signout" BY <1>5, <1>f, SMTT(30) DEF SignOut, Stage
  <2> QED BY Zenon, <1>5, <2>1, <1>f, AnswerServes DEF SignOut
<1>6. /\ \A u \in Users : ~SignIn(r, u)
      /\ \A x \in Sids, kind \in {"use", "active", "me", "signout"} : ~Arrive(r, x, kind)
      /\ ~CreateSession(r) /\ ~AuditLogin(r) /\ ~UndoLogin(r) /\ ~DeleteCorrupt(r)
      /\ ~DropSession(r)
  BY Zenon DEF Calmly, SignIn, Arrive, CreateSession, AuditLogin, UndoLogin, DeleteCorrupt, DropSession
<1> QED BY <1>1, <1>2, <1>3, <1>4, <1>5, <1>6, RefreshCalmly, UpdateCalmly, ZenonT(30) DEF Step

(* a step of one request leaves the others where they are *)
LEMMA OthersWait ==
    ASSUME ReqInv, NEW r \in Requests, Step(r)
    PROVE  \A q \in Requests : q # r => req'[q] = req[q]
<1>f. req \in [Requests -> Frame] BY DEF ReqInv
<1>1. ASSUME NEW u \in Users, SignIn(r, u) PROVE \A q \in Requests : q # r => req'[q] = req[q]
  BY <1>1, <1>f DEF SignIn, Answer
<1>2. ASSUME NEW s \in Sids, NEW kind, Arrive(r, s, kind)
      PROVE  \A q \in Requests : q # r => req'[q] = req[q]
  BY <1>2, <1>f DEF Arrive
<1>3. ASSUME CreateSession(r) \/ AuditLogin(r)
      PROVE  \A q \in Requests : q # r => req'[q] = req[q]
  BY Zenon, <1>3, <1>f DEF CreateSession, AuditLogin, Go, Answer
<1>4. ASSUME UndoLogin(r) \/ DropSession(r) \/ SignOut(r) \/ DeleteCorrupt(r)
      PROVE  \A q \in Requests : q # r => req'[q] = req[q]
  BY <1>4, <1>f DEF UndoLogin, DropSession, SignOut, DeleteCorrupt, Answer, AnswerMe
<1>5. ASSUME ReadValidated(r) PROVE \A q \in Requests : q # r => req'[q] = req[q]
  BY Zenon, <1>5, <1>f DEF ReadValidated, Unauthenticated, Go, Answer
<1>6. ASSUME Refresh(r) PROVE \A q \in Requests : q # r => req'[q] = req[q]
  BY <1>6, <1>f DEF Refresh, Unauthenticated, Go, Answer
<1>7. ASSUME Authorize(r) PROVE \A q \in Requests : q # r => req'[q] = req[q]
  BY Zenon, <1>7, <1>f DEF Authorize, Go, Answer
<1>8. ASSUME ValidatedSession(r) PROVE \A q \in Requests : q # r => req'[q] = req[q]
  BY Zenon, <1>8, <1>f DEF ValidatedSession, AnswerMe, Answer
<1>9. ASSUME GetUser(r) \/ UpdateRecord(r) PROVE \A q \in Requests : q # r => req'[q] = req[q]
  BY <1>9, <1>f DEF GetUser, UpdateRecord, Served, AnswerMe, Go, Answer
<1> QED BY <1>1, <1>2, <1>3, <1>4, <1>5, <1>6, <1>7, <1>8, <1>9, Zenon DEF Step

(* a calm request that waits while others move stays calm *)
LEMMA WaitsCalmly ==
    ASSUME NEW q \in Requests, Calmly(q), req'[q] = req[q], account' = account,
           session'[req[q].sid] = session[req[q].sid],
           req[q].sid \in aged' <=> req[q].sid \in aged
    PROVE  Calmly(q)'
<1>1. PICK s \in Sids : s = req[q].sid BY Zenon DEF Calmly
<1>2. Clear(s) BY Zenon, <1>1 DEF Calmly
<1>3. Clear(s)' BY Zenon, <1>1, <1>2 DEF Clear, Live
<1>4. req'[q].sid = s BY <1>1
<1> QED BY Zenon, <1>1, <1>3, <1>4 DEF Calmly

(* a login that goes on to create_session *)
LoggingIn(f, user, perms) == [f EXCEPT !.pc = "create", !.kind = "login", !.user = user, !.perms = perms]

(* it keeps the cookie it came with *)
LEMMA SameSid ==
    ASSUME NEW f \in Frame, NEW user, NEW perms
    PROVE  LoggingIn(f, user, perms).sid = f.sid
BY DEF Frame, LoggingIn

(* what ServedWhenAlone says of one step *)
ServesTheCalm ==
    \A r \in calm : req'[r].pc = "idle" =>
      req'[r].answer \in IF req[r].kind = "signout" THEN {"200", "500"} ELSE {"200"}

LEMMA StepServes ==
    ASSUME Inv2, CalmInv, NEW r \in Requests, Step(r), Watch(r)
    PROVE  CalmInv' /\ ServesTheCalm
<1>o. \A q \in Requests : q # r => req'[q] = req[q] BY OthersWait DEF Inv2, Inv
<1>c. calm \subseteq Requests BY Zenon DEF Inv2
<1>s. r \in calm => Serves(r) \/ Calmly(r)' BY Zenon, StepCalmly DEF CalmInv
<1>1. CalmInv'
  <2> SUFFICES ASSUME NEW q \in calm' PROVE Calmly(q)' BY Zenon DEF CalmInv
  <2>w. /\ q \in Requests
        /\ IF q = r /\ req[q].pc = "idle"
           THEN req'[q].sid # None /\ Clear(req'[q].sid)
           ELSE /\ q \in calm /\ req'[q].pc # "idle"
                /\ \/ q = r
                   \/ /\ account' = account
                      /\ session'[req[q].sid] = session[req[q].sid]
                      /\ req[q].sid \in aged' <=> req[q].sid \in aged
    BY Zenon DEF Watch
  <2>1. CASE q # r BY Zenon, <2>1, <2>w, <1>o, WaitsCalmly DEF CalmInv
  <2>2. CASE q = r /\ req[r].pc # "idle" BY <2>2, <2>w, <1>s DEF Serves
  <2>3. CASE q = r /\ req[r].pc = "idle"
    <3>f. req[r] \in Frame /\ req \in [Requests -> Frame] /\ Stage(req[r])
      BY Zenon DEF Inv2, Inv, ReqInv, RequestInv, StageInv
    <3>1. ASSUME NEW u \in Users, SignIn(r, u) PROVE FALSE
      <4>1. req'[r].sid = None
        <5>1. req[r].sid = None BY <2>3, <3>f, Zenon DEF Stage
        <5>2. CASE Answer(r, "401") BY <3>f, <5>2 DEF Answer, Idle
        <5>3. CASE req' = [req EXCEPT ![r].pc = "create", ![r].kind = "login", ![r].user = u,
                                      ![r].perms = account[u]]
          <6>1. req'[r] = LoggingIn(req[r], u, account[u])
            BY <3>f, <5>3, Zenon DEF LoggingIn
          <6>2. LoggingIn(req[r], u, account[u]).sid = req[r].sid
            BY <3>f, SameSid, Zenon
          <6> QED BY <5>1, <6>1, <6>2, Zenon
        <5> QED BY <3>1, <5>2, <5>3, Zenon DEF SignIn
      <4> QED BY <4>1, <2>3, <2>w
    <3>2. ASSUME NEW s \in Sids, NEW kind \in {"use", "active", "me", "signout"},
                 Arrive(r, s, kind)
          PROVE  Calmly(r)'
      <4>1. req'[r].sid = s /\ req'[r].pc = "load" BY Zenon, <3>2, <3>f DEF Arrive, Frame
      <4>2. Clear(s) BY <4>1, <2>3, <2>w
      <4>3. UNCHANGED redis /\ account' = account BY Zenon, <3>2 DEF Arrive
      <4>4. Clear(s)' BY <4>2, <4>3, ReadsCalmly
      <4> QED BY <4>1, <4>4 DEF Calmly
    <3>3. ~(\/ CreateSession(r) \/ AuditLogin(r) \/ UndoLogin(r) \/ ReadValidated(r)
            \/ DeleteCorrupt(r) \/ Refresh(r) \/ Authorize(r) \/ DropSession(r)
            \/ ValidatedSession(r) \/ GetUser(r) \/ UpdateRecord(r) \/ SignOut(r))
      BY Zenon, <2>3 DEF CreateSession, AuditLogin, UndoLogin, ReadValidated, DeleteCorrupt, Refresh,
         Authorize, DropSession, ValidatedSession, GetUser, UpdateRecord, SignOut
    <3> QED BY <2>3, <3>1, <3>2, <3>3, Zenon DEF Step
  <2> QED BY <2>1, <2>2, <2>3
<1>2. ServesTheCalm
  <2> SUFFICES ASSUME NEW q \in calm, req'[q].pc = "idle"
               PROVE  req'[q].answer \in IF req[q].kind = "signout" THEN {"200", "500"}
                                         ELSE {"200"}
    BY Zenon DEF ServesTheCalm
  <2>1. CASE q = r BY Zenon, <2>1, <1>s DEF Serves, Calmly
  <2>2. CASE q # r BY <2>2, <1>o, <1>c DEF CalmInv, Calmly
  <2> QED BY Zenon, <2>1, <2>2
<1> QED BY Zenon, <1>1, <1>2

LEMMA EnvironmentServes ==
    ASSUME Inv2, CalmInv, Environment, Watch(None)
    PROVE  CalmInv' /\ ServesTheCalm
<1>1. req' = req BY Zenon DEF Environment, Age, Expire, ExpireIndex, ChangeAccount
<1>2. \A q \in Requests : q # None BY Zenon, AuthAssumption
<1>3. CalmInv'
  <2> SUFFICES ASSUME NEW q \in calm' PROVE Calmly(q)' BY Zenon DEF CalmInv
  <2>1. /\ q \in Requests /\ q \in calm /\ account' = account
        /\ session'[req[q].sid] = session[req[q].sid]
        /\ req[q].sid \in aged' <=> req[q].sid \in aged
    BY Zenon, <1>2 DEF Watch
  <2> QED BY <1>1, <2>1, WaitsCalmly DEF CalmInv
<1>4. ServesTheCalm BY <1>1 DEF ServesTheCalm, CalmInv, Calmly
<1> QED BY <1>3, <1>4

(***************************************************************************)
(* A request with a live session of a user whose role has permissions is   *)
(* served as long as nothing else touches that session, user or role.      *)
(***************************************************************************)
THEOREM CalmAreServed == Spec => ServedWhenAlone
<1>1. Spec => []Inv2 BY InitInv2, NextInv2, PTL DEF Spec
<1>2. Init => CalmInv BY DEF Init, CalmInv
<1>3. Inv2 /\ CalmInv /\ [Next]_vars => CalmInv' /\ [ServesTheCalm]_vars
  <2> SUFFICES ASSUME Inv2, CalmInv, [Next]_vars PROVE CalmInv' /\ [ServesTheCalm]_vars
    OBVIOUS
  <2>1. CASE Next BY <2>1, StepServes, EnvironmentServes, Zenon DEF Next
  <2>2. CASE UNCHANGED vars
    <3>1. CalmInv' BY Zenon, <2>2 DEF vars, CalmInv, Calmly, Clear, Live
    <3> QED BY Zenon, <2>2, <3>1
  <2> QED BY <2>1, <2>2
<1>4. [ServesTheCalm]_vars =>
        [\A r \in calm : req'[r].pc = "idle" =>
           req'[r].answer \in IF req[r].kind = "signout" THEN {"200", "500"}
                              ELSE {"200"}]_vars
  BY DEF ServesTheCalm
<1> QED BY <1>1, <1>2, <1>3, <1>4, PTL DEF Spec, ServedWhenAlone
=============================================================================
