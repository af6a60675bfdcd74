----------------------------- MODULE AuthSessions -----------------------------
(***************************************************************************)
(* Authentication sessions in Redis (repositories/session_repository.py,   *)
(* services/auth_service.py, core/security.py, core/session_record.py,     *)
(* api/dependencies/permissions.py).  A session has a record, a reverse    *)
(* owner key, and a member in the sorted set of its user, whose scores     *)
(* decide who is evicted when the user signs in too often.  Each Lua       *)
(* script is one step; a request runs several of them, with reads of the   *)
(* platform database in between.                                           *)
(*                                                                         *)
(* Record, owner key, index and sequence key get the same TTL whenever a   *)
(* record is written, so record and owner expire together and an index     *)
(* outlives the records of its members.  A record is told from its earlier *)
(* versions by its generation.                                             *)
(***************************************************************************)
EXTENDS Naturals, FiniteSets

CONSTANTS
    Users,
    Sids,           \* session ids, each drawn once by os.urandom
    Requests,
    PermSets,       \* permission lists a role may have
    Times,          \* scores that the clocks of the workers may propose
    MaxSessions,    \* MAX_CONCURRENT_SESSIONS_PER_USER, 0: no limit
    MaxGen,         \* bound on the generation of a record
    None

Retries == 2        \* attempts of _load_session

Record == [user : Users, perms : PermSets, gen : Nat, list : BOOLEAN]

ASSUME AuthAssumption ==
    /\ MaxSessions \in Nat /\ MaxGen \in Nat
    /\ Times \subseteq Nat
    /\ IsFiniteSet(Sids)
    /\ None \notin Users \cup Sids \cup Requests \cup PermSets \cup Record

VARIABLES
    session,    \* session:<id>, or None
    owner,      \* session_owner:<id>, or None
    index,      \* members of user_sessions:<user>, {} if the key is absent
    score,      \* their scores
    sequence,   \* users whose user_sessions_seq:<user> exists
    aged,       \* sessions idle for longer than their TTL
    account,    \* permissions of the user's role, None once the user is deleted
    cookies,    \* session ids handed out to browsers
    req,        \* the requests
    drawn,      \* history: session ids in the order of their creation
    calm        \* history: requests nothing has interfered with

redis == <<session, owner, index, score, sequence, aged, drawn>>
vars == <<session, owner, index, score, sequence, aged, account, cookies, req,
          drawn, calm>>

Idle == [pc |-> "idle", kind |-> "none", sid |-> None, user |-> None,
         raw |-> None, perms |-> {}, tries |-> 0, answer |-> "none"]

Init ==
    /\ session = [s \in Sids |-> None]
    /\ owner = [s \in Sids |-> None]
    /\ index = [u \in Users |-> {}]
    /\ score = [s \in Sids |-> 0]
    /\ sequence = {}
    /\ aged = {}
    /\ account \in [Users -> PermSets]
    /\ cookies = {}
    /\ req = [r \in Requests |-> Idle]
    /\ drawn = [s \in Sids |-> 0]
    /\ calm = {}

-----------------------------------------------------------------------------
(* Redis scripts *)

Live(s) == session[s] # None
Stale(u) == {m \in index[u] : ~Live(m)}
Drawn == {s \in Sids : drawn[s] # 0}

(* parse_session_record: permissions must be a JSON array *)
Valid(raw) == raw.list

(* cjson.encode(cjson.decode(raw)): Lua has one empty table, and writes it  *)
(* as an object                                                             *)
Reencoded(raw) == [raw EXCEPT !.list = raw.list /\ raw.perms # {}]

(* ZREM forgets the scores of the members it removes *)
Scored(scores, removed) == [x \in Sids |-> IF x \in removed THEN 0 ELSE scores[x]]

Highest(S) == IF S = {} THEN 0
              ELSE CHOOSE n \in {score[m] : m \in S} : \A m \in S : score[m] <= n

(* mutant of NewScore *)
ScoreByClock(S, t) == t

(* floor(created_at * scale) + sequence, raised above every other score *)
NewScore(S, t) == IF t <= Highest(S) THEN Highest(S) + 1 ELSE t

(* mutant of Capacity *)
CapacityPlusOne(n) == IF MaxSessions > 0 /\ n > MaxSessions + 1 THEN MaxSessions + 1 ELSE n

(* the loop that evicts while ZCARD > max_sessions *)
Capacity(n) == IF MaxSessions > 0 /\ n > MaxSessions THEN MaxSessions ELSE n

(* _CREATE_INDEXED_SESSION_LUA *)
CreateIndexed(s, record, t) ==
    LET u == record.user
        members == (index[u] \ Stale(u)) \cup {s}
        rank == [score EXCEPT ![s] = NewScore(index[u] \ Stale(u), t)]
    IN  /\ \E kept \in SUBSET members :
             /\ Cardinality(kept) = Capacity(Cardinality(members))
             /\ \A k \in kept, v \in members \ kept : rank[v] < rank[k]
             /\ score' = Scored(rank, (index[u] \cup {s}) \ kept)
             /\ index' = [index EXCEPT ![u] = kept]
             /\ session' = [x \in Sids |-> IF x \in members \ kept THEN None
                                           ELSE IF x = s THEN record ELSE session[x]]
             /\ owner' = [x \in Sids |-> IF x \in Stale(u) \/ x \in members \ kept
                                         THEN None
                                         ELSE IF x = s THEN u ELSE owner[x]]
             /\ aged' = aged \ (members \ kept)
        /\ sequence' = sequence \cup {u}
        /\ drawn' = [drawn EXCEPT ![s] = Cardinality(Drawn) + 1]

(* mutant of DeleteIndexed *)
DeleteKeepsSequence(s) ==
    LET u == IF owner[s] # None THEN owner[s] ELSE session[s].user
        rest == (index[u] \ Stale(u)) \ {s}
    IN  IF ~Live(s) /\ owner[s] = None THEN UNCHANGED redis
        ELSE /\ session' = [session EXCEPT ![s] = None]
             /\ owner' = [x \in Sids |-> IF x = s \/ x \in Stale(u) THEN None
                                         ELSE owner[x]]
             /\ index' = [index EXCEPT ![u] = rest]
             /\ score' = Scored(score, index[u] \ rest)
             /\ aged' = aged \ {s}
             /\ UNCHANGED <<sequence, drawn>>

(* _DELETE_INDEXED_SESSION_LUA *)
DeleteIndexed(s) ==
    LET u == IF owner[s] # None THEN owner[s] ELSE session[s].user
        rest == (index[u] \ Stale(u)) \ {s}
    IN  IF ~Live(s) /\ owner[s] = None THEN UNCHANGED redis
        ELSE /\ session' = [session EXCEPT ![s] = None]
             /\ owner' = [x \in Sids |-> IF x = s \/ x \in Stale(u) THEN None
                                         ELSE owner[x]]
             /\ index' = [index EXCEPT ![u] = rest]
             /\ score' = Scored(score, index[u] \ rest)
             /\ sequence' = IF rest = {} THEN sequence \ {u} ELSE sequence
             /\ aged' = aged \ {s}
             /\ UNCHANGED drawn

(* _DELETE_CORRUPT_INDEXED_SESSION_LUA: compare, then delete *)
DeleteCorruptIndexed(s, raw) ==
    IF session[s] = raw THEN DeleteIndexed(s) ELSE UNCHANGED redis

(* mutant of RefreshIndexed *)
RefreshRecreates(s, raw, record, t, result) ==
    LET u == record.user
    IN  IF (session[s] = raw /\ s \notin aged) \/ (~Live(s) /\ index[u] = {})
        THEN /\ result = "ok"
             /\ session' = [session EXCEPT ![s] = Reencoded([record EXCEPT !.gen = record.gen + 1])]
             /\ owner' = [owner EXCEPT ![s] = u]
             /\ index' = [index EXCEPT ![u] = @ \cup {s}]
             /\ sequence' = sequence \cup {u}
             /\ UNCHANGED <<score, aged, drawn>>
        ELSE result = "gone" /\ UNCHANGED redis

(* _REFRESH_INDEXED_SESSION_LUA: compare with raw, then write record (raw   *)
(* itself, or the record that replaces it)                                  *)
RefreshIndexed(s, raw, record, t, result) ==
    LET u == record.user
        new == Reencoded([record EXCEPT !.gen = record.gen + 1])
    IN  \/ ~Live(s) /\ result = "gone" /\ UNCHANGED redis
        \/ Live(s) /\ session[s] # raw /\ result = "replaced" /\ UNCHANGED redis
        \/ /\ session[s] = raw /\ s \in aged
           /\ result = "gone"
           /\ DeleteIndexed(s)
        \/ /\ session[s] = raw /\ s \notin aged
           /\ result = "ok"
           /\ session' = [session EXCEPT ![s] = new]
           /\ owner' = [owner EXCEPT ![s] = u]
           /\ index' = [index EXCEPT ![u] = @ \cup {s}]
           /\ score' = IF s \in index[u] THEN score
                       ELSE [score EXCEPT ![s] = NewScore(index[u], t)]
           /\ sequence' = sequence \cup {u}
           /\ UNCHANGED <<aged, drawn>>

-----------------------------------------------------------------------------
(* Requests *)

Go(r, pc) == req' = [req EXCEPT ![r].pc = pc]

Answer(r, a) == req' = [req EXCEPT ![r] = [Idle EXCEPT !.answer = a]]

(* POST /auth/sign-out turns every refusal of get_me into 401 *)
AnswerMe(r, a) ==
    Answer(r, IF req[r].kind = "signout" THEN "401" ELSE a)

(* the middleware found no session *)
Unauthenticated(r) ==
    IF req[r].kind \in {"me", "signout"} THEN Go(r, "validate") ELSE Answer(r, "401")

(* AuthService.sign_in up to the creation of the session; a wrong password *)
(* or an account that may not use it is audited and refused                *)
SignIn(r, u) ==
    /\ req[r].pc = "idle"
    /\ Drawn # Sids
    /\ \/ /\ account[u] # None
          /\ req' = [req EXCEPT ![r].pc = "create", ![r].kind = "login", ![r].user = u,
                                ![r].perms = account[u]]
       \/ Answer(r, "401")
    /\ UNCHANGED <<redis, account, cookies>>

(* mutant of CreateSession *)
CreateForgetsId(r) ==
    /\ req[r].pc = "create"
    /\ \E s \in Sids \ Drawn, t \in Times :
         CreateIndexed(s, [user |-> req[r].user, perms |-> req[r].perms,
                           gen |-> 0, list |-> TRUE], t)
    /\ Go(r, "audit")
    /\ UNCHANGED <<account, cookies>>

CreateSession(r) ==
    /\ req[r].pc = "create"
    /\ \E s \in Sids \ Drawn, t \in Times :
         /\ CreateIndexed(s, [user |-> req[r].user, perms |-> req[r].perms,
                              gen |-> 0, list |-> TRUE], t)
         /\ req' = [req EXCEPT ![r].pc = "audit", ![r].sid = s]
    /\ UNCHANGED <<account, cookies>>

(* the login is audited and committed, then the cookie is set *)
AuditLogin(r) ==
    /\ req[r].pc = "audit"
    /\ \/ /\ Answer(r, "200")
          /\ cookies' = cookies \cup {req[r].sid}
       \/ Go(r, "undo") /\ UNCHANGED cookies
    /\ UNCHANGED <<redis, account>>

(* the audit failed: sign_out(session_id), raise *)
UndoLogin(r) ==
    /\ req[r].pc = "undo"
    /\ DeleteIndexed(req[r].sid)
    /\ Answer(r, "500")
    /\ UNCHANGED <<account, cookies>>

(* a request with a cookie: a guarded endpoint ("use"), one that requires  *)
(* an active user ("active"), GET /auth/me, POST /auth/sign-out            *)
Arrive(r, s, kind) ==
    /\ req[r].pc = "idle"
    /\ s \in cookies
    /\ Live(s) => session[s].gen < MaxGen
    /\ req' = [req EXCEPT ![r].pc = "load", ![r].kind = kind, ![r].sid = s]
    /\ UNCHANGED <<redis, account, cookies>>

(* SessionMiddleware._read_validated_session *)
ReadValidated(r) ==
    /\ req[r].pc = "load"
    /\ IF ~Live(req[r].sid) THEN Unauthenticated(r)
       ELSE req' = [req EXCEPT ![r].raw = session[req[r].sid],
                               ![r].pc = IF Valid(session[req[r].sid]) THEN "refresh"
                                         ELSE "corrupt"]
    /\ UNCHANGED <<redis, account, cookies>>

DeleteCorrupt(r) ==
    /\ req[r].pc \in {"corrupt", "corruptMe"}
    /\ DeleteCorruptIndexed(req[r].sid, req[r].raw)
    /\ IF req[r].pc = "corrupt" THEN Answer(r, "503") ELSE AnswerMe(r, "503")
    /\ UNCHANGED <<account, cookies>>

(* SessionMiddleware._load_session: refresh, try once more if replaced *)
Refresh(r) ==
    /\ req[r].pc = "refresh"
    /\ \E t \in Times, result \in {"gone", "replaced", "ok"} :
         /\ RefreshIndexed(req[r].sid, req[r].raw, req[r].raw, t, result)
         /\ \/ result = "gone" /\ Unauthenticated(r)
            \/ /\ result = "replaced" /\ req[r].tries + 1 < Retries
               /\ req' = [req EXCEPT ![r].pc = "load", ![r].tries = @ + 1, ![r].raw = None]
            \/ result = "replaced" /\ req[r].tries + 1 = Retries /\ Answer(r, "503")
            \/ result = "ok" /\ ~Valid(Reencoded(req[r].raw)) /\ Answer(r, "503")
            \/ /\ result = "ok" /\ Valid(Reencoded(req[r].raw))
               /\ req' = [req EXCEPT
                            ![r].pc = IF req[r].kind \in {"me", "signout"} THEN "validate"
                                      ELSE "authorize",
                            ![r].user = req[r].raw.user, ![r].raw = None]
    /\ UNCHANGED <<account, cookies>>

(* require_permission decides by the role in the database;                 *)
(* require_active_user drops the session of a deleted user                 *)
Authorize(r) ==
    /\ req[r].pc = "authorize"
    /\ IF req[r].kind = "use"
       THEN Answer(r, IF account[req[r].user] \in {None, {}} THEN "403" ELSE "200")
       ELSE IF account[req[r].user] = None THEN Go(r, "drop") ELSE Answer(r, "200")
    /\ UNCHANGED <<redis, account, cookies>>

DropSession(r) ==
    /\ req[r].pc = "drop"
    /\ DeleteIndexed(req[r].sid)
    /\ Answer(r, "401")
    /\ UNCHANGED <<account, cookies>>

(* mutant of ValidatedSession *)
ValidatedByMiddleware(r) ==
    /\ req[r].pc = "validate"
    /\ IF ~Live(req[r].sid) THEN AnswerMe(r, "401")
       ELSE req' = [req EXCEPT ![r].pc = "user", ![r].user = session[req[r].sid].user,
                               ![r].raw = [session[req[r].sid] EXCEPT
                                             !.gen = IF @ = 0 THEN 0 ELSE @ - 1]]
    /\ UNCHANGED <<redis, account, cookies>>

(* AuthService._validated_session *)
ValidatedSession(r) ==
    /\ req[r].pc = "validate"
    /\ IF ~Live(req[r].sid) THEN AnswerMe(r, "401")
       ELSE req' = [req EXCEPT ![r].raw = session[req[r].sid],
                               ![r].user = session[req[r].sid].user,
                               ![r].pc = IF Valid(session[req[r].sid]) THEN "user"
                                         ELSE "corruptMe"]
    /\ UNCHANGED <<redis, account, cookies>>

Served(r) == IF req[r].kind = "signout" THEN Go(r, "signout") ELSE Answer(r, "200")

(* AuthService.get_me reads the user and its role *)
GetUser(r) ==
    /\ req[r].pc = "user"
    /\ LET perms == account[req[r].user]
       IN  IF perms = None THEN Go(r, "drop")
           ELSE IF perms = req[r].raw.perms THEN Served(r)
           ELSE req' = [req EXCEPT ![r].pc = "update", ![r].perms = perms]
    /\ UNCHANGED <<redis, account, cookies>>

(* and stores changed permissions in the record *)
UpdateRecord(r) ==
    /\ req[r].pc = "update"
    /\ LET record == [req[r].raw EXCEPT !.perms = req[r].perms]
       IN  \E t \in Times, result \in {"gone", "replaced", "ok"} :
             /\ RefreshIndexed(req[r].sid, req[r].raw, record, t, result)
             /\ IF result # "ok" THEN AnswerMe(r, "401") ELSE Served(r)
    /\ UNCHANGED <<account, cookies>>

(* AuthService.sign_out; an audit that fails does not bring the session back *)
SignOut(r) ==
    /\ req[r].pc = "signout"
    /\ DeleteIndexed(req[r].sid)
    /\ Answer(r, "200") \/ Answer(r, "500")
    /\ UNCHANGED <<account, cookies>>

-----------------------------------------------------------------------------
(* Environment *)

(* the idle timeout passes *)
Age(s) ==
    /\ Live(s) /\ s \notin aged
    /\ aged' = aged \cup {s}
    /\ UNCHANGED <<session, owner, index, score, sequence, drawn, account, cookies, req>>

(* Redis drops record and owner key *)
Expire(s) ==
    /\ Live(s) /\ s \in aged
    /\ session' = [session EXCEPT ![s] = None]
    /\ owner' = [owner EXCEPT ![s] = None]
    /\ aged' = aged \ {s}
    /\ UNCHANGED <<index, score, sequence, drawn, account, cookies, req>>

(* Redis drops an index that no record has renewed *)
ExpireIndex(u) ==
    /\ index[u] # {} /\ Stale(u) = index[u]
    /\ index' = [index EXCEPT ![u] = {}]
    /\ score' = Scored(score, index[u])
    /\ sequence' = sequence \ {u}
    /\ UNCHANGED <<session, owner, aged, drawn, account, cookies, req>>

(* an administrator changes the user's role, or the user is deleted *)
ChangeAccount(u) ==
    /\ account[u] # None
    /\ \E perms \in PermSets \cup {None} : account' = [account EXCEPT ![u] = perms]
    /\ UNCHANGED <<redis, cookies, req>>

-----------------------------------------------------------------------------

Step(r) ==
    \/ \E u \in Users : SignIn(r, u)
    \/ CreateSession(r) \/ AuditLogin(r) \/ UndoLogin(r)
    \/ \E s \in Sids, kind \in {"use", "active", "me", "signout"} : Arrive(r, s, kind)
    \/ ReadValidated(r) \/ DeleteCorrupt(r) \/ Refresh(r)
    \/ Authorize(r) \/ DropSession(r)
    \/ ValidatedSession(r) \/ GetUser(r) \/ UpdateRecord(r) \/ SignOut(r)

Environment ==
    \/ \E s \in Sids : Age(s) \/ Expire(s)
    \/ \E u \in Users : ExpireIndex(u) \/ ChangeAccount(u)

(* whether nothing stands in the way of a request that starts with s *)
Clear(s) ==
    /\ Live(s) /\ s \notin aged
    /\ session[s].perms # {} /\ account[session[s].user] \notin {None, {}}

(* the requests nobody but who has disturbed *)
Watch(who) ==
    calm' = {q \in Requests :
               IF q = who /\ req[q].pc = "idle"
               THEN req'[q].sid # None /\ Clear(req'[q].sid)
               ELSE /\ q \in calm /\ req'[q].pc # "idle"
                    /\ \/ q = who
                       \/ /\ account' = account
                          /\ LET s == req[q].sid
                             IN  session'[s] = session[s] /\ (s \in aged' <=> s \in aged)}

Next ==
    \/ \E r \in Requests : Step(r) /\ Watch(r)
    \/ Environment /\ Watch(None)

Spec == Init /\ [][Next]_vars
-----------------------------------------------------------------------------
(* Properties *)

(* The keys hold what the scripts assume of each other. *)
TypeOK ==
    /\ session \in [Sids -> Record \cup {None}]
    /\ owner \in [Sids -> Users \cup {None}]
    /\ index \in [Users -> SUBSET Sids]
    /\ score \in [Sids -> Nat]
    /\ sequence \subseteq Users
    /\ aged \subseteq {s \in Sids : Live(s)}
    /\ account \in [Users -> PermSets \cup {None}]
    /\ cookies \subseteq Drawn
    /\ drawn \in [Sids -> Nat]
    /\ calm \subseteq Requests

(* Every live record has its owner key and is in the index of its user, an *)
(* index holds sessions of its own user only, and a sequence key exists    *)
(* exactly as long as the index: the error replies of the scripts          *)
(* (session-user-mismatch) and the repair of missing members never happen. *)
IndexConsistent ==
    /\ \A s \in Sids : Live(s) => owner[s] = session[s].user /\ s \in index[session[s].user]
    /\ \A s \in Sids : ~Live(s) => owner[s] = None
    /\ \A u \in Users : \A s \in index[u] : Live(s) => session[s].user = u
    /\ \A u \in Users : u \in sequence <=> index[u] # {}

(* A user never has more live sessions than the limit, whatever the order  *)
(* of logins, refreshes, expiries and sign-outs (FR-127).                  *)
SessionLimit ==
    MaxSessions > 0 =>
      \A u \in Users :
        Cardinality({s \in Sids : Live(s) /\ session[s].user = u}) <= MaxSessions

(* A session that was signed out, evicted, dropped or that expired is never *)
(* live again, also when a request that read it earlier refreshes it.       *)
NoResurrection ==
    [][\A s \in Drawn : ~Live(s) => session'[s] = None]_vars

(* When a login evicts, it evicts the oldest sessions of that user, even if *)
(* the clocks of the workers disagree; the new session stays.               *)
EvictsOldest ==
    [][\A s \in Sids \ Drawn : drawn'[s] # 0 =>
         /\ session'[s] # None
         /\ \A v \in Sids : Live(v) /\ session'[v] = None =>
              /\ session[v].user = session'[s].user
              /\ \A k \in Sids : session'[k] # None /\ session'[k].user = session[v].user
                                   => drawn[v] < drawn'[k]]_vars

(* A request with a live session of an existing user whose role has         *)
(* permissions is served when nothing else touches that session, that user  *)
(* or its role: the compare-and-set steps of one request do not trip over   *)
(* each other.                                                              *)
ServedWhenAlone ==
    [][\A r \in calm : req'[r].pc = "idle" =>
         req'[r].answer \in IF req[r].kind = "signout" THEN {"200", "500"}
                            ELSE {"200"}]_vars

(* api/dependencies/permissions.py: "403: Session exists but lacks required *)
(* permission(s)".  A guarded endpoint answers 403 to a user whose role has *)
(* no permission; it is not unavailable (503) while no other request runs.  *)
NoPermissionIsForbidden ==
    [][\A r \in Requests :
         /\ req[r].kind = "use" /\ req'[r].pc = "idle"
         /\ \A q \in Requests \ {r} : req[q].pc = "idle"
         => req'[r].answer # "503"]_vars

(* Records, owner keys and indexes agree, and no user has more live sessions than the limit: the
   limit is enforced by the scripts through the index. *)
KeysAreSound == IndexConsistent /\ SessionLimit
=============================================================================
