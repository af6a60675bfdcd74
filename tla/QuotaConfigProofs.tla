-------------------------- MODULE QuotaConfigProofs --------------------------
(***************************************************************************)
(* The transition protocol of QuotaConfig for any number of admin requests *)
(* and checks.  Three concurrent requests, which TLC explores, never run   *)
(* the reconciliation loop to its end; here the loop is shown to end       *)
(* without leaving a marker however many requests compete.                 *)
(***************************************************************************)
EXTENDS QuotaConfig, TLAPS

Held == {"own", "claim", "again", "apply", "republish"}
Loop == {"own", "claim", "again"}

(* Who holds the role, and that it knows the committed row. *)
Locking ==
    \A a \in Admins :
        /\ rowLock = a <=> admin[a].pc \in Held
        /\ admin[a].pc \in Held \ {"republish"} => role
        /\ admin[a].pc \in Held => admin[a].seen = db

(* A marker is raised once, by one request. *)
Marks ==
    /\ \A a \in Admins : /\ admin[a].mark <= revision
                         /\ admin[a].created => admin[a].mark # 0
                         /\ admin[a].pc = "begin" => ~admin[a].created
                         /\ admin[a].pc \in {"lock"} \cup Loop => admin[a].mark # 0
    /\ \A a, b \in Admins :
        admin[a].created /\ admin[b].created /\ admin[a].mark = admin[b].mark => a = b

(* A change is made, and published, under the request's own marker. *)
OwnMarker ==
    \A a \in Admins :
        /\ admin[a].pc = "apply" => admin[a].created /\ marker = admin[a].mark
        /\ admin[a].pc = "publish" =>
            admin[a].created /\ (marker = admin[a].mark /\ role => db = Wanted[a])
        /\ admin[a].pc \in {"relock", "republish"} => admin[a].created

(* The reconciliation loop.  Once the request has raised or met a marker   *)
(* while it holds the role, requests that are about to publish have older  *)
(* markers.  So the marker can vanish under it only twice.                 *)
Reconciling ==
    \A a \in Admins : admin[a].pc \in Loop =>
        /\ admin[a].tries <= 2
        /\ admin[a].pc = "claim" => ~admin[a].created /\ marker # admin[a].mark
        /\ admin[a].pc = "again" => /\ admin[a].created => marker # admin[a].mark
                                    /\ admin[a].tries <= 1
        /\ admin[a].tries >= 1 =>
            /\ marker = 0 \/ marker >= admin[a].mark
            /\ \A b \in Admins :
                admin[b].pc = "publish" => admin[b].mark <= admin[a].mark
            /\ admin[a].pc = "own" /\ admin[a].created => marker = admin[a].mark
            /\ admin[a].pc = "again" =>
                \A b \in Admins : admin[b].pc = "publish" => admin[b].mark # marker
        /\ admin[a].pc = "own" /\ admin[a].tries = 2 =>
            /\ marker = admin[a].mark
            /\ \A b \in Admins : admin[b].pc = "publish" => admin[b].mark # marker

(* The loop starts from the first try. *)
Fresh == \A a \in Admins : admin[a].pc \in {"begin", "lock"} => admin[a].tries = 0

AdminType ==
    admin \in [Admins -> [pc : AdminStates, mark : Nat, created : BOOLEAN,
                          seen : Values, tries : Nat]]
Numbers == revision \in Nat /\ marker \in {0, revision} /\ db \in Values

AdminInv ==
    /\ AdminType /\ Numbers /\ Fresh
    /\ Locking /\ Marks /\ OwnMarker /\ Reconciling /\ MarkerHasOwner

-----------------------------------------------------------------------------
LEMMA InitInv == Init => AdminInv
PROOF
  <1> SUFFICES ASSUME Init PROVE AdminInv
    OBVIOUS
  <1> USE QuotaAssumption DEF Init
  <1>1. AdminType
    BY DEF AdminType, AdminStates, Values
  <1>2. Numbers /\ Fresh /\ MarkerHasOwner
    BY DEF Numbers, Fresh, MarkerHasOwner
  <1>3. Locking /\ Marks /\ OwnMarker /\ Reconciling
    BY DEF Locking, Marks, OwnMarker, Reconciling, Held, Loop
  <1> QED
    BY <1>1, <1>2, <1>3 DEF AdminInv

(* A marker raised now is newer than all others; one met is left alone. *)
LEMMA BeginTransitionInv ==
    ASSUME AdminInv, NEW a \in Admins, BeginTransition(a)
    PROVE  AdminInv'
PROOF
  <1>1. Numbers'
    BY QuotaAssumption DEF AdminInv, Numbers, BeginTransition, BeginScript,
       redis
  <1>2. AdminType'
    <2>1. marker' \in Nat /\ "lock" \in AdminStates
      BY <1>1 DEF Numbers, AdminStates
    <2>2. PICK c \in BOOLEAN :
            admin' = [admin EXCEPT ![a].pc = "lock", ![a].mark = marker',
                                   ![a].created = c]
      BY Zenon DEF BeginTransition
    <2> QED
      BY <2>1, <2>2, ZenonT(60) DEF AdminInv, AdminType
  <1>3. Fresh'
    BY DEF AdminInv, Fresh, AdminType, BeginTransition, BeginScript, redis
  <1>4. Locking'
    BY QuotaAssumption DEF AdminInv, Locking, AdminType, Numbers, Held,
       AdminStates, Over, BeginTransition, BeginScript, redis
  <1>5. Marks'
    BY DEF AdminInv, Marks, AdminType, Numbers, Locking, Held, Loop,
       BeginTransition, BeginScript, redis
  <1>6. OwnMarker'
    BY QuotaAssumption DEF AdminInv, OwnMarker, AdminType, Numbers, Marks,
       Locking, Held, Reconciling, Loop, BeginTransition, BeginScript, redis
  <1>7. Reconciling'
    BY DEF AdminInv, Reconciling, AdminType, Numbers, Locking, Held, Loop,
       Marks, OwnMarker, BeginTransition, BeginScript, redis
  <1>8. MarkerHasOwner'
    BY QuotaAssumption DEF AdminInv, MarkerHasOwner, AdminType, Numbers,
       Marks, OwnMarker, Reconciling, Locking, Held, Loop, Over,
       BeginTransition, BeginScript, redis
  <1> QED
    BY <1>1, <1>2, <1>3, <1>4, <1>5, <1>6, <1>7, <1>8 DEF AdminInv

(* Nobody else holds the role, and the row is read under it. *)
LEMMA LockedRoleInv ==
    ASSUME AdminInv, NEW a \in Admins, LockedRole(a)
    PROVE  AdminInv'
PROOF
  <1>1. Numbers'
    BY QuotaAssumption DEF AdminInv, Numbers, LockedRole, redis
  <1>2. AdminType'
    <2>1. db \in Values /\ "own" \in AdminStates
      BY DEF AdminInv, Numbers, AdminStates
    <2> QED
      BY <2>1, ZenonT(30) DEF AdminInv, AdminType, LockedRole
  <1>3. Fresh'
    BY DEF AdminInv, Fresh, AdminType, LockedRole, redis
  <1>4. Locking'
    BY QuotaAssumption DEF AdminInv, Locking, AdminType, Numbers, Held,
       AdminStates, Over, LockedRole, redis
  <1>5. Marks'
    BY DEF AdminInv, Marks, AdminType, Numbers, Locking, Held, Loop,
       LockedRole, redis
  <1>6. OwnMarker'
    BY QuotaAssumption DEF AdminInv, OwnMarker, AdminType, Numbers, Marks,
       Locking, Held, Reconciling, Loop, LockedRole, redis
  <1>7. Reconciling'
    BY DEF AdminInv, Reconciling, AdminType, Numbers, Locking, Held, Loop,
       Marks, OwnMarker, LockedRole, redis, Fresh
  <1>8. MarkerHasOwner'
    BY QuotaAssumption DEF AdminInv, MarkerHasOwner, AdminType, Numbers,
       Marks, OwnMarker, Reconciling, Locking, Held, Loop, Over, LockedRole,
       redis
  <1> QED
    BY <1>1, <1>2, <1>3, <1>4, <1>5, <1>6, <1>7, <1>8 DEF AdminInv

(* Only a marker this request or another one raised comes down. *)
LEMMA RoleNotFoundInv ==
    ASSUME AdminInv, NEW a \in Admins, RoleNotFound(a)
    PROVE  AdminInv'
PROOF
  <1>1. Numbers'
    BY QuotaAssumption DEF AdminInv, Numbers, RoleNotFound, PublishScript,
       AdminGoes, redis
  <1>2. AdminType'
    BY <1>1 DEF AdminInv, AdminType, Numbers, AdminStates, Over,
       RoleNotFound, PublishScript, AdminGoes, redis
  <1>3. Fresh'
    BY DEF AdminInv, Fresh, AdminType, RoleNotFound, PublishScript,
       AdminGoes, redis
  <1>4. Locking'
    BY QuotaAssumption DEF AdminInv, Locking, AdminType, Numbers, Held,
       AdminStates, Over, RoleNotFound, PublishScript, AdminGoes, redis
  <1>5. Marks'
    BY DEF AdminInv, Marks, AdminType, Numbers, Locking, Held, Loop,
       RoleNotFound, PublishScript, AdminGoes, redis
  <1>6. OwnMarker'
    BY QuotaAssumption DEF AdminInv, OwnMarker, AdminType, Numbers, Marks,
       Locking, Held, Reconciling, Loop, RoleNotFound, PublishScript,
       AdminGoes, redis
  <1>7. Reconciling'
    BY DEF AdminInv, Reconciling, AdminType, Numbers, Locking, Held, Loop,
       Marks, OwnMarker, RoleNotFound, PublishScript, AdminGoes, redis
  <1>8. MarkerHasOwner'
    BY QuotaAssumption DEF AdminInv, MarkerHasOwner, AdminType, Numbers,
       Marks, OwnMarker, Reconciling, Locking, Held, Loop, Over,
       RoleNotFound, PublishScript, AdminGoes, redis
  <1> QED
    BY <1>1, <1>2, <1>3, <1>4, <1>5, <1>6, <1>7, <1>8 DEF AdminInv

(* The marker is still there, or another request took it down. *)
LEMMA OwnsTransitionInv ==
    ASSUME AdminInv, NEW a \in Admins, OwnsTransition(a)
    PROVE  AdminInv'
PROOF
  <1>1. Numbers'
    BY QuotaAssumption DEF AdminInv, Numbers, OwnsTransition, AdminGoes,
       redis
  <1>2. AdminType'
    BY <1>1 DEF AdminInv, AdminType, Numbers, AdminStates, Over,
       OwnsTransition, AdminGoes, redis
  <1>3. Fresh'
    BY DEF AdminInv, Fresh, AdminType, OwnsTransition, AdminGoes, redis
  <1>4. Locking'
    BY QuotaAssumption DEF AdminInv, Locking, AdminType, Numbers, Held,
       AdminStates, Over, OwnsTransition, AdminGoes, redis
  <1>5. Marks'
    BY DEF AdminInv, Marks, AdminType, Numbers, Locking, Held, Loop,
       OwnsTransition, AdminGoes, redis
  <1>6. OwnMarker'
    BY QuotaAssumption DEF AdminInv, OwnMarker, AdminType, Numbers, Marks,
       Locking, Held, Reconciling, Loop, OwnsTransition, AdminGoes, redis
  <1>7. Reconciling'
    BY DEF AdminInv, Reconciling, AdminType, Numbers, Locking, Held, Loop,
       Marks, OwnMarker, OwnsTransition, AdminGoes, redis
  <1>8. MarkerHasOwner'
    BY QuotaAssumption DEF AdminInv, MarkerHasOwner, AdminType, Numbers,
       Marks, OwnMarker, Reconciling, Locking, Held, Loop, Over,
       OwnsTransition, AdminGoes, redis
  <1> QED
    BY <1>1, <1>2, <1>3, <1>4, <1>5, <1>6, <1>7, <1>8 DEF AdminInv

(* What is published is the committed row. *)
LEMMA PublishForOtherInv ==
    ASSUME AdminInv, NEW a \in Admins, PublishForOther(a)
    PROVE  AdminInv'
PROOF
  <1>1. Numbers'
    BY QuotaAssumption DEF AdminInv, Numbers, PublishForOther,
       PublishScript, AdminGoes, redis
  <1>2. AdminType'
    BY <1>1 DEF AdminInv, AdminType, Numbers, AdminStates, Over,
       PublishForOther, PublishScript, AdminGoes, redis
  <1>3. Fresh'
    BY DEF AdminInv, Fresh, AdminType, PublishForOther, PublishScript,
       AdminGoes, redis
  <1>4. Locking'
    BY QuotaAssumption DEF AdminInv, Locking, AdminType, Numbers, Held,
       AdminStates, Over, PublishForOther, PublishScript, AdminGoes, redis
  <1>5. Marks'
    BY DEF AdminInv, Marks, AdminType, Numbers, Locking, Held, Loop,
       PublishForOther, PublishScript, AdminGoes, redis
  <1>6. OwnMarker'
    BY QuotaAssumption DEF AdminInv, OwnMarker, AdminType, Numbers, Marks,
       Locking, Held, Reconciling, Loop, PublishForOther, PublishScript,
       AdminGoes, redis
  <1>7. Reconciling'
    BY SMTT(30) DEF AdminInv, Reconciling, AdminType, Numbers, Locking, Held, Loop,
       Marks, OwnMarker, PublishForOther, PublishScript, AdminGoes, redis
  <1>8. MarkerHasOwner'
    BY QuotaAssumption DEF AdminInv, MarkerHasOwner, AdminType, Numbers,
       Marks, OwnMarker, Reconciling, Locking, Held, Loop, Over,
       PublishForOther, PublishScript, AdminGoes, redis
  <1> QED
    BY <1>1, <1>2, <1>3, <1>4, <1>5, <1>6, <1>7, <1>8 DEF AdminInv

(* Raising the marker again: what the loop knows about requests that are   *)
(* about to publish.                                                       *)
LEMMA LoopInv ==
    ASSUME AdminInv, NEW a \in Admins, BeginAgain(a), AdminType', Numbers'
    PROVE  Marks' /\ Reconciling'
PROOF
  <1>1. /\ \A b \in Admins \ {a} : admin'[b] = admin[b]
        /\ admin[a].pc \in {"claim", "again"}
        /\ admin'[a].mark = marker'
        /\ admin'[a].tries = admin[a].tries + 1
        /\ admin'[a].created <=> (marker = 0)
        /\ admin'[a].pc \in {"apply", "refused", "own"}
    BY DEF AdminInv, AdminType, BeginAgain
  <1>2. \/ marker # 0 /\ marker' = marker /\ revision' = revision
        \/ marker = 0 /\ marker' = revision + 1 /\ revision' = revision + 1
    BY DEF BeginAgain, BeginScript, redis
  <1>0. /\ revision \in Nat /\ marker \in {0, revision}
        /\ \A b \in Admins : admin[b].mark \in Nat /\ admin[b].tries \in Nat
    BY DEF AdminInv, AdminType, Numbers
  <1>3. Marks'
    <2>1. \A b \in Admins : /\ admin[b].mark <= revision
                            /\ admin[b].created => admin[b].mark # 0
                            /\ admin[b].pc = "begin" => ~admin[b].created
                            /\ admin[b].pc \in {"lock"} \cup Loop => admin[b].mark # 0
      BY DEF AdminInv, Marks
    <2>2. \A b, c \in Admins :
           admin[b].created /\ admin[c].created /\ admin[b].mark = admin[c].mark => b = c
      BY DEF AdminInv, Marks
    <2>3. \A b \in Admins : /\ admin'[b].mark <= revision'
                            /\ admin'[b].created => admin'[b].mark # 0
                            /\ admin'[b].pc = "begin" => ~admin'[b].created
                            /\ admin'[b].pc \in {"lock"} \cup Loop => admin'[b].mark # 0
      BY <1>1, <1>2, <1>0, <2>1
    <2>4. \A b, c \in Admins :
           admin'[b].created /\ admin'[c].created /\ admin'[b].mark = admin'[c].mark => b = c
      BY <1>1, <1>2, <1>0, <2>1, <2>2
    <2> QED BY <2>3, <2>4 DEF Marks
  <1>4. \A b \in Admins \ {a} : admin[b].pc \notin Loop
    BY <1>1 DEF AdminInv, Locking, Held, Loop
  <1>5. ASSUME admin'[a].pc = "own" PROVE admin'[a].tries <= 2
    <2>1. admin'[a].tries = admin[a].tries + 1 /\ admin[a].tries + 1 # Retries
      BY Zenon, <1>5 DEF AdminInv, AdminType, BeginAgain
    <2>2. admin[a].tries \in Nat /\ admin[a].tries <= 2
      BY DEF AdminInv, AdminType, BeginAgain, Reconciling, Loop
    <2> QED
      BY <2>1, <2>2 DEF Retries
  <1>6. \A b \in Admins : admin'[b].pc = "publish" =>
           admin'[b].mark = admin[b].mark /\ admin[b].pc = "publish" /\ admin[b].mark <= revision
    BY <1>1 DEF AdminInv, Marks
  <1>7. \A b \in Admins : admin'[b].pc = "publish" => admin'[b].mark <= marker'
    BY <1>2, <1>6, <1>0
  <1>8. ASSUME admin[a].tries >= 1
        PROVE \A b \in Admins : admin'[b].pc = "publish" => admin'[b].mark # marker'
    <2>1. /\ marker = 0 \/ marker >= admin[a].mark
          /\ \A b \in Admins : admin[b].pc = "publish" => admin[b].mark <= admin[a].mark
          /\ admin[a].pc = "claim" => marker # admin[a].mark
          /\ admin[a].pc = "again" =>
                \A b \in Admins : admin[b].pc = "publish" => admin[b].mark # marker
      BY <1>1, <1>8 DEF AdminInv, Reconciling, Loop
    <2> QED BY <1>1, <1>2, <1>6, <1>0, <2>1
  <1>9. Reconciling'
    <2>1. \A b \in Admins : admin'[b].pc \in Loop => b = a /\ admin'[b].pc = "own"
      BY <1>1, <1>4 DEF Loop
    <2>2. admin'[a].created => marker' = admin'[a].mark
      BY <1>1
    <2>3. marker' >= admin'[a].mark
      BY <1>1, <1>2, <1>0
    <2>4. admin'[a].tries = 2 => admin[a].tries >= 1
      BY <1>1, <1>0
    <2> QED BY <1>1, <1>5, <1>7, <1>8, <2>1, <2>2, <2>3, <2>4 DEF Reconciling
  <1> QED BY <1>3, <1>9

(* The marker vanishes under the loop at most twice. *)
LEMMA BeginAgainInv ==
    ASSUME AdminInv, NEW a \in Admins, BeginAgain(a)
    PROVE  AdminInv'
PROOF
  <1>1. Numbers'
    BY QuotaAssumption DEF AdminInv, Numbers, BeginAgain, BeginScript,
       redis, Retries
  <1>2. AdminType'
    BY <1>1 DEF AdminInv, AdminType, Numbers, AdminStates, Over, BeginAgain,
       BeginScript, redis, Retries
  <1>3. Fresh'
    BY DEF AdminInv, Fresh, AdminType, BeginAgain, BeginScript, redis,
       Retries
  <1>9. /\ \A b \in Admins : b # a => admin'[b] = admin[b]
        /\ admin'[a].pc \in {"apply", "refused", "own"}
        /\ admin'[a].pc = "apply" => admin[a].pc = "claim" /\ marker = 0
        /\ admin'[a].pc = "refused" =>
             admin[a].tries + 1 = Retries /\ ~(admin[a].pc = "claim" /\ marker = 0)
        /\ admin'[a].mark = marker' /\ admin'[a].seen = admin[a].seen
        /\ rowLock' = IF admin'[a].pc = "refused" THEN None ELSE rowLock
    BY DEF AdminInv, AdminType, BeginAgain
  <1>10. admin'[a].created = (marker = 0)
    BY DEF AdminInv, AdminType, BeginAgain
  <1>11. /\ admin[a].pc \in {"claim", "again"} /\ db' = db /\ role' = role
         /\ \/ marker # 0 /\ marker' = marker
            \/ marker = 0 /\ marker' = revision + 1
    BY DEF BeginAgain, BeginScript, redis
  <1>4. Locking'
    BY <1>9, <1>11, QuotaAssumption DEF AdminInv, Locking, AdminType, Held, Over, AdminStates
  <1>6. OwnMarker'
    <2> SUFFICES ASSUME NEW b \in Admins
                 PROVE  /\ admin'[b].pc = "apply" => admin'[b].created /\ marker' = admin'[b].mark
                        /\ admin'[b].pc = "publish" =>
                             admin'[b].created /\ (marker' = admin'[b].mark /\ role' => db' = Wanted[b])
                        /\ admin'[b].pc \in {"relock", "republish"} => admin'[b].created
      BY DEF OwnMarker
    <2>1. CASE b = a
      <3>1. admin'[a].pc \notin {"publish", "relock", "republish"}
        BY <1>9
      <3>2. admin'[a].pc = "apply" => admin'[a].created
        BY <1>9, <1>10, Zenon
      <3> QED
        BY <2>1, <3>1, <3>2, <1>9
    <2>2. CASE b # a
      BY <2>2, <1>9, <1>11, QuotaAssumption
         DEF AdminInv, OwnMarker, AdminType, Numbers, Marks, Locking, Held
    <2> QED
      BY <2>1, <2>2
  <1>8. MarkerHasOwner'
    <2>1. CASE marker # 0 /\ marker' = marker
      <3>1. PICK b \in Admins : /\ admin[b].created /\ admin[b].mark = marker
                                /\ admin[b].pc \notin Over \ {"failed"}
        BY Zenon, <2>1 DEF AdminInv, MarkerHasOwner
      <3>2. b # a
        BY <3>1, <1>11 DEF AdminInv, Reconciling, Loop
      <3> QED
        BY <2>1, <3>1, <3>2, <1>9 DEF MarkerHasOwner
    <2>2. CASE marker = 0
      <3>1. admin'[a].pc # "refused"
        BY <2>2, <1>9, <1>11 DEF AdminInv, AdminType, Reconciling, Loop, Retries
      <3>2. admin'[a].created
        BY <2>2, <1>10, Zenon
      <3>3. admin'[a].pc \notin Over \ {"failed"}
        BY <3>1, <1>9 DEF Over
      <3> QED
        BY Zenon, <3>2, <3>3, <1>9 DEF MarkerHasOwner
    <2> QED
      BY <2>1, <2>2, <1>11
  <1>5. Marks' /\ Reconciling'
    BY <1>1, <1>2, LoopInv
  <1> QED
    BY <1>1, <1>2, <1>3, <1>4, <1>5, <1>6, <1>8 DEF AdminInv

(* The marker comes down while the role is locked. *)
LEMMA PublishUnchangedInv ==
    ASSUME AdminInv, NEW a \in Admins, PublishUnchanged(a)
    PROVE  AdminInv'
PROOF
  <1>1. Numbers'
    BY QuotaAssumption DEF AdminInv, Numbers, PublishUnchanged,
       PublishScript, AdminGoes, AdminEnds, redis
  <1>2. AdminType'
    BY <1>1 DEF AdminInv, AdminType, Numbers, AdminStates, Over,
       PublishUnchanged, PublishScript, AdminGoes, AdminEnds, redis
  <1>3. Fresh'
    BY DEF AdminInv, Fresh, AdminType, PublishUnchanged, PublishScript,
       AdminGoes, AdminEnds, redis
  <1>4. Locking'
    BY QuotaAssumption DEF AdminInv, Locking, AdminType, Numbers, Held,
       AdminStates, Over, PublishUnchanged, PublishScript, AdminGoes,
       AdminEnds, redis
  <1>5. Marks'
    BY DEF AdminInv, Marks, AdminType, Numbers, Locking, Held, Loop,
       PublishUnchanged, PublishScript, AdminGoes, AdminEnds, redis
  <1>6. OwnMarker'
    BY QuotaAssumption DEF AdminInv, OwnMarker, AdminType, Numbers, Marks,
       Locking, Held, Reconciling, Loop, PublishUnchanged, PublishScript,
       AdminGoes, AdminEnds, redis
  <1>7. Reconciling'
    BY DEF AdminInv, Reconciling, AdminType, Numbers, Locking, Held, Loop,
       Marks, OwnMarker, PublishUnchanged, PublishScript, AdminGoes,
       AdminEnds, redis
  <1>8. MarkerHasOwner'
    BY QuotaAssumption DEF AdminInv, MarkerHasOwner, AdminType, Numbers,
       Marks, OwnMarker, Reconciling, Locking, Held, Loop, Over,
       PublishUnchanged, PublishScript, AdminGoes, AdminEnds, redis
  <1> QED
    BY <1>1, <1>2, <1>3, <1>4, <1>5, <1>6, <1>7, <1>8 DEF AdminInv

(* The request's own marker is up, and it stays. *)
LEMMA CommitChangeInv ==
    ASSUME AdminInv, NEW a \in Admins, CommitChange(a)
    PROVE  AdminInv'
PROOF
  <1>1. Numbers'
    BY QuotaAssumption DEF AdminInv, Numbers, CommitChange, AdminGoes,
       AdminEnds, redis
  <1>2. AdminType'
    BY <1>1 DEF AdminInv, AdminType, Numbers, AdminStates, Over,
       CommitChange, AdminGoes, AdminEnds, redis
  <1>3. Fresh'
    BY DEF AdminInv, Fresh, AdminType, CommitChange, AdminGoes, AdminEnds,
       redis
  <1>4. Locking'
    BY QuotaAssumption DEF AdminInv, Locking, AdminType, Numbers, Held,
       AdminStates, Over, CommitChange, AdminGoes, AdminEnds, redis, Values
  <1>5. Marks'
    BY DEF AdminInv, Marks, AdminType, Numbers, Locking, Held, Loop,
       CommitChange, AdminGoes, AdminEnds, redis
  <1>6. OwnMarker'
    BY QuotaAssumption DEF AdminInv, OwnMarker, AdminType, Numbers, Marks,
       Locking, Held, Reconciling, Loop, CommitChange, AdminGoes, AdminEnds,
       redis, Values
  <1>7. Reconciling'
    BY DEF AdminInv, Reconciling, AdminType, Numbers, Locking, Held, Loop,
       Marks, OwnMarker, CommitChange, AdminGoes, AdminEnds, redis
  <1>8. MarkerHasOwner'
    BY QuotaAssumption DEF AdminInv, MarkerHasOwner, AdminType, Numbers,
       Marks, OwnMarker, Reconciling, Locking, Held, Loop, Over,
       CommitChange, AdminGoes, AdminEnds, redis
  <1> QED
    BY <1>1, <1>2, <1>3, <1>4, <1>5, <1>6, <1>7, <1>8 DEF AdminInv

(* Nobody changed the row while the marker was up. *)
LEMMA PublishCommittedInv ==
    ASSUME AdminInv, NEW a \in Admins, PublishCommitted(a)
    PROVE  AdminInv'
PROOF
  <1>1. Numbers'
    BY QuotaAssumption DEF AdminInv, Numbers, PublishCommitted,
       PublishScript, AdminGoes, redis
  <1>2. AdminType'
    BY <1>1 DEF AdminInv, AdminType, Numbers, AdminStates, Over,
       PublishCommitted, PublishScript, AdminGoes, redis
  <1>3. Fresh'
    BY DEF AdminInv, Fresh, AdminType, PublishCommitted, PublishScript,
       AdminGoes, redis
  <1>4. Locking'
    BY QuotaAssumption DEF AdminInv, Locking, AdminType, Numbers, Held,
       AdminStates, Over, PublishCommitted, PublishScript, AdminGoes, redis
  <1>5. Marks'
    BY DEF AdminInv, Marks, AdminType, Numbers, Locking, Held, Loop,
       PublishCommitted, PublishScript, AdminGoes, redis
  <1>6. OwnMarker'
    BY QuotaAssumption DEF AdminInv, OwnMarker, AdminType, Numbers, Marks,
       Locking, Held, Reconciling, Loop, PublishCommitted, PublishScript,
       AdminGoes, redis
  <1>7. Reconciling'
    BY DEF AdminInv, Reconciling, AdminType, Numbers, Locking, Held, Loop,
       Marks, OwnMarker, PublishCommitted, PublishScript, AdminGoes, redis
  <1>8. MarkerHasOwner'
    BY QuotaAssumption DEF AdminInv, MarkerHasOwner, AdminType, Numbers,
       Marks, OwnMarker, Reconciling, Locking, Held, Loop, Over,
       PublishCommitted, PublishScript, AdminGoes, redis
  <1> QED
    BY <1>1, <1>2, <1>3, <1>4, <1>5, <1>6, <1>7, <1>8 DEF AdminInv

(* The outcome is unknown; the marker stays. *)
LEMMA CommitFailsInv ==
    ASSUME AdminInv, NEW a \in Admins, CommitFails(a)
    PROVE  AdminInv'
PROOF
  <1>1. Numbers'
    BY QuotaAssumption DEF AdminInv, Numbers, CommitFails, AdminGoes,
       AdminEnds, redis
  <1>2. AdminType'
    BY <1>1 DEF AdminInv, AdminType, Numbers, AdminStates, Over,
       CommitFails, AdminGoes, AdminEnds, redis
  <1>3. Fresh'
    BY DEF AdminInv, Fresh, AdminType, CommitFails, AdminGoes, AdminEnds,
       redis
  <1>4. Locking'
    BY QuotaAssumption DEF AdminInv, Locking, AdminType, Numbers, Held,
       AdminStates, Over, CommitFails, AdminGoes, AdminEnds, redis, Values
  <1>5. Marks'
    BY DEF AdminInv, Marks, AdminType, Numbers, Locking, Held, Loop,
       CommitFails, AdminGoes, AdminEnds, redis
  <1>6. OwnMarker'
    BY QuotaAssumption DEF AdminInv, OwnMarker, AdminType, Numbers, Marks,
       Locking, Held, Reconciling, Loop, CommitFails, AdminGoes, AdminEnds,
       redis, Values
  <1>7. Reconciling'
    BY DEF AdminInv, Reconciling, AdminType, Numbers, Locking, Held, Loop,
       Marks, OwnMarker, CommitFails, AdminGoes, AdminEnds, redis
  <1>8. MarkerHasOwner'
    BY QuotaAssumption DEF AdminInv, MarkerHasOwner, AdminType, Numbers,
       Marks, OwnMarker, Reconciling, Locking, Held, Loop, Over,
       CommitFails, AdminGoes, AdminEnds, redis
  <1> QED
    BY <1>1, <1>2, <1>3, <1>4, <1>5, <1>6, <1>7, <1>8 DEF AdminInv

(* The row is read again. *)
LEMMA RelockAfterRollbackInv ==
    ASSUME AdminInv, NEW a \in Admins, RelockAfterRollback(a)
    PROVE  AdminInv'
PROOF
  <1>1. Numbers'
    BY QuotaAssumption DEF AdminInv, Numbers, RelockAfterRollback, redis
  <1>2. AdminType'
    <2>1. db \in Values /\ "republish" \in AdminStates
      BY DEF AdminInv, Numbers, AdminStates
    <2> QED
      BY <2>1, ZenonT(30) DEF AdminInv, AdminType, RelockAfterRollback
  <1>3. Fresh'
    BY DEF AdminInv, Fresh, AdminType, RelockAfterRollback, redis
  <1>4. Locking'
    BY QuotaAssumption DEF AdminInv, Locking, AdminType, Numbers, Held,
       AdminStates, Over, RelockAfterRollback, redis
  <1>5. Marks'
    BY DEF AdminInv, Marks, AdminType, Numbers, Locking, Held, Loop,
       RelockAfterRollback, redis
  <1>6. OwnMarker'
    BY QuotaAssumption DEF AdminInv, OwnMarker, AdminType, Numbers, Marks,
       Locking, Held, Reconciling, Loop, RelockAfterRollback, redis
  <1>7. Reconciling'
    BY DEF AdminInv, Reconciling, AdminType, Numbers, Locking, Held, Loop,
       Marks, OwnMarker, RelockAfterRollback, redis
  <1>8. MarkerHasOwner'
    BY QuotaAssumption DEF AdminInv, MarkerHasOwner, AdminType, Numbers,
       Marks, OwnMarker, Reconciling, Locking, Held, Loop, Over,
       RelockAfterRollback, redis
  <1> QED
    BY <1>1, <1>2, <1>3, <1>4, <1>5, <1>6, <1>7, <1>8 DEF AdminInv

(* What is published is the row that was read again. *)
LEMMA RepublishAfterRollbackInv ==
    ASSUME AdminInv, NEW a \in Admins, RepublishAfterRollback(a)
    PROVE  AdminInv'
PROOF
  <1>1. Numbers'
    BY QuotaAssumption DEF AdminInv, Numbers, RepublishAfterRollback,
       PublishScript, AdminGoes, AdminEnds, redis
  <1>2. AdminType'
    BY <1>1 DEF AdminInv, AdminType, Numbers, AdminStates, Over,
       RepublishAfterRollback, PublishScript, AdminGoes, AdminEnds, redis
  <1>3. Fresh'
    BY DEF AdminInv, Fresh, AdminType, RepublishAfterRollback,
       PublishScript, AdminGoes, AdminEnds, redis
  <1>4. Locking'
    BY QuotaAssumption DEF AdminInv, Locking, AdminType, Numbers, Held,
       AdminStates, Over, RepublishAfterRollback, PublishScript, AdminGoes,
       AdminEnds, redis
  <1>5. Marks'
    BY DEF AdminInv, Marks, AdminType, Numbers, Locking, Held, Loop,
       RepublishAfterRollback, PublishScript, AdminGoes, AdminEnds, redis
  <1>6. OwnMarker'
    BY QuotaAssumption DEF AdminInv, OwnMarker, AdminType, Numbers, Marks,
       Locking, Held, Reconciling, Loop, RepublishAfterRollback,
       PublishScript, AdminGoes, AdminEnds, redis
  <1>7. Reconciling'
    BY DEF AdminInv, Reconciling, AdminType, Numbers, Locking, Held, Loop,
       Marks, OwnMarker, RepublishAfterRollback, PublishScript, AdminGoes,
       AdminEnds, redis
  <1>8. MarkerHasOwner'
    BY QuotaAssumption DEF AdminInv, MarkerHasOwner, AdminType, Numbers,
       Marks, OwnMarker, Reconciling, Locking, Held, Loop, Over,
       RepublishAfterRollback, PublishScript, AdminGoes, AdminEnds, redis
  <1> QED
    BY <1>1, <1>2, <1>3, <1>4, <1>5, <1>6, <1>7, <1>8 DEF AdminInv

(* A marker left behind belongs to a request that failed. *)
LEMMA AdminFailsInv ==
    ASSUME AdminInv, NEW a \in Admins, AdminFails(a)
    PROVE  AdminInv'
PROOF
  <1>1. Numbers'
    BY QuotaAssumption DEF AdminInv, Numbers, AdminFails, BeginScript,
       AdminGoes, AdminEnds, redis, InRedis
  <1>2. AdminType'
    BY <1>1 DEF AdminInv, AdminType, Numbers, AdminStates, Over, AdminFails,
       BeginScript, AdminGoes, AdminEnds, redis, InRedis
  <1>3. Fresh'
    BY DEF AdminInv, Fresh, AdminType, AdminFails, BeginScript, AdminGoes,
       AdminEnds, redis, InRedis
  <1>4. Locking'
    BY QuotaAssumption DEF AdminInv, Locking, AdminType, Numbers, Held,
       AdminStates, Over, AdminFails, BeginScript, AdminGoes, AdminEnds,
       redis, InRedis
  <1>5. Marks'
    BY DEF AdminInv, Marks, AdminType, Numbers, Locking, Held, Loop,
       AdminFails, BeginScript, AdminGoes, AdminEnds, redis, InRedis
  <1>6. OwnMarker'
    BY QuotaAssumption, SMTT(30) DEF AdminInv, OwnMarker, AdminType, Numbers, Marks,
       Locking, Held, Reconciling, Loop, AdminFails, BeginScript, AdminGoes,
       AdminEnds, redis, InRedis
  <1>7. Reconciling'
    BY DEF AdminInv, Reconciling, AdminType, Numbers, Locking, Held, Loop,
       Marks, OwnMarker, AdminFails, BeginScript, AdminGoes, AdminEnds,
       redis, InRedis
  <1>8. MarkerHasOwner'
    BY QuotaAssumption DEF AdminInv, MarkerHasOwner, AdminType, Numbers,
       Marks, OwnMarker, Reconciling, Locking, Held, Loop, Over, AdminFails,
       BeginScript, AdminGoes, AdminEnds, redis, InRedis
  <1> QED
    BY <1>1, <1>2, <1>3, <1>4, <1>5, <1>6, <1>7, <1>8 DEF AdminInv

(* Checks and the expiry of the copy do not touch what AdminInv is about. *)
LEMMA OthersInv ==
    ASSUME AdminInv, UNCHANGED <<db, role, rowLock, revision, marker, admin>>
    PROVE  AdminInv'
PROOF
  <1>1. AdminType' /\ Numbers' /\ Fresh' /\ MarkerHasOwner'
    BY Zenon DEF AdminInv, AdminType, Numbers, Fresh, MarkerHasOwner
  <1>2. Locking' /\ Marks' /\ OwnMarker' /\ Reconciling'
    BY DEF AdminInv, Locking, Marks, OwnMarker, Reconciling
  <1> QED
    BY <1>1, <1>2 DEF AdminInv

LEMMA DeleteRoleInv ==
    ASSUME AdminInv, DeleteRole
    PROVE  AdminInv'
PROOF
  <1> USE DEF AdminInv, DeleteRole, redis
  <1>1. AdminType' /\ Numbers' /\ Fresh' /\ MarkerHasOwner'
    BY Zenon DEF AdminType, Numbers, Fresh, MarkerHasOwner, Values
  <1>2. Locking' /\ Marks' /\ Reconciling'
    BY ZenonT(30), QuotaAssumption DEF Locking, Marks, Reconciling
  <1>3. OwnMarker'
    BY DEF OwnMarker
  <1> QED
    BY <1>1, <1>2, <1>3

LEMMA ChecksLeaveAdmins ==
    ASSUME NEW r \in Readers, ReaderNext(r)
    PROVE  UNCHANGED <<db, role, rowLock, revision, marker, admin>>
PROOF
  BY DEF ReaderNext, AdminsUnchanged, StartCheck, ReadTransition, ReadRevision,
         ReadCache, ReadRepository, StoreCache, RecheckTransition,
         RecheckRevision, CheckScript, CheckFails

LEMMA NextInv == AdminInv /\ [Next]_vars => AdminInv'
PROOF
  <1> SUFFICES ASSUME AdminInv, [Next]_vars PROVE AdminInv'
    OBVIOUS
  <1>1. ASSUME NEW a \in Admins, AdminNext(a) PROVE AdminInv'
    BY <1>1, BeginTransitionInv, LockedRoleInv, RoleNotFoundInv,
       OwnsTransitionInv, PublishForOtherInv, BeginAgainInv,
       PublishUnchangedInv, CommitChangeInv, PublishCommittedInv,
       CommitFailsInv, RelockAfterRollbackInv, RepublishAfterRollbackInv,
       AdminFailsInv DEF AdminNext, AdminStep
  <1>2. ASSUME NEW r \in Readers, ReaderNext(r) PROVE AdminInv'
    BY <1>2, ChecksLeaveAdmins, OthersInv
  <1>3. CASE DeleteRole
    BY <1>3, DeleteRoleInv
  <1>4. CASE CacheExpires
    BY <1>4, OthersInv DEF CacheExpires, AdminsUnchanged
  <1>5. CASE UNCHANGED vars
    BY <1>5, OthersInv DEF vars
  <1> QED
    BY <1>1, <1>2, <1>3, <1>4, <1>5 DEF Next

LEMMA Invariance == Spec => []AdminInv
PROOF
  BY InitInv, NextInv, PTL DEF Spec

-----------------------------------------------------------------------------
(***************************************************************************)
(* However many admin requests compete, a marker that is up belongs to a   *)
(* request that is still at work or that failed: the bounded loop of       *)
(* _own_transition_after_reconciliation never gives up with a marker of    *)
(* its own in place.                                                       *)
(***************************************************************************)
THEOREM MarkersAreOwned == Spec => []MarkerHasOwner
PROOF
  <1>1. AdminInv => MarkerHasOwner
    BY DEF AdminInv
  <1> QED
    BY <1>1, Invariance, PTL

(* One step: what a change of the row or of the marker needs. *)
LEMMA StepFailsClosed == AdminInv /\ [Next]_vars => [FailClosedStep]_vars
PROOF
  <1> SUFFICES ASSUME AdminInv, Next PROVE FailClosedStep
    BY DEF vars
  <1> USE DEF FailClosedStep, AdminInv
  <1>0. marker \in Nat
    BY SMTT(30) DEF Numbers
  <1>1. ASSUME NEW a \in Admins, AdminNext(a) PROVE FailClosedStep
    <2>1. CASE BeginTransition(a)
      BY <2>1 DEF BeginTransition, BeginScript, redis
    <2>2. CASE LockedRole(a)
      BY <2>2 DEF LockedRole, redis
    <2>3. CASE RoleNotFound(a)
      BY <2>3 DEF RoleNotFound
    <2>4. CASE OwnsTransition(a)
      BY Zenon, <2>4 DEF OwnsTransition, redis
    <2>5. CASE PublishForOther(a)
      BY <2>5 DEF PublishForOther, PublishScript, redis, Locking, Held
    <2>6. CASE BeginAgain(a)
      BY Zenon, <2>6 DEF BeginAgain, BeginScript, redis
    <2>7. CASE PublishUnchanged(a)
      BY <2>7 DEF PublishUnchanged, PublishScript, redis, Locking, Held
    <2>8. CASE CommitChange(a)
      BY Zenon, <2>8 DEF CommitChange, redis, OwnMarker, Marks
    <2>9. CASE PublishCommitted(a)
      BY <2>9 DEF PublishCommitted, PublishScript, redis, OwnMarker
    <2>10. CASE CommitFails(a)
      BY <2>10 DEF CommitFails, redis, OwnMarker, Marks
    <2>11. CASE RelockAfterRollback(a)
      BY Zenon, <2>11 DEF RelockAfterRollback, redis
    <2>12. CASE RepublishAfterRollback(a)
      BY <2>12 DEF RepublishAfterRollback, PublishScript, redis, Locking, Held
    <2>13. CASE AdminFails(a)
      BY <2>13 DEF AdminFails, BeginScript, redis
    <2> QED
      BY <1>1, <2>1, <2>2, <2>3, <2>4, <2>5, <2>6, <2>7, <2>8, <2>9, <2>10,
         <2>11, <2>12, <2>13 DEF AdminNext, AdminStep
  <1>2. ASSUME NEW r \in Readers, ReaderNext(r) PROVE FailClosedStep
    BY Zenon, <1>2, ChecksLeaveAdmins
  <1>3. CASE DeleteRole
    BY <1>3 DEF DeleteRole
  <1>4. CASE CacheExpires
    BY <1>4 DEF CacheExpires, AdminsUnchanged
  <1> QED
    BY <1>1, <1>2, <1>3, <1>4 DEF Next

(***************************************************************************)
(* Enforcement fails closed around every change of the configuration, for  *)
(* any number of admin requests, checks, failures and lost replies: no row *)
(* changes without a marker, and no marker comes down without publishing   *)
(* the committed row (upsert_quota, delete_quota).                         *)
(***************************************************************************)
THEOREM ChangesFailClosed == Spec => FailClosed
PROOF
  BY Invariance, StepFailsClosed, PTL DEF Spec, FailClosed

-----------------------------------------------------------------------------
(***************************************************************************)
(* The copy of the limits.  As long as no check has read a revision under  *)
(* a marker, a revision that a check holds, or that the copy carries, is   *)
(* current only while no marker is up.  The row changes under markers      *)
(* only, so limits that go with the current revision are the row's.        *)
(***************************************************************************)
Looking == {"cache", "repository", "store", "recheck", "compare", "count"}
Holding == {"store", "recheck", "compare"}

RevisionsArePast ==
    \A r \in Readers : reader[r].pc \in Looking =>
        /\ reader[r].rev <= revision
        /\ reader[r].rev = revision => marker = 0
CopyIsCurrent ==
    cache # None =>
        /\ cache.rev <= revision
        /\ cache.rev = revision => marker = 0 /\ (role => cache.limit = db)
LimitIsCurrent ==
    \A r \in Readers :
        reader[r].pc \in Holding /\ reader[r].rev = revision /\ role => reader[r].limit = db
GrantIsCovered ==
    \A r \in Readers : reader[r].pc = "count" /\ role => reader[r].limit \in window[r]
WindowIsOpen == \A r \in Readers : reader[r].pc # "start" => db \in window[r]

CopyInv ==
    /\ WindowIsOpen
    /\ ~straddled => RevisionsArePast /\ CopyIsCurrent /\ LimitIsCurrent /\ GrantIsCovered

ReaderRecord == [pc : ReaderStates, rev : 0 .. MaxRevision, limit : Values, cached : BOOLEAN,
                 tries : 0 .. Retries]

CheckType ==
    /\ revision \in 0 .. MaxRevision /\ role \in BOOLEAN /\ straddled \in BOOLEAN
    /\ rowLock \in Admins \cup {None}
    /\ cache \in Copies \cup {None} /\ count \in Nat
    /\ window \in [Readers -> SUBSET Values]
    /\ \A a \in Admins : admin[a].tries <= Retries
    /\ reader \in [Readers -> ReaderRecord]
    /\ \A r \in Readers : reader[r].tries < Retries

(* What an admin request does to the keys: nothing, raise a marker, publish *)
(* the row and take the marker down, or change the row under a marker.      *)
Raises ==
    /\ marker = 0 /\ revision < MaxRevision
    /\ revision' = revision + 1 /\ marker' = revision + 1 /\ cache' = None
    /\ UNCHANGED <<db, window>>
Publishes ==
    /\ marker # 0 /\ marker' = 0 /\ revision' = revision
    /\ \E v \in Values : cache' = [limit |-> v, rev |-> marker] /\ (role => v = db)
    /\ UNCHANGED <<db, window>>
Commits ==
    /\ marker # 0 /\ UNCHANGED redis
    /\ db' \in Values /\ Remember(db')
Rests == UNCHANGED <<db, redis, window>>
AdminMoves ==
    /\ UNCHANGED <<role, reader, straddled, count>>
    /\ Raises \/ Publishes \/ Commits \/ Rests

LEMMA BeginMoves ==
    ASSUME BeginScript, revision < MaxRevision, UNCHANGED <<db, role>>, ChecksUnchanged
    PROVE  AdminMoves
BY DEF BeginScript, ChecksUnchanged, AdminMoves, Raises, Rests, redis

LEMMA PublishMoves ==
    ASSUME AdminInv, NEW v \in Values, NEW mark, PublishScript(mark, v),
           marker = mark /\ role => v = db, mark # 0,
           UNCHANGED <<db, role>>, ChecksUnchanged
    PROVE  AdminMoves
<1>1. CASE marker = mark
  BY <1>1 DEF PublishScript, ChecksUnchanged, AdminMoves, Publishes
<1>2. CASE marker # mark
  BY <1>2 DEF PublishScript, ChecksUnchanged, AdminMoves, Rests, redis
<1> QED BY <1>1, <1>2

LEMMA CommitMoves ==
    ASSUME AdminInv, NEW a \in Admins, CommitChange(a) \/ CommitFails(a)
    PROVE  AdminMoves
<1>1. admin[a].pc = "apply" BY Zenon DEF CommitChange, CommitFails
<1>2. marker # 0 BY <1>1 DEF AdminInv, OwnMarker, Marks
<1>3. Wanted[a] \in Values /\ db \in Values BY QuotaAssumption DEF AdminInv, Numbers
<1>4. UNCHANGED <<role, reader, straddled, count>> /\ UNCHANGED redis
  BY Zenon DEF CommitChange, CommitFails, redis
<1>5. db' \in Values /\ Remember(db') BY <1>3 DEF CommitChange, CommitFails
<1> QED BY <1>2, <1>4, <1>5 DEF AdminMoves, Commits

LEMMA AdminStepMoves ==
    ASSUME AdminInv, NEW a \in Admins, AdminNext(a)
    PROVE  AdminMoves
<1>t. admin[a].seen \in Values /\ Wanted[a] \in Values /\ NoRow \in Values
  BY QuotaAssumption DEF AdminInv, AdminType, Values
<1>0. CASE UNCHANGED <<db, role, redis>> /\ ChecksUnchanged
  BY Zenon, <1>0 DEF ChecksUnchanged, AdminMoves, Rests
<1>1. CASE BeginTransition(a) \/ BeginAgain(a)
  BY <1>1, BeginMoves DEF BeginTransition, BeginAgain
<1>2. CASE LockedRole(a) \/ OwnsTransition(a) \/ RelockAfterRollback(a)
  BY <1>0, <1>2, Zenon DEF LockedRole, OwnsTransition, RelockAfterRollback
<1>3. CASE RoleNotFound(a)
  <2>1. admin[a].mark # 0 BY Zenon, <1>3 DEF RoleNotFound, AdminInv, Marks
  <2> QED BY Zenon, <1>3, <1>t, <2>1, PublishMoves DEF RoleNotFound
<1>4. CASE PublishForOther(a)
  <2>1. admin[a].mark # 0 /\ admin[a].seen = db
    BY Zenon, <1>4 DEF PublishForOther, AdminInv, Marks, Loop, Locking, Held
  <2> QED BY Zenon, <1>4, <1>t, <2>1, PublishMoves DEF PublishForOther
<1>5. CASE PublishUnchanged(a)
  <2>1. admin[a].mark # 0 /\ admin[a].seen = db
    BY Zenon, <1>5 DEF PublishUnchanged, AdminInv, Marks, OwnMarker, Locking, Held
  <2> QED BY Zenon, <1>5, <1>t, <2>1, PublishMoves DEF PublishUnchanged
<1>6. CASE PublishCommitted(a)
  <2>1. admin[a].mark # 0 /\ (marker = admin[a].mark /\ role => Wanted[a] = db)
    BY <1>6 DEF PublishCommitted, AdminInv, Marks, OwnMarker
  <2> QED BY Zenon, <1>6, <1>t, <2>1, PublishMoves DEF PublishCommitted
<1>7. CASE RepublishAfterRollback(a)
  <2>1. admin[a].mark # 0 /\ admin[a].seen = db
    BY <1>7 DEF RepublishAfterRollback, AdminInv, Marks, OwnMarker, Locking, Held
  <2> QED BY Zenon, <1>7, <1>t, <2>1, PublishMoves DEF RepublishAfterRollback
<1>8. CASE AdminFails(a)
  <2>1. CASE UNCHANGED redis BY <1>0, <1>8, <2>1, Zenon DEF AdminFails
  <2>2. CASE revision < MaxRevision /\ BeginScript BY <1>8, <2>2, BeginMoves DEF AdminFails
  <2> QED BY <1>8, <2>1, <2>2 DEF AdminFails
<1>9. CASE CommitChange(a) \/ CommitFails(a) BY <1>9, CommitMoves
<1> QED BY <1>1, <1>2, <1>3, <1>4, <1>5, <1>6, <1>7, <1>8, <1>9, Zenon DEF AdminNext, AdminStep

(* Remember keeps every row that was committed while a check ran *)
LEMMA RememberKeeps ==
    ASSUME CheckType, WindowIsOpen, Remember(db'), reader' = reader
    PROVE  WindowIsOpen' /\ \A r \in Readers : reader[r].pc # "start" => window[r] \subseteq window'[r]
BY DEF CheckType, WindowIsOpen, Remember

LEMMA AdminCopy ==
    ASSUME AdminInv, CheckType, CopyInv, AdminMoves
    PROVE  CopyInv'
<1>n. revision \in Nat /\ marker \in {0, revision} BY DEF AdminInv, Numbers
<1>r. reader \in [Readers -> ReaderRecord] /\ \A r \in Readers : reader[r].rev \in Nat
  BY QuotaAssumption DEF CheckType, ReaderRecord
<1>k. cache # None => cache.rev \in Nat BY QuotaAssumption DEF CheckType, Copies
<1>u. role' = role /\ reader' = reader /\ straddled' = straddled BY Zenon DEF AdminMoves
<1>1. CASE Rests
  <2>1. UNCHANGED <<db, role, reader, straddled, window, revision, marker, cache>>
    BY <1>u, <1>1 DEF Rests, redis
  <2> QED BY <2>1 DEF CopyInv, WindowIsOpen, RevisionsArePast, CopyIsCurrent, LimitIsCurrent, GrantIsCovered
<1>2. CASE Raises
  <2>1. WindowIsOpen' BY <1>2, <1>u DEF Raises, WindowIsOpen, CopyInv
  <2> SUFFICES ASSUME ~straddled
               PROVE  RevisionsArePast' /\ CopyIsCurrent' /\ LimitIsCurrent' /\ GrantIsCovered'
    BY <2>1, <1>u DEF CopyInv
  <2>2. RevisionsArePast' BY <1>2, <1>u, <1>n, <1>r DEF Raises, CopyInv, RevisionsArePast
  <2>3. CopyIsCurrent' BY <1>2 DEF Raises, CopyIsCurrent
  <2>4. LimitIsCurrent'
    <3>1. \A r \in Readers : reader[r].pc \in Holding => reader[r].rev <= revision
      BY DEF CopyInv, RevisionsArePast, Holding, Looking
    <3> QED BY <3>1, <1>2, <1>u, <1>n, <1>r DEF Raises, LimitIsCurrent
  <2>5. GrantIsCovered' BY <1>2, <1>u DEF Raises, CopyInv, GrantIsCovered
  <2> QED BY <2>2, <2>3, <2>4, <2>5
<1>3. CASE Publishes
  <2>0. /\ marker = revision /\ marker # 0 /\ marker' = 0 /\ revision' = revision
        /\ db' = db /\ window' = window
    BY <1>3, <1>n DEF Publishes
  <2>1. WindowIsOpen' BY <2>0, <1>u DEF WindowIsOpen, CopyInv
  <2> SUFFICES ASSUME ~straddled
               PROVE  RevisionsArePast' /\ CopyIsCurrent' /\ LimitIsCurrent' /\ GrantIsCovered'
    BY <2>1, <1>u DEF CopyInv
  <2>2. RevisionsArePast' BY Zenon, <2>0, <1>u DEF CopyInv, RevisionsArePast
  <2>3. CopyIsCurrent' BY <1>3, <2>0, <1>u, <1>n DEF Publishes, CopyIsCurrent
  <2>4. LimitIsCurrent' BY <2>0, <1>u DEF CopyInv, LimitIsCurrent
  <2>5. GrantIsCovered' BY <2>0, <1>u DEF CopyInv, GrantIsCovered
  <2> QED BY <2>2, <2>3, <2>4, <2>5
<1>4. CASE Commits
  <2>0. marker # 0 /\ marker' = marker /\ revision' = revision /\ cache' = cache
    BY <1>4 DEF Commits, redis
  <2>1. /\ WindowIsOpen'
        /\ \A r \in Readers : reader[r].pc # "start" => window[r] \subseteq window'[r]
    BY <1>4, <1>u, RememberKeeps DEF Commits, CopyInv
  <2> SUFFICES ASSUME ~straddled
               PROVE  RevisionsArePast' /\ CopyIsCurrent' /\ LimitIsCurrent' /\ GrantIsCovered'
    BY <2>1, <1>u DEF CopyInv
  <2>2. RevisionsArePast' BY <2>0, <1>u DEF CopyInv, RevisionsArePast
  <2>3. CopyIsCurrent' BY <2>0 DEF CopyInv, CopyIsCurrent
  <2>4. LimitIsCurrent'
    <3>1. \A r \in Readers : reader[r].pc \in Holding => reader[r].rev # revision
      BY <2>0 DEF CopyInv, RevisionsArePast, Holding, Looking
    <3> QED BY <3>1, <2>0, <1>u DEF LimitIsCurrent
  <2>5. GrantIsCovered' BY <2>1, <1>u DEF CopyInv, GrantIsCovered
  <2> QED BY <2>2, <2>3, <2>4, <2>5
<1> QED BY <1>1, <1>2, <1>3, <1>4 DEF AdminMoves

LEMMA DeleteRoleCopy ==
    ASSUME CheckType, CopyInv, DeleteRole
    PROVE  CopyInv'
<1>1. /\ role' = FALSE /\ reader' = reader /\ straddled' = straddled /\ revision' = revision
      /\ marker' = marker /\ cache' = cache /\ Remember(db')
  BY Zenon DEF DeleteRole, redis
<1>2. WindowIsOpen' BY <1>1, RememberKeeps DEF CopyInv
<1>3. ~straddled => RevisionsArePast' /\ CopyIsCurrent'
  BY Zenon, <1>1 DEF CopyInv, RevisionsArePast, CopyIsCurrent
<1>4. LimitIsCurrent' /\ GrantIsCovered' BY Zenon, <1>1 DEF LimitIsCurrent, GrantIsCovered
<1> QED BY <1>1, <1>2, <1>3, <1>4 DEF CopyInv

LEMMA CacheExpiresCopy ==
    ASSUME CopyInv, CacheExpires
    PROVE  CopyInv'
<1>1. /\ cache' = None
      /\ UNCHANGED <<db, role, reader, straddled, window, revision, marker>>
  BY Zenon DEF CacheExpires, AdminsUnchanged
<1> QED BY <1>1 DEF CopyInv, WindowIsOpen, RevisionsArePast, CopyIsCurrent, LimitIsCurrent,
                   GrantIsCovered

(***************************************************************************)
(* A step of a check that leaves the copy: what the check itself holds     *)
(* afterwards decides.                                                     *)
(***************************************************************************)
LEMMA ReaderCopy ==
    ASSUME CheckType, CopyInv, NEW r \in Readers, NEW q \in ReaderRecord,
           AdminsUnchanged, reader' = [reader EXCEPT ![r] = q],
           straddled' = straddled, cache' = cache \/ (~straddled => CopyIsCurrent'),
           \A p \in Readers : p # r => window'[p] = window[p],
           q.pc # "start" => db \in window'[r],
           ~straddled =>
             /\ q.pc \in Looking => q.rev <= revision /\ (q.rev = revision => marker = 0)
             /\ q.pc \in Holding /\ q.rev = revision /\ role => q.limit = db
             /\ q.pc = "count" /\ role => q.limit \in window'[r]
    PROVE  CopyInv'
<1>1. UNCHANGED <<db, role, revision, marker>> BY Zenon DEF AdminsUnchanged
<1>2. reader'[r] = q /\ \A p \in Readers : p # r => reader'[p] = reader[p] BY Zenon DEF CheckType
<1>3. WindowIsOpen' BY Zenon, <1>1, <1>2 DEF CopyInv, WindowIsOpen
<1> SUFFICES ASSUME ~straddled
             PROVE  RevisionsArePast' /\ CopyIsCurrent' /\ LimitIsCurrent' /\ GrantIsCovered'
  BY Zenon, <1>3 DEF CopyInv
<1>4. RevisionsArePast' BY Zenon, <1>1, <1>2 DEF CopyInv, RevisionsArePast
<1>5. CopyIsCurrent' BY Zenon, <1>1 DEF CopyInv, CopyIsCurrent
<1>6. LimitIsCurrent' BY Zenon, <1>1, <1>2 DEF CopyInv, LimitIsCurrent
<1>7. GrantIsCovered' BY <1>1, <1>2 DEF CopyInv, GrantIsCovered
<1> QED BY Zenon, <1>4, <1>5, <1>6, <1>7

LEMMA ReaderTypes ==
    ASSUME CheckType, NEW r \in Readers, NEW q \in ReaderRecord, q.tries < Retries,
           AdminsUnchanged, reader' = [reader EXCEPT ![r] = q],
           cache' \in Copies \cup {None}, count' \in Nat, straddled' \in BOOLEAN,
           window' \in [Readers -> SUBSET Values]
    PROVE  CheckType'
<1>1. reader' \in [Readers -> ReaderRecord] BY Zenon DEF CheckType
<1>2. \A p \in Readers : reader'[p].tries < Retries BY Zenon DEF CheckType
<1>3. /\ revision' \in 0 .. MaxRevision /\ rowLock' \in Admins \cup {None}
      /\ role' \in BOOLEAN
      /\ \A a \in Admins : admin'[a].tries <= Retries
  BY DEF CheckType, AdminsUnchanged
<1> QED BY <1>1, <1>2, <1>3, Zenon DEF CheckType

(* the record of a check after a change of its fields *)
LEMMA Moved ==
    ASSUME CheckType, NEW r \in Readers, NEW pc \in ReaderStates
    PROVE  LET q == [reader[r] EXCEPT !.pc = pc]
           IN  /\ q \in ReaderRecord /\ q.pc = pc /\ q.rev = reader[r].rev
               /\ q.limit = reader[r].limit /\ q.tries = reader[r].tries
<1> DEFINE q == [reader[r] EXCEPT !.pc = pc]
<1>1. reader[r] \in ReaderRecord BY Zenon DEF CheckType
<1>2. q \in ReaderRecord BY <1>1, Zenon DEF ReaderRecord
<1>3. /\ q.pc = pc /\ q.rev = reader[r].rev /\ q.limit = reader[r].limit
      /\ q.tries = reader[r].tries
  BY Zenon, <1>1 DEF ReaderRecord
<1> QED BY <1>2, <1>3

(* a check that only moves on, with nothing new in its hands *)
LEMMA MovesOn ==
    ASSUME CheckType, CopyInv, NEW r \in Readers, NEW pc \in ReaderStates,
           ReaderGoes(r, pc), AdminsUnchanged, UNCHANGED <<cache, straddled>>, count' \in Nat,
           window' \in [Readers -> SUBSET Values],
           \A p \in Readers : p # r => window'[p] = window[p],
           pc # "start" => db \in window'[r],
           pc \in Looking => pc \in Holding /\ reader[r].pc \in Holding
    PROVE  CheckType' /\ CopyInv'
<1> DEFINE q == [reader[r] EXCEPT !.pc = pc]
<1>1. /\ q \in ReaderRecord /\ q.pc = pc /\ q.rev = reader[r].rev
      /\ q.limit = reader[r].limit /\ q.tries = reader[r].tries
  BY Moved
<1>2. reader' = [reader EXCEPT ![r] = q] BY Zenon DEF ReaderGoes
<1> HIDE DEF q
<1>3. cache' \in Copies \cup {None} /\ straddled' \in BOOLEAN /\ reader[r].tries < Retries
  BY DEF CheckType
<1>4. CheckType' BY Zenon, <1>1, <1>2, <1>3, ReaderTypes
<1>5. ~straddled =>
        /\ q.pc \in Looking => q.rev <= revision /\ (q.rev = revision => marker = 0)
        /\ q.pc \in Holding /\ q.rev = revision /\ role => q.limit = db
        /\ q.pc = "count" /\ role => q.limit \in window'[r]
  BY <1>1 DEF CopyInv, RevisionsArePast, LimitIsCurrent, Looking, Holding
<1>6. CopyInv' BY Zenon, <1>1, <1>2, <1>5, ReaderCopy
<1> QED BY <1>4, <1>6

LEMMA StartCheckCopy ==
    ASSUME AdminInv, CheckType, CopyInv, NEW r \in Readers, StartCheck(r)
    PROVE  CheckType' /\ CopyInv'
<1>1. /\ window' \in [Readers -> SUBSET Values] /\ window'[r] = {db}
      /\ \A p \in Readers : p # r => window'[p] = window[p]
  BY Zenon DEF StartCheck, CheckType, AdminInv, Numbers
<1>2. count' \in Nat BY Zenon DEF StartCheck, CheckType
<1> QED BY Zenon, <1>1, <1>2, MovesOn DEF StartCheck, ReaderStates, Looking

LEMMA SameWindow ==
    ASSUME CheckType, CopyInv, NEW r \in Readers, reader[r].pc # "start", window' = window
    PROVE  /\ window' \in [Readers -> SUBSET Values] /\ db \in window'[r]
           /\ \A p \in Readers : p # r => window'[p] = window[p]
BY Zenon DEF CheckType, CopyInv, WindowIsOpen

LEMMA ReadTransitionCopy ==
    ASSUME AdminInv, CheckType, CopyInv, NEW r \in Readers, ReadTransition(r) \/ CheckFails(r)
    PROVE  CheckType' /\ CopyInv'
<1>1. PICK pc \in {"unavailable", "revision"} : ReaderGoes(r, pc)
  BY Zenon DEF ReadTransition, CheckFails
<1>2. /\ window' = window /\ count' \in Nat /\ UNCHANGED <<cache, straddled>>
      /\ AdminsUnchanged /\ reader[r].pc # "start"
  BY DEF ReadTransition, CheckFails, CheckType
<1>3. pc \in ReaderStates /\ pc \notin Looking BY DEF ReaderStates, Looking
<1> QED BY Zenon, <1>1, <1>2, <1>3, SameWindow, MovesOn

LEMMA ReadRevisionCopy ==
    ASSUME AdminInv, CheckType, CopyInv, NEW r \in Readers, ReadRevision(r)
    PROVE  CheckType' /\ CopyInv'
<1> DEFINE q == [reader[r] EXCEPT !.pc = "cache", !.rev = revision]
<1>0. reader[r] \in ReaderRecord /\ revision \in 0 .. MaxRevision BY DEF CheckType
<1>1. q \in ReaderRecord
  <2>1. "cache" \in ReaderStates BY DEF ReaderStates
  <2> QED BY <1>0, <2>1, Zenon DEF ReaderRecord
<1>2. q.pc = "cache" /\ q.rev = revision /\ q.tries = reader[r].tries BY <1>0 DEF ReaderRecord
<1>3. reader' = [reader EXCEPT ![r] = q] BY DEF ReadRevision
<1> HIDE DEF q
<1>4. /\ window' = window /\ count' \in Nat /\ cache' = cache /\ cache' \in Copies \cup {None}
      /\ AdminsUnchanged /\ reader[r].pc # "start" /\ reader[r].tries < Retries
      /\ revision \in Nat
  BY DEF ReadRevision, CheckType, AdminInv, Numbers
<1>5. straddled' \in BOOLEAN BY Zenon DEF ReadRevision
<1>6. CheckType' BY Zenon, <1>1, <1>2, <1>3, <1>4, <1>5, SameWindow, ReaderTypes
<1>7. CASE marker = 0
  <2>1. straddled' = straddled BY Zenon, <1>7 DEF ReadRevision, CheckType
  <2>2. /\ q.pc \in Looking => q.rev <= revision /\ (q.rev = revision => marker = 0)
        /\ q.pc \notin Holding /\ q.pc # "count" /\ q.pc # "start"
    BY <1>2, <1>4, <1>7 DEF Holding
  <2>3. db \in window'[r] /\ \A p \in Readers : p # r => window'[p] = window[p]
    BY <1>4, SameWindow
  <2> QED BY Zenon, <1>1, <1>3, <1>4, <1>6, <2>1, <2>2, <2>3, ReaderCopy
<1>8. CASE marker # 0
  <2>1. straddled' BY Zenon, <1>8 DEF ReadRevision
  <2>2. WindowIsOpen'
    BY <1>3, <1>4 DEF CopyInv, WindowIsOpen, AdminsUnchanged, CheckType
  <2> QED BY <1>6, <2>1, <2>2 DEF CopyInv
<1> QED BY Zenon, <1>7, <1>8

LEMMA ReadCacheCopy ==
    ASSUME AdminInv, CheckType, CopyInv, NEW r \in Readers, ReadCache(r)
    PROVE  CheckType' /\ CopyInv'
<1>0. reader[r] \in ReaderRecord /\ cache \in Copies \cup {None} BY DEF CheckType
<1>1. /\ window' = window /\ count' \in Nat /\ cache' = cache /\ straddled' = straddled
      /\ straddled' \in BOOLEAN /\ AdminsUnchanged /\ reader[r].pc = "cache"
      /\ reader[r].tries < Retries
  BY Zenon DEF ReadCache, CheckType
<1>2. ~straddled => /\ reader[r].rev <= revision
                    /\ reader[r].rev = revision => marker = 0
  BY <1>1 DEF CopyInv, RevisionsArePast, Looking
<1>3. CASE CacheHit(r)
  <2> DEFINE q == [reader[r] EXCEPT !.pc = "recheck", !.limit = cache.limit, !.cached = TRUE]
  <2>1. cache.limit \in Values /\ cache.rev = reader[r].rev /\ cache # None
    BY <1>0, <1>3 DEF CacheHit, Copies
  <2>2. q \in ReaderRecord
    <3>1. "recheck" \in ReaderStates BY DEF ReaderStates
    <3> QED BY <1>0, <2>1, <3>1, Zenon DEF ReaderRecord
  <2>3. /\ q.pc = "recheck" /\ q.rev = reader[r].rev /\ q.limit = cache.limit
        /\ q.tries = reader[r].tries
    BY <1>0 DEF ReaderRecord
  <2>4. reader' = [reader EXCEPT ![r] = q] BY <1>3 DEF ReadCache
  <2> HIDE DEF q
  <2>5. CheckType' BY Zenon, <1>0, <1>1, <2>2, <2>3, <2>4, SameWindow, ReaderTypes
  <2>6. ~straddled /\ reader[r].rev = revision /\ role => cache.limit = db
    BY <2>1 DEF CopyInv, CopyIsCurrent
  <2>7. CopyInv'
    BY Zenon, <1>1, <1>2, <2>2, <2>3, <2>4, <2>6, SameWindow, ReaderCopy
  <2> QED BY <2>5, <2>7
<1>4. CASE ~CacheHit(r)
  <2> DEFINE q == [reader[r] EXCEPT !.pc = "repository", !.cached = FALSE]
  <2>2. q \in ReaderRecord
    <3>1. "repository" \in ReaderStates BY DEF ReaderStates
    <3> QED BY <1>0, <3>1, Zenon DEF ReaderRecord
  <2>3. q.pc = "repository" /\ q.rev = reader[r].rev /\ q.tries = reader[r].tries
    BY <1>0 DEF ReaderRecord
  <2>4. reader' = [reader EXCEPT ![r] = q] BY <1>4 DEF ReadCache
  <2> HIDE DEF q
  <2>5. CheckType' BY Zenon, <1>0, <1>1, <2>2, <2>3, <2>4, SameWindow, ReaderTypes
  <2>7. CopyInv'
    BY Zenon, <1>1, <1>2, <2>2, <2>3, <2>4, SameWindow, ReaderCopy DEF Holding
  <2> QED BY <2>5, <2>7
<1> QED BY Zenon, <1>3, <1>4

LEMMA ReadRepositoryCopy ==
    ASSUME AdminInv, CheckType, CopyInv, NEW r \in Readers, ReadRepository(r)
    PROVE  CheckType' /\ CopyInv'
<1> DEFINE q == [reader[r] EXCEPT !.pc = "store", !.limit = db]
<1>0. reader[r] \in ReaderRecord /\ db \in Values BY DEF CheckType, AdminInv, Numbers
<1>1. /\ window' = window /\ count' \in Nat /\ cache' = cache /\ straddled' = straddled
      /\ straddled' \in BOOLEAN /\ AdminsUnchanged /\ reader[r].pc = "repository"
      /\ reader[r].tries < Retries /\ cache' \in Copies \cup {None}
  BY Zenon DEF ReadRepository, CheckType
<1>2. ~straddled => /\ reader[r].rev <= revision
                    /\ reader[r].rev = revision => marker = 0
  BY <1>1 DEF CopyInv, RevisionsArePast, Looking
<1>3. q \in ReaderRecord
  <2>1. "store" \in ReaderStates BY DEF ReaderStates
  <2> QED BY <1>0, <2>1, Zenon DEF ReaderRecord
<1>4. /\ q.pc = "store" /\ q.rev = reader[r].rev /\ q.limit = db /\ q.tries = reader[r].tries
  BY <1>0 DEF ReaderRecord
<1>5. reader' = [reader EXCEPT ![r] = q] BY DEF ReadRepository
<1> HIDE DEF q
<1>6. CheckType' BY Zenon, <1>1, <1>3, <1>4, <1>5, SameWindow, ReaderTypes
<1>7. CopyInv' BY Zenon, <1>1, <1>2, <1>3, <1>4, <1>5, SameWindow, ReaderCopy
<1> QED BY <1>6, <1>7

LEMMA StoreCacheCopy ==
    ASSUME AdminInv, CheckType, CopyInv, NEW r \in Readers, StoreCache(r)
    PROVE  CheckType' /\ CopyInv'
<1> DEFINE q == [reader[r] EXCEPT !.pc = "recheck", !.cached = FALSE]
<1>0. reader[r] \in ReaderRecord BY DEF CheckType
<1>1. /\ window' = window /\ count' \in Nat /\ straddled' = straddled
      /\ straddled' \in BOOLEAN /\ AdminsUnchanged /\ reader[r].pc = "store"
      /\ reader[r].tries < Retries
      /\ cache' = [limit |-> reader[r].limit, rev |-> reader[r].rev]
  BY Zenon DEF StoreCache, CheckType
<1>2. ~straddled => /\ reader[r].rev <= revision
                    /\ reader[r].rev = revision => marker = 0
                    /\ reader[r].rev = revision /\ role => reader[r].limit = db
  BY <1>1 DEF CopyInv, RevisionsArePast, LimitIsCurrent, Looking, Holding
<1>3. q \in ReaderRecord
  <2>1. "recheck" \in ReaderStates BY DEF ReaderStates
  <2> QED BY <1>0, <2>1, Zenon DEF ReaderRecord
<1>4. /\ q.pc = "recheck" /\ q.rev = reader[r].rev /\ q.limit = reader[r].limit
      /\ q.tries = reader[r].tries
  BY <1>0 DEF ReaderRecord
<1>5. reader' = [reader EXCEPT ![r] = q] BY Zenon DEF StoreCache
<1> HIDE DEF q
<1>6. cache' \in Copies \cup {None}
  <2>1. reader[r].limit \in Values /\ reader[r].rev \in 0 .. MaxRevision
    BY <1>0 DEF ReaderRecord
  <2> QED BY Zenon, <1>1, <2>1 DEF Copies
<1>7. CheckType' BY Zenon, <1>1, <1>3, <1>4, <1>5, <1>6, SameWindow, ReaderTypes
<1>8. ~straddled => CopyIsCurrent' BY <1>1, <1>2 DEF CopyIsCurrent, AdminsUnchanged
<1>9. CopyInv' BY Zenon, <1>1, <1>2, <1>3, <1>4, <1>5, <1>8, SameWindow, ReaderCopy
<1> QED BY <1>7, <1>9

LEMMA RecheckTransitionCopy ==
    ASSUME AdminInv, CheckType, CopyInv, NEW r \in Readers, RecheckTransition(r)
    PROVE  CheckType' /\ CopyInv'
<1>1. PICK pc \in {"unavailable", "compare"} : ReaderGoes(r, pc)
  BY Zenon DEF RecheckTransition
<1>2. /\ window' = window /\ count' \in Nat /\ UNCHANGED <<cache, straddled>>
      /\ AdminsUnchanged /\ reader[r].pc = "recheck"
  BY DEF RecheckTransition, CheckType
<1>3. /\ pc \in ReaderStates /\ (pc \in Looking => pc \in Holding)
      /\ reader[r].pc \in Holding /\ reader[r].pc # "start"
  BY Zenon, <1>2 DEF ReaderStates, Looking, Holding
<1>4. /\ window' \in [Readers -> SUBSET Values] /\ db \in window'[r]
      /\ \A p \in Readers : p # r => window'[p] = window[p]
  BY Zenon, <1>2, <1>3, SameWindow
<1> QED BY <1>1, <1>2, <1>3, <1>4, MovesOn

LEMMA RecheckRevisionCopy ==
    ASSUME AdminInv, CheckType, CopyInv, NEW r \in Readers, RecheckRevision(r)
    PROVE  CheckType' /\ CopyInv'
<1>0. reader[r] \in ReaderRecord /\ reader[r].tries \in Nat BY DEF CheckType, ReaderRecord
<1>1. /\ window' = window /\ count' \in Nat /\ cache' = cache /\ straddled' = straddled
      /\ straddled' \in BOOLEAN /\ AdminsUnchanged /\ reader[r].pc = "compare"
      /\ reader[r].tries < Retries /\ cache' \in Copies \cup {None}
  BY Zenon DEF RecheckRevision, CheckType
<1>2. ~straddled => /\ reader[r].rev <= revision
                    /\ reader[r].rev = revision => marker = 0
                    /\ reader[r].rev = revision /\ role => reader[r].limit = db
  BY Zenon, <1>1 DEF CopyInv, RevisionsArePast, LimitIsCurrent, Looking, Holding
<1>w. /\ window' \in [Readers -> SUBSET Values] /\ db \in window'[r]
      /\ \A p \in Readers : p # r => window'[p] = window[p]
  BY <1>1, SameWindow
<1>3. ASSUME NEW pc \in {"count", "repository", "unavailable"}, ReaderGoes(r, pc),
             pc = "count" => revision = reader[r].rev
      PROVE  CheckType' /\ CopyInv'
  <2> DEFINE q == [reader[r] EXCEPT !.pc = pc]
  <2>1. pc \in ReaderStates BY DEF ReaderStates
  <2>2. /\ q \in ReaderRecord /\ q.pc = pc /\ q.rev = reader[r].rev
        /\ q.limit = reader[r].limit /\ q.tries = reader[r].tries
    BY <2>1, Moved
  <2>3. reader' = [reader EXCEPT ![r] = q] BY <1>3 DEF ReaderGoes
  <2> HIDE DEF q
  <2>4. CheckType' BY Zenon, <1>1, <1>w, <2>2, <2>3, ReaderTypes
  <2>5. ~straddled =>
          /\ q.pc \in Looking => q.rev <= revision /\ (q.rev = revision => marker = 0)
          /\ q.pc \in Holding /\ q.rev = revision /\ role => q.limit = db
          /\ q.pc = "count" /\ role => q.limit \in window'[r]
    BY <1>2, <1>3, <1>w, <2>2
  <2>6. CopyInv' BY Zenon, <1>1, <1>w, <2>2, <2>3, <2>5, ReaderCopy
  <2> QED BY <2>4, <2>6
<1>4. CASE /\ reader[r].tries + 1 # Retries
           /\ reader' = [reader EXCEPT ![r] =
                  [reader[r] EXCEPT !.pc = "transition", !.tries = reader[r].tries + 1]]
  <2> DEFINE n == reader[r].tries + 1
             q == [reader[r] EXCEPT !.pc = "transition", !.tries = n]
  <2>1. n \in 0 .. Retries /\ n < Retries BY <1>0, <1>1, <1>4 DEF Retries
  <2>2. reader' = [reader EXCEPT ![r] = q] BY <1>4
  <2> HIDE DEF n
  <2>3. q \in ReaderRecord
    <3>1. "transition" \in ReaderStates BY DEF ReaderStates
    <3> QED BY <1>0, <2>1, <3>1, Zenon DEF ReaderRecord
  <2>4. q.pc = "transition" /\ q.tries = n BY <1>0 DEF ReaderRecord
  <2> HIDE DEF q
  <2>5. CheckType' BY Zenon, <1>1, <1>w, <2>1, <2>2, <2>3, <2>4, ReaderTypes
  <2>6. q.pc \notin Looking /\ q.pc \notin Holding /\ q.pc # "count"
    BY <2>4 DEF Looking, Holding
  <2>7. CopyInv' BY Zenon, <1>1, <1>w, <2>2, <2>3, <2>6, ReaderCopy
  <2> QED BY <2>5, <2>7
<1>5. CASE revision = reader[r].rev
  <2>1. ReaderGoes(r, "count") BY <1>5 DEF RecheckRevision, ReaderGoes
  <2> QED BY <1>3, <1>5, <2>1
<1>6. CASE revision # reader[r].rev /\ reader[r].cached
  <2>1. ReaderGoes(r, "repository") BY <1>6 DEF RecheckRevision, ReaderGoes
  <2> QED BY <1>3, <2>1
<1>7. CASE revision # reader[r].rev /\ ~reader[r].cached /\ reader[r].tries + 1 = Retries
  <2>1. ReaderGoes(r, "unavailable") BY <1>7 DEF RecheckRevision, ReaderGoes
  <2> QED BY <1>3, <2>1
<1>8. CASE revision # reader[r].rev /\ ~reader[r].cached /\ reader[r].tries + 1 # Retries
  <2>1. reader' = [reader EXCEPT ![r] =
            [reader[r] EXCEPT !.pc = "transition", !.tries = reader[r].tries + 1]]
    BY Zenon, <1>8 DEF RecheckRevision
  <2> QED BY <1>4, <1>8, <2>1
<1> QED BY Zenon, <1>5, <1>6, <1>7, <1>8

LEMMA CheckScriptCopy ==
    ASSUME AdminInv, CheckType, CopyInv, NEW r \in Readers, CheckScript(r)
    PROVE  CheckType' /\ CopyInv'
<1>1. PICK pc \in {"unavailable", "exceeded", "allowed"} : ReaderGoes(r, pc)
  BY Zenon DEF CheckScript
<1>2. /\ window' = window /\ count' \in Nat /\ UNCHANGED <<cache, straddled>>
      /\ AdminsUnchanged /\ reader[r].pc # "start"
  BY DEF CheckScript, CheckType
<1>3. pc \in ReaderStates /\ pc \notin Looking BY DEF ReaderStates, Looking
<1> QED BY Zenon, <1>1, <1>2, <1>3, SameWindow, MovesOn

(* types of what an admin request leaves; the loop ends at the third try *)
LEMMA AdminTypes ==
    ASSUME AdminInv, CheckType, NEW a \in Admins, AdminNext(a)
    PROVE  CheckType'
<1>m. AdminMoves BY AdminStepMoves
<1>n. marker \in {0, revision} /\ revision \in Nat /\ db \in Values /\ MaxRevision \in Nat
  BY Zenon, QuotaAssumption DEF AdminInv, Numbers
<1>t. /\ admin \in [Admins -> [pc : AdminStates, mark : Nat, created : BOOLEAN,
                               seen : Values, tries : Nat]]
      /\ admin[a].pc \in Loop => admin[a].tries <= 2
  BY DEF AdminInv, AdminType, Reconciling
<1>1. UNCHANGED <<role, reader, straddled, count>> BY <1>m DEF AdminMoves
<1>2. revision' \in 0 .. MaxRevision /\ cache' \in Copies \cup {None}
  <2>1. CASE Raises BY <2>1, <1>n DEF Raises
  <2>2. CASE Publishes
    <3>1. PICK v \in Values : cache' = [limit |-> v, rev |-> marker] BY Zenon, <2>2 DEF Publishes
    <3>2. marker \in 0 .. MaxRevision BY <1>n DEF CheckType
    <3> QED BY <2>2, <3>1, <3>2 DEF Publishes, Copies, CheckType
  <2>3. CASE Commits BY Zenon, <2>3 DEF Commits, redis, CheckType
  <2>4. CASE Rests BY Zenon, <2>4 DEF Rests, redis, CheckType
  <2> QED BY <1>m, <2>1, <2>2, <2>3, <2>4 DEF AdminMoves
<1>3. window' \in [Readers -> SUBSET Values]
  <2>1. CASE Commits BY Zenon, <2>1 DEF Commits, Remember, CheckType
  <2>2. CASE window' = window BY <2>2 DEF CheckType
  <2> QED BY Zenon, <1>m, <2>1, <2>2 DEF AdminMoves, Raises, Publishes, Rests
<1>4. rowLock' \in Admins \cup {None}
  <2>1. rowLock' \in {rowLock, a, None}
    BY DEF AdminNext, AdminStep, BeginTransition, LockedRole, RoleNotFound, OwnsTransition,
       PublishForOther, BeginAgain, PublishUnchanged, CommitChange, PublishCommitted,
       CommitFails, RelockAfterRollback, RepublishAfterRollback, AdminFails, AdminEnds
  <2> QED BY Zenon, <2>1 DEF CheckType
<1>5. \A b \in Admins : admin'[b].tries <= Retries
  <2>1. CASE BeginAgain(a)
    BY <2>1, <1>t DEF BeginAgain, CheckType, Loop, Retries
  <2>2. CASE BeginTransition(a) \/ LockedRole(a) \/ RelockAfterRollback(a)
    BY <2>2, <1>t DEF BeginTransition, LockedRole, RelockAfterRollback, CheckType
  <2>3. CASE RoleNotFound(a) \/ OwnsTransition(a) \/ PublishForOther(a) \/ PublishCommitted(a)
    BY <2>3, <1>t DEF RoleNotFound, OwnsTransition, PublishForOther, PublishCommitted, AdminGoes,
       CheckType
  <2>4. CASE PublishUnchanged(a) \/ CommitChange(a) \/ CommitFails(a) \/ RepublishAfterRollback(a)
    BY <2>4, <1>t DEF PublishUnchanged, CommitChange, CommitFails, RepublishAfterRollback,
       AdminEnds, AdminGoes, CheckType
  <2>5. CASE AdminFails(a)
    BY <2>5, <1>t DEF AdminFails, AdminEnds, AdminGoes, CheckType
  <2> QED BY <2>1, <2>2, <2>3, <2>4, <2>5, Zenon DEF AdminNext, AdminStep
<1>6. /\ role' \in BOOLEAN /\ straddled' \in BOOLEAN /\ count' \in Nat
      /\ reader' \in [Readers -> ReaderRecord] /\ \A r \in Readers : reader'[r].tries < Retries
  BY <1>1, Zenon DEF CheckType
<1> QED BY <1>2, <1>3, <1>4, <1>5, <1>6, Zenon DEF CheckType

LEMMA OtherTypes ==
    ASSUME AdminInv, CheckType, DeleteRole \/ CacheExpires \/ UNCHANGED vars
    PROVE  CheckType'
<1>1. UNCHANGED <<revision, rowLock, count, straddled, admin, reader>>
  BY Zenon DEF DeleteRole, CacheExpires, AdminsUnchanged, vars, redis
<1>2. role' \in BOOLEAN
  BY Zenon DEF DeleteRole, CacheExpires, AdminsUnchanged, vars, CheckType
<1>3. cache' \in Copies \cup {None}
  BY DEF DeleteRole, CacheExpires, vars, redis, CheckType
<1>4. window' \in [Readers -> SUBSET Values]
  <2>1. CASE DeleteRole BY Zenon, <2>1 DEF DeleteRole, Remember, CheckType, Values
  <2>2. CASE window' = window BY <2>2 DEF CheckType
  <2> QED BY Zenon, <2>1, <2>2 DEF CacheExpires, vars
<1>5. /\ revision' \in 0 .. MaxRevision /\ straddled' \in BOOLEAN
      /\ rowLock' \in Admins \cup {None} /\ count' \in Nat
      /\ \A a \in Admins : admin'[a].tries <= Retries
      /\ reader' \in [Readers -> ReaderRecord]
      /\ \A r \in Readers : reader'[r].tries < Retries
  BY <1>1, Zenon DEF CheckType
<1> QED BY <1>2, <1>3, <1>4, <1>5, Zenon DEF CheckType

(* The inductive invariant of the checks. *)
CheckInv == AdminInv /\ CheckType /\ CopyInv

LEMMA InitCheck == Init => CheckInv
<1> SUFFICES ASSUME Init PROVE CheckInv OBVIOUS
<1>1. AdminInv BY InitInv
<1>2. CheckType
  <2>1. /\ revision \in 0 .. MaxRevision /\ rowLock \in Admins \cup {None}
        /\ cache \in Copies \cup {None} /\ count \in Nat
        /\ window \in [Readers -> SUBSET Values]
        /\ \A a \in Admins : admin[a].tries <= Retries
        /\ \A r \in Readers : reader[r].tries < Retries
    BY QuotaAssumption DEF Init, Retries
  <2>2. role \in BOOLEAN /\ straddled \in BOOLEAN BY Zenon DEF Init
  <2>3. [pc |-> "start", rev |-> 0, limit |-> NoRow, cached |-> FALSE, tries |-> 0] \in ReaderRecord
    BY QuotaAssumption DEF ReaderRecord, ReaderStates, Values, Retries
  <2>4. reader \in [Readers -> ReaderRecord] BY <2>3, Zenon DEF Init
  <2> QED BY <2>1, <2>2, <2>4, Zenon DEF CheckType
<1>3. CopyInv
  BY DEF Init, CopyInv, WindowIsOpen, RevisionsArePast, CopyIsCurrent, LimitIsCurrent,
         GrantIsCovered, Looking, Holding
<1> QED BY <1>1, <1>2, <1>3 DEF CheckInv

LEMMA ReaderNextCopy ==
    ASSUME AdminInv, CheckType, CopyInv, NEW r \in Readers, ReaderNext(r)
    PROVE  CheckType' /\ CopyInv'
BY StartCheckCopy, ReadTransitionCopy, ReadRevisionCopy, ReadCacheCopy, ReadRepositoryCopy,
   StoreCacheCopy, RecheckTransitionCopy, RecheckRevisionCopy, CheckScriptCopy, Zenon
   DEF ReaderNext

LEMMA NextCheck == CheckInv /\ [Next]_vars => CheckInv'
<1> SUFFICES ASSUME AdminInv, CheckType, CopyInv, [Next]_vars PROVE CheckInv'
  BY DEF CheckInv
<1>0. AdminInv' BY NextInv
<1>1. ASSUME NEW a \in Admins, AdminNext(a) PROVE CheckType' /\ CopyInv'
  BY <1>1, AdminTypes, AdminStepMoves, AdminCopy
<1>2. ASSUME NEW r \in Readers, ReaderNext(r) PROVE CheckType' /\ CopyInv'
  BY <1>2, ReaderNextCopy
<1>3. CASE DeleteRole BY <1>0, <1>3, OtherTypes, DeleteRoleCopy DEF CheckInv
<1>4. CASE CacheExpires BY <1>0, <1>4, OtherTypes, CacheExpiresCopy DEF CheckInv
<1>5. CASE UNCHANGED vars
  <2>1. CopyInv'
    BY <1>5 DEF vars, CopyInv, WindowIsOpen, RevisionsArePast, CopyIsCurrent, LimitIsCurrent,
                GrantIsCovered
  <2> QED BY Zenon, <1>0, <1>5, <2>1, OtherTypes DEF CheckInv
<1> QED BY <1>0, <1>1, <1>2, <1>3, <1>4, <1>5, Zenon DEF Next, CheckInv

LEMMA ChecksInvariance == Spec => []CheckInv
BY InitCheck, NextCheck, PTL DEF Spec

-----------------------------------------------------------------------------
(***************************************************************************)
(* The variables have their types, and the copy that checks accept holds   *)
(* the committed limits, for any number of requests, checks, failures and  *)
(* revisions, unless a check has read a revision under a marker            *)
(* (_cache_revision, upsert_quota, delete_quota).                          *)
(***************************************************************************)
THEOREM CopiesAreSound == Spec => []CacheIsSound
<1>1. CheckInv => CacheIsSound
  <2> SUFFICES ASSUME CheckInv PROVE TypeOK /\ StaleOnlyAfterStraddling
    BY DEF CacheIsSound
  <2>1. AdminInv /\ CheckType /\ CopyInv BY DEF CheckInv
  <2>2. admin \in [Admins -> [pc : AdminStates, mark : 0 .. MaxRevision, created : BOOLEAN,
                              seen : Values, tries : 0 .. Retries]]
    <3> SUFFICES ASSUME NEW a \in Admins
                 PROVE  admin[a] \in [pc : AdminStates, mark : 0 .. MaxRevision,
                                      created : BOOLEAN, seen : Values, tries : 0 .. Retries]
      BY <2>1, Zenon DEF AdminInv, AdminType
    <3>1. admin[a] \in [pc : AdminStates, mark : Nat, created : BOOLEAN, seen : Values, tries : Nat]
      BY <2>1, Zenon DEF AdminInv, AdminType
    <3>2. admin[a].mark \in Nat /\ admin[a].tries \in Nat /\ admin[a].mark <= revision
      BY Zenon, <2>1, <3>1 DEF AdminInv, Marks
    <3>3. admin[a].mark \in 0 .. MaxRevision /\ admin[a].tries \in 0 .. Retries
      BY <2>1, <3>2, QuotaAssumption DEF CheckType, Retries
    <3> QED BY <3>1, <3>3, Zenon
  <2>3. TypeOK
    <3>1. /\ db \in Values /\ marker \in {0, revision} BY <2>1 DEF AdminInv, Numbers
    <3> QED BY <2>1, <2>2, <3>1, Zenon DEF TypeOK, CheckType, ReaderRecord
  <2>4. StaleOnlyAfterStraddling
    BY <2>1 DEF CopyInv, CopyIsCurrent, StaleOnlyAfterStraddling, CacheIsAuthoritative, Acceptable
  <2> QED BY <2>3, <2>4
<1> QED BY <1>1, ChecksInvariance, PTL

(***************************************************************************)
(* A check is granted only against limits that were committed at some      *)
(* moment while it ran, for any number of requests, checks and failures    *)
(* (check_and_increment).                                                  *)
(***************************************************************************)
THEOREM GrantsStayCurrent == Spec => GrantsAreCurrent
<1>1. CheckInv /\ [Next]_vars => [GrantStep]_vars
  BY DEF CheckInv, CopyInv, GrantIsCovered, GrantStep
<1> QED BY <1>1, ChecksInvariance, PTL DEF Spec, GrantsAreCurrent
=============================================================================
