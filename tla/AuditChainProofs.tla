-------------------------- MODULE AuditChainProofs --------------------------
(***************************************************************************)
(* The audit log is one linear chain and only loses what has left the      *)
(* retention window, and the removal of an entry is detected, for any      *)
(* number of sessions, any retention and any interleaving, concurrent      *)
(* purges included.  While only one purge runs at a time, verify_chain     *)
(* accepts every log that is produced, but for a purge that was overtaken. *)
(***************************************************************************)
EXTENDS AuditChain, TLAPS

(***************************************************************************)
(* The lock is held exactly by the session whose transaction is open, and  *)
(* the functions over sessions have the sessions as domain.                *)
(***************************************************************************)
Shape ==
    /\ DOMAIN pc = Procs /\ DOMAIN scan = Procs /\ DOMAIN work = Procs
    /\ \A p \in Procs : pc[p] = "open" <=> holder = p

(* The chain as the steps need it: order on all pairs, bounded by the clock. *)
Chain ==
    /\ DOMAIN rows \subseteq Nat \ {0}
    /\ \A s, u \in DOMAIN rows : \A v \in s .. u : v \in DOMAIN rows
    /\ DOMAIN rows = {} \/ \E s \in DOMAIN rows : IsLast(rows, s)
    /\ \A s \in DOMAIN rows :
        /\ rows[s].hash = RowHash(rows[s])
        /\ rows[s].time \in Int /\ rows[s].time <= clock
        /\ s + 1 \in DOMAIN rows => rows[s + 1].prev = rows[s].hash
    /\ \A s, u \in DOMAIN rows : s <= u => rows[s].time <= rows[u].time

(* What a purge has read is older than the retention window. *)
Cutoffs ==
    /\ clock \in Int
    /\ \A p \in Procs :
        pc[p] \in {"survivor", "mark"} =>
            scan[p].cutoff \in Int /\ scan[p].cutoff <= clock - Retention

(* e continues the chain of R. *)
Continues(R, e) ==
    /\ e.seq \in Nat \ {0}
    /\ \A s \in DOMAIN R : s < e.seq /\ R[s].time <= e.time
    /\ DOMAIN R # {} => e.seq - 1 \in DOMAIN R /\ e.prev = R[e.seq - 1].hash
    /\ e.time \in Int /\ e.hash = RowHash(e)

(* What an open transaction will write fits the committed rows: its entry  *)
(* continues the chain, and it deletes the oldest rows and only those that *)
(* have expired.                                                           *)
OpenWork ==
    \A p \in Procs : pc[p] = "open" =>
        /\ Continues(rows, work[p].insert)
        /\ work[p].insert.time <= clock
        /\ work[p].insert.seq \notin work[p].delete
        /\ \A s \in DOMAIN rows \cap work[p].delete :
            /\ rows[s].time < clock - Retention
            /\ \A u \in DOMAIN rows : u <= s => u \in work[p].delete

Inv == Shape /\ Chain /\ Cutoffs /\ OpenWork

LEMMA InitInv == Init => Inv
BY ChainAssumption
   DEF Init, Inv, Shape, Chain, Cutoffs, OpenWork, IsLast

(* The entry log() builds continues the chain it reads. *)
LEMMA EntryContinues ==
    ASSUME Chain, clock \in Int, NEW a, NEW c
    PROVE  /\ Continues(rows, NewEntry(rows, a, c))
           /\ NewEntry(rows, a, c).time = clock
           /\ NewEntry(rows, a, c).seq \notin DOMAIN rows
PROOF
  <1> DEFINE e == NewEntry(rows, a, c)
  <1>1. /\ e.seq = NextSeq(rows) /\ e.time = clock
        /\ e.prev = IF e.seq = 1 THEN Genesis ELSE rows[e.seq - 1].hash
        /\ e.hash = RowHash(e)
    BY Zenon DEF NewEntry, RowHash
  <1>2. CASE DOMAIN rows = {}
    BY <1>1, <1>2 DEF Continues, NextSeq, LastSeq
  <1>3. CASE DOMAIN rows # {}
    <2>1. PICK s \in DOMAIN rows : IsLast(rows, s)
      BY <1>3 DEF Chain
    <2>2. LastSeq(rows) = s
      <3>1. IsLast(rows, LastSeq(rows))
        BY <1>3, <2>1 DEF LastSeq
      <3> QED
        BY <3>1, <2>1 DEF IsLast, Chain
    <2>3. e.seq = s + 1 /\ s \in Nat \ {0}
      BY <1>1, <2>2 DEF NextSeq, Chain
    <2>4. e.prev = rows[e.seq - 1].hash /\ e.seq - 1 = s
      BY <1>1, <2>3
    <2> QED
      BY <1>1, <2>1, <2>3, <2>4 DEF Continues, IsLast, Chain
  <1> QED
    BY Zenon, <1>2, <1>3

(* Ending a transaction keeps the shape. *)
LEMMA EndShape ==
    ASSUME Shape, NEW p \in Procs, pc[p] # "idle", End(p)
    PROVE  Shape' /\ \A q \in Procs : pc'[q] = "open" => q # p /\ pc[q] = "open"
BY ChainAssumption DEF Shape, End

(* Taking the lock with an entry and a set of expired, oldest rows. *)
LEMMA BeginInv ==
    ASSUME Inv, NEW p \in Procs, NEW a, NEW c, NEW D,
           holder = None, pc[p] # "open",
           Begin(p, NewEntry(rows, a, c), D), UNCHANGED <<rows, clock, scan>>,
           D \subseteq DOMAIN rows,
           \A s \in D : /\ rows[s].time < clock - Retention
                        /\ \A u \in DOMAIN rows : u <= s => u \in D
    PROVE  Inv'
PROOF
  <1> USE DEF Inv
  <1>1. Shape'
    BY ChainAssumption DEF Shape, Begin
  <1>2. Chain'
    BY DEF Chain, IsLast
  <1>3. Cutoffs'
    <2> SUFFICES ASSUME NEW q \in Procs, pc'[q] \in {"survivor", "mark"}
                 PROVE  scan[q].cutoff \in Int /\ scan[q].cutoff <= clock - Retention
      BY DEF Cutoffs
    <2>1. pc[q] = pc'[q]
      BY DEF Begin, Shape
    <2> QED
      BY <2>1 DEF Cutoffs
  <1>4. OpenWork'
    <2> SUFFICES ASSUME NEW q \in Procs, pc'[q] = "open"
                 PROVE  /\ Continues(rows, work'[q].insert)
                        /\ work'[q].insert.time <= clock
                        /\ work'[q].insert.seq \notin work'[q].delete
                        /\ \A s \in DOMAIN rows \cap work'[q].delete :
                            /\ rows[s].time < clock - Retention
                            /\ \A u \in DOMAIN rows : u <= s => u \in work'[q].delete
      BY DEF OpenWork, Continues
    <2>1. q = p
      BY ChainAssumption DEF Begin, Shape
    <2>2. work'[q] = [insert |-> NewEntry(rows, a, c), delete |-> D]
      BY <2>1 DEF Begin, Shape
    <2>3. /\ Continues(rows, NewEntry(rows, a, c))
          /\ NewEntry(rows, a, c).time = clock
          /\ NewEntry(rows, a, c).seq \notin DOMAIN rows
      BY EntryContinues DEF Cutoffs
    <2> QED
      BY <2>2, <2>3, SMTT(30) DEF Cutoffs
  <1> QED
    BY <1>1, <1>2, <1>3, <1>4

(* The rows after a commit. *)
LEMMA CommitRows ==
    ASSUME Inv, NEW p \in Procs, Commit(p)
    PROVE  LET e == work[p].insert
               D == work[p].delete
           IN  /\ DOMAIN rows' = (DOMAIN rows \ D) \cup {e.seq}
               /\ rows'[e.seq] = e
               /\ \A s \in DOMAIN rows' : s # e.seq => rows'[s] = rows[s]
               /\ \A s \in DOMAIN rows : s < e.seq
BY DEF Commit, Inv, OpenWork, Continues

LEMMA CommitChain ==
    ASSUME Inv, NEW p \in Procs, Commit(p)
    PROVE  Chain'
PROOF
  <1> DEFINE e == work[p].insert
             D == work[p].delete
  <1>1. /\ DOMAIN rows' = (DOMAIN rows \ D) \cup {e.seq}
        /\ rows'[e.seq] = e
        /\ \A s \in DOMAIN rows' : s # e.seq => rows'[s] = rows[s]
        /\ \A s \in DOMAIN rows : s < e.seq
    BY CommitRows
  <1>2. clock' = clock /\ pc[p] = "open"
    BY DEF Commit
  <1>3. /\ Continues(rows, e) /\ e.time <= clock
        /\ \A s \in DOMAIN rows \cap D : \A u \in DOMAIN rows : u <= s => u \in D
    BY <1>2 DEF Inv, OpenWork
  <1>4. DOMAIN rows \subseteq Nat \ {0} /\ e.seq \in Nat \ {0}
    BY <1>3 DEF Inv, Chain, Continues
  <1> HIDE DEF e, D
  <1>5. DOMAIN rows' \subseteq Nat \ {0}
    BY <1>1, <1>4
  <1>6. \A s, u \in DOMAIN rows' : \A v \in s .. u : v \in DOMAIN rows'
    <2> SUFFICES ASSUME NEW s \in DOMAIN rows', NEW u \in DOMAIN rows',
                        NEW v \in s .. u
                 PROVE  v \in DOMAIN rows'
      OBVIOUS
    <2>1. v \in Int /\ s <= v /\ v <= u /\ s \in Nat /\ u \in Nat
      BY <1>5
    <2>2. CASE s = e.seq
      BY <1>1, <1>4, <2>1, <2>2
    <2>3. CASE v = e.seq
      BY <1>1, <2>3
    <2>4. CASE s # e.seq /\ v # e.seq
      <3>1. s \in DOMAIN rows \ D
        BY <1>1, <2>4
      <3>2. v \in DOMAIN rows
        <4>1. CASE u # e.seq
          BY <1>1, <3>1, <4>1 DEF Inv, Chain
        <4>2. CASE u = e.seq
          <5>1. e.seq - 1 \in DOMAIN rows
            BY <1>3, <3>1 DEF Continues
          <5>2. v \in s .. (e.seq - 1)
            BY <1>4, <2>1, <2>4, <4>2
          <5> QED
            BY <3>1, <5>1, <5>2 DEF Inv, Chain
        <4> QED
          BY <4>1, <4>2
      <3>3. v \notin D
        BY <1>3, <2>1, <3>1, <3>2
      <3> QED
        BY <1>1, <3>2, <3>3
    <2> QED
      BY <2>2, <2>3, <2>4
  <1>7. \E s \in DOMAIN rows' : IsLast(rows', s)
    BY <1>1, <1>4 DEF IsLast
  <1>8. ASSUME NEW s \in DOMAIN rows'
        PROVE  /\ rows'[s].hash = RowHash(rows'[s])
               /\ rows'[s].time \in Int /\ rows'[s].time <= clock'
               /\ s + 1 \in DOMAIN rows' => rows'[s + 1].prev = rows'[s].hash
    <2>1. CASE s = e.seq
      <3>1. s + 1 \notin DOMAIN rows'
        BY <1>1, <1>4, <2>1
      <3> QED
        BY <1>1, <1>2, <1>3, <2>1, <3>1 DEF Continues
    <2>2. CASE s # e.seq
      <3>1. s \in DOMAIN rows /\ rows'[s] = rows[s]
        BY <1>1, <2>2
      <3>2. CASE s + 1 = e.seq
        <4>1. e.seq - 1 = s
          BY <1>4, <3>1, <3>2
        <4> QED
          BY <1>1, <1>2, <1>3, <3>1, <3>2, <4>1 DEF Inv, Chain, Continues
      <3>3. CASE s + 1 # e.seq
        BY <1>1, <1>2, <3>1, <3>3 DEF Inv, Chain
      <3> QED
        BY <3>2, <3>3
    <2> QED
      BY <2>1, <2>2
  <1>9. ASSUME NEW s \in DOMAIN rows', NEW u \in DOMAIN rows', s <= u
        PROVE  rows'[s].time <= rows'[u].time
    <2>1. CASE s = e.seq
      <3>1. u = e.seq
        BY <1>1, <1>4, <1>9, <2>1
      <3> QED
        BY <1>1, <1>3, <2>1, <3>1 DEF Continues
    <2>2. CASE s # e.seq
      BY <1>1, <1>3, <1>9, <2>2 DEF Inv, Chain, Continues
    <2> QED
      BY <2>1, <2>2
  <1> QED
    BY <1>5, <1>6, <1>7, <1>8, <1>9 DEF Chain

(* Nobody but the holder of the lock has open work. *)
LEMMA EndInv ==
    ASSUME Inv, NEW p \in Procs, pc[p] # "idle", End(p), clock' = clock,
           Chain', pc[p] # "open" => rows' = rows
    PROVE  Inv'
PROOF
  <1>1. Shape' /\ \A q \in Procs : pc'[q] = "open" => q # p /\ pc[q] = "open"
    BY EndShape DEF Inv
  <1>2. Cutoffs'
    <2> SUFFICES ASSUME NEW q \in Procs, pc'[q] \in {"survivor", "mark"}
                 PROVE  scan'[q].cutoff \in Int /\ scan'[q].cutoff <= clock - Retention
      BY DEF Cutoffs, Inv
    <2>1. q # p /\ pc[q] = pc'[q] /\ scan'[q] = scan[q]
      BY DEF End, Inv, Shape
    <2> QED
      BY <2>1 DEF Inv, Cutoffs
  <1>3. OpenWork'
    <2> SUFFICES ASSUME NEW q \in Procs, pc'[q] = "open"
                 PROVE  /\ Continues(rows', work'[q].insert)
                        /\ work'[q].insert.time <= clock'
                        /\ work'[q].insert.seq \notin work'[q].delete
                        /\ \A s \in DOMAIN rows' \cap work'[q].delete :
                            /\ rows'[s].time < clock' - Retention
                            /\ \A u \in DOMAIN rows' : u <= s => u \in work'[q].delete
      BY DEF OpenWork, Continues
    <2>1. q # p /\ pc[q] = "open" /\ work'[q] = work[q]
      BY <1>1 DEF End, Inv, Shape
    <2>2. pc[p] # "open"
      BY <2>1 DEF Inv, Shape
    <2>3. rows' = rows
      BY <2>2
    <2> QED
      BY <2>1, <2>3, SMTT(30) DEF Inv, OpenWork
  <1> QED
    BY <1>1, <1>2, <1>3 DEF Inv

LEMMA NextInv == Inv /\ [Next]_vars => Inv'
PROOF
  <1> SUFFICES ASSUME Inv, [Next]_vars PROVE Inv'
    OBVIOUS
  <1>1. ASSUME NEW p \in Writers, Log(p) PROVE Inv'
    BY <1>1, BeginInv DEF Log, Procs
  <1>2. ASSUME NEW p \in Auditors, Verify(p) PROVE Inv'
    BY <1>2, BeginInv DEF Verify, Procs
  <1>3. ASSUME NEW p \in Purgers, PurgeReadExpired(p) PROVE Inv'
    <2> p \in Procs
      BY DEF Procs
    <2>1. Shape'
      BY <1>3 DEF PurgeReadExpired, Inv, Shape
    <2>2. Chain'
      BY <1>3 DEF PurgeReadExpired, Inv, Chain, IsLast
    <2>3. Cutoffs'
      <3> SUFFICES ASSUME NEW q \in Procs, pc'[q] \in {"survivor", "mark"}
                   PROVE  scan'[q].cutoff \in Int /\ scan'[q].cutoff <= clock - Retention
        BY <1>3 DEF Cutoffs, Inv, PurgeReadExpired
      <3>1. CASE q = p
        BY <1>3, <3>1, ChainAssumption DEF PurgeReadExpired, Inv, Shape, Cutoffs
      <3>2. CASE q # p
        BY <1>3, <3>2, SMTT(30) DEF PurgeReadExpired, Inv, Shape, Cutoffs
      <3> QED
        BY <3>1, <3>2
    <2>4. OpenWork'
      BY <1>3 DEF PurgeReadExpired, Inv, Shape, OpenWork, Continues
    <2> QED
      BY <2>1, <2>2, <2>3, <2>4 DEF Inv
  <1>4. ASSUME NEW p \in Purgers, PurgeReadSurvivor(p) PROVE Inv'
    <2> p \in Procs
      BY DEF Procs
    <2>1. Shape'
      BY <1>4 DEF PurgeReadSurvivor, Inv, Shape
    <2>2. Chain'
      BY <1>4 DEF PurgeReadSurvivor, Inv, Chain, IsLast
    <2>3. Cutoffs'
      BY <1>4, SMTT(30) DEF PurgeReadSurvivor, Inv, Shape, Cutoffs
    <2>4. OpenWork'
      BY <1>4, SMTT(30) DEF PurgeReadSurvivor, Inv, Shape, OpenWork, Continues
    <2> QED
      BY <2>1, <2>2, <2>3, <2>4 DEF Inv
  <1>5. ASSUME NEW p \in Purgers, PurgeMarkAndDelete(p) PROVE Inv'
    <2> DEFINE D == PurgeDeletes(p)
    <2>1. p \in Procs /\ holder = None /\ pc[p] # "open"
      BY <1>5 DEF Procs, PurgeMarkAndDelete
    <2>2. scan[p].cutoff \in Int /\ scan[p].cutoff <= clock - Retention
      BY <1>5, <2>1 DEF PurgeMarkAndDelete, Inv, Cutoffs
    <2>3. D \subseteq DOMAIN rows
      BY DEF PurgeDeletes, Expired
    <2>4. \A s \in D : /\ rows[s].time < clock - Retention
                       /\ \A u \in DOMAIN rows : u <= s => u \in D
      BY <2>2, ChainAssumption DEF PurgeDeletes, Expired, Inv, Chain, Cutoffs
    <2> QED
      BY <1>5, <2>1, <2>3, <2>4, BeginInv DEF PurgeMarkAndDelete
  <1>6. ASSUME NEW p \in Procs, Commit(p) PROVE Inv'
    <2>1. Chain'
      BY <1>6, CommitChain
    <2> QED
      BY <1>6, <2>1, EndInv DEF Commit
  <1>7. ASSUME NEW p \in Procs, Rollback(p) PROVE Inv'
    <2>1. Chain'
      BY <1>7 DEF Rollback, Inv, Chain, IsLast
    <2> QED
      BY <1>7, <2>1, EndInv DEF Rollback
  <1>8. ASSUME Tick PROVE Inv'
    <2>1. clock \in Int /\ clock' = clock + 1
      BY <1>8 DEF Tick, Inv, Cutoffs
    <2>2. Shape'
      BY <1>8 DEF Tick, Inv, Shape
    <2>3. Chain'
      BY <1>8, <2>1 DEF Tick, Inv, Chain, IsLast
    <2>4. Cutoffs'
      BY <1>8, <2>1, ChainAssumption DEF Tick, Inv, Cutoffs
    <2>5. OpenWork'
      <3>1. rows' = rows /\ pc' = pc /\ work' = work
        BY <1>8 DEF Tick
      <3> SUFFICES ASSUME NEW p \in Procs, pc'[p] = "open"
                   PROVE  /\ Continues(rows, work[p].insert)'
                          /\ work'[p].insert.time <= clock'
                          /\ work'[p].insert.seq \notin work'[p].delete
                          /\ \A s \in DOMAIN rows' \cap work'[p].delete :
                              /\ rows'[s].time < clock' - Retention
                              /\ \A u \in DOMAIN rows' : u <= s => u \in work'[p].delete
        BY DEF OpenWork
      <3>2. /\ Continues(rows, work[p].insert) /\ work[p].insert.time <= clock
            /\ work[p].insert.seq \notin work[p].delete
            /\ \A s \in DOMAIN rows \cap work[p].delete :
                /\ rows[s].time < clock - Retention
                /\ \A u \in DOMAIN rows : u <= s => u \in work[p].delete
        BY <3>1 DEF Inv, OpenWork
      <3>3. work[p].insert.time <= clock + 1
        BY <2>1, <3>2 DEF Continues
      <3>4. \A s \in DOMAIN rows : rows[s].time \in Int
        BY DEF Inv, Chain
      <3>5. \A s \in DOMAIN rows \cap work[p].delete : rows[s].time < clock + 1 - Retention
        BY <2>1, <3>2, <3>4, ChainAssumption, SMTT(30)
      <3>6. Continues(rows, work[p].insert)'
        BY <3>1, <3>2 DEF Continues, RowHash
      <3>7. ASSUME NEW s \in DOMAIN rows' \cap work'[p].delete
            PROVE  /\ rows'[s].time < clock' - Retention
                   /\ \A u \in DOMAIN rows' : u <= s => u \in work'[p].delete
        <4>1. s \in DOMAIN rows \cap work[p].delete
          BY <3>1
        <4>2. \A u \in DOMAIN rows : u <= s => u \in work[p].delete
          BY <3>2, <4>1
        <4>3. rows[s].time < clock + 1 - Retention
          BY <3>5, <4>1
        <4>4. rows'[s].time < clock' - Retention
          BY <2>1, <3>1, <4>3, ChainAssumption
        <4> QED
          BY <3>1, <4>2, <4>4
      <3>8. work'[p].insert.time <= clock' /\ work'[p].insert.seq \notin work'[p].delete
        BY <2>1, <3>1, <3>2, <3>3, SMTT(30)
      <3> QED
        BY <3>6, <3>7, <3>8
    <2> QED
      BY <2>2, <2>3, <2>4, <2>5 DEF Inv
  <1>9. ASSUME UNCHANGED vars PROVE Inv'
    BY <1>9 DEF vars, Inv, Shape, Chain, Cutoffs, OpenWork, Continues, IsLast
  <1> QED
    BY <1>1, <1>2, <1>3, <1>4, <1>5, <1>6, <1>7, <1>8, <1>9
       DEF Next, PurgeNothing

LEMMA Invariance == Spec => []Inv
PROOF
  <1> QED
    BY InitInv, NextInv, PTL DEF Spec

(***************************************************************************)
(* log(), whoever calls it and whatever purges run beside it, keeps the    *)
(* retained entries in one gap-free, hash-linked chain in the order of     *)
(* time.                                                                   *)
(***************************************************************************)
THEOREM ChainIsLinear == Spec => []LinearChain
PROOF
  <1>1. Inv => LinearChain
    BY SMTT(30) DEF Inv, Chain, LinearChain
  <1> QED
    BY <1>1, Invariance, PTL

(***************************************************************************)
(* purge_expired_entries never removes an entry inside the retention       *)
(* window, and no step changes an entry or inserts one anywhere but at the *)
(* end.                                                                    *)
(***************************************************************************)
THEOREM OnlyExpiredEntriesGo == Spec => RetentionRespected
PROOF
  <1>1. Inv /\ [Next]_vars => [RetainedStep]_vars
    <2> SUFFICES ASSUME Inv, Next PROVE RetainedStep \/ UNCHANGED vars
      OBVIOUS
    <2>1. ASSUME NEW p \in Procs, Commit(p) PROVE RetainedStep
      <3> DEFINE e == work[p].insert
                 D == work[p].delete
      <3>1. /\ DOMAIN rows' = (DOMAIN rows \ D) \cup {e.seq}
            /\ rows'[e.seq] = e
            /\ \A s \in DOMAIN rows' : s # e.seq => rows'[s] = rows[s]
            /\ \A s \in DOMAIN rows : s < e.seq
        BY <2>1, CommitRows, SMTT(30)
      <3>2. /\ \A s \in DOMAIN rows \cap D : rows[s].time < clock - Retention
            /\ e.seq \in Nat /\ DOMAIN rows \subseteq Nat
        BY <2>1 DEF Commit, Inv, OpenWork, Continues, Chain
      <3> HIDE DEF e, D
      <3>3. \A s \in DOMAIN rows : s # e.seq
        BY <3>1, <3>2
      <3> QED
        BY <3>1, <3>2, <3>3, SMTT(30) DEF RetainedStep, IsLast
    <2>2. ASSUME rows' = rows PROVE RetainedStep
      BY <2>2 DEF RetainedStep
    <2> QED
      BY <2>1, <2>2 DEF Next, Log, Verify, PurgeReadExpired, PurgeNothing,
           PurgeReadSurvivor, PurgeMarkAndDelete, Rollback, Tick, vars
  <1> QED
    BY <1>1, Invariance, PTL DEF Spec, RetentionRespected


-----------------------------------------------------------------------------
(***************************************************************************)
(* Verification.                                                           *)
(*                                                                         *)
(* The marker of a purge names what was purged, and nothing of that is     *)
(* left once it is committed (PurgedIsGone): no marker can be taken for    *)
(* the removal of an entry that is still there.  The scan of a purge is    *)
(* older than its marker; ScanIsOld says what holds of it under any        *)
(* number of concurrent purges, ScanIsExact what holds of it when there is *)
(* only one.                                                               *)
(***************************************************************************)
RowsTyped ==
    /\ clock \in 0 .. MaxTime
    /\ holder \in Procs \cup {None}
    /\ \A p \in Procs : pc[p] \in {"idle", "survivor", "mark", "open"}
    /\ \A s \in DOMAIN rows : Row(rows[s]) /\ rows[s].seq = s
    /\ \A p \in Procs : \A e \in scan[p].expired : Row(e)

(* What an open transaction inserts. *)
InsertTyped ==
    \A p \in Procs :
        /\ pc[p] # "open" => work[p] = NoWork
        /\ pc[p] = "open" =>
            /\ Row(work[p].insert)
            /\ work[p].insert.time >= clock - Retention

(* Purged entries are gone when their marker is there. *)
MarkerClears(R, m) ==
    PurgeRow(m) => /\ m.context.purged_to_seq \in Nat
                   /\ \A s \in DOMAIN R : m.context.purged_to_seq < s

PurgedIsGone ==
    /\ \A u \in DOMAIN rows : MarkerClears(rows, rows[u])
    /\ \A p \in Procs : pc[p] = "open" /\ PurgeRow(work[p].insert) =>
        LET c == work[p].insert.context IN
        /\ c.purged_to_seq \in Nat /\ c.purged_to_seq < work[p].insert.seq
        /\ \A s \in DOMAIN rows \ work[p].delete : c.purged_to_seq < s

(* The entries of X are numbered from lo to hi without gap or repetition. *)
Run(X, lo, hi) ==
    /\ lo \in Nat \ {0} /\ hi \in Nat /\ lo <= hi
    /\ \A e \in X : e.seq \in lo .. hi
    /\ \A s \in lo .. hi : \E e \in X : e.seq = s
    /\ \A e, f \in X : e.seq = f.seq => e = f

ScanIsOld ==
    \A p \in Procs : pc[p] \in {"survivor", "mark"} =>
        \E lo, hi \in Nat :
            /\ Run(scan[p].expired, lo, hi)
            /\ \A s \in DOMAIN rows : s <= hi => rows[s].time < scan[p].cutoff
            /\ \E s \in DOMAIN rows : hi <= s

RemovalInv == RowsTyped /\ InsertTyped /\ PurgedIsGone /\ ScanIsOld

(***************************************************************************)
(* One purge at a time, as when a scheduler starts the script.  With two,  *)
(* one that read its entries before the other finished marks fewer than    *)
(* are gone, and this newer marker covers no gap: TLC finds such a run.    *)
(***************************************************************************)
OnePurge == \A p, q \in Purgers : p = q

(* What a purge at a step has read is what the log R holds. *)
Exact(R, read, step) ==
    /\ read.expired = {R[s] : s \in Expired(R, read.cutoff)}
    /\ step = "mark" /\ read.survivor # None =>
        \E n \in Survivors(R, read.cutoff) :
            read.survivor = R[n] /\ \A s \in Survivors(R, read.cutoff) : n <= s

ScanIsExact ==
    \A p \in Procs : pc[p] \in {"survivor", "mark"} =>
        p \in Purgers /\ Exact(rows, scan[p], pc[p])

(* A marker names the entries of R that are to be deleted with it, and the *)
(* entry after them.                                                       *)
MarksAll(R, c, gone) ==
    LET to == c.purged_to_seq IN
    /\ RangeIsConsistent(c)
    /\ to \in DOMAIN R
    /\ gone = {s \in DOMAIN R : s <= to}
    /\ c.last_retained_hash = R[to].hash
    /\ \/ c.first_surviving_seq = None /\ c.first_surviving_prev_hash = None
       \/ /\ to + 1 \in DOMAIN R
          /\ c.first_surviving_seq = to + 1
          /\ c.first_surviving_prev_hash = R[to + 1].prev

(* What a session that holds the lock is about to do. *)
Planned(R, p, w) ==
    /\ DOMAIN R = {} => w.insert.seq = 1
    /\ w.insert.seq = 1 => w.insert.prev = Genesis
    /\ w.delete # {} => p \in Purgers /\ PurgeRow(w.insert)
    /\ PurgeRow(w.insert) => MarksAll(R, w.insert.context, w.delete)

PurgeIsExact == \A p \in Procs : pc[p] = "open" => Planned(rows, p, work[p])

(* The oldest entry is the very first, or a marker explains what is gone. *)
Explained(R, s) ==
    \/ s = 1 /\ R[s].prev = Genesis
    \/ PurgeMarkerCoversGap(R, R[s])
    \/ AllPurgedBoundary(R[s], Genesis)
    \/ \E u \in DOMAIN R : Overtaken(R[u])

StartIsExplained == \A s \in DOMAIN rows : IsFirst(rows, s) => Explained(rows, s)

VerifyInv == ScanIsExact /\ PurgeIsExact /\ StartIsExplained


-----------------------------------------------------------------------------
(* What the lemmas need to know of numbers: sets of them have a least, and *)
(* a run of entries has as many as there are numbers in its range.  Both   *)
(* are proved at the end of the module, from the library.                  *)
NumberFacts ==
    /\ \A T \in SUBSET Nat : T # {} => \E x \in T : \A y \in T : x <= y
    /\ \A X : \A lo, hi \in Nat : Run(X, lo, hi) => Cardinality(X) = hi - lo + 1

LEMMA LeastNat ==
    ASSUME NumberFacts, NEW T, T \subseteq Nat, T # {}
    PROVE  \E x \in T : \A y \in T : x <= y
BY Zenon DEF NumberFacts

LEMMA GreatestNat ==
    ASSUME NumberFacts, NEW T, T \subseteq Nat, T # {}, NEW b \in Nat, \A x \in T : x <= b
    PROVE  \E x \in T : \A y \in T : y <= x
<1> DEFINE U == {b - x : x \in T}
<1>1. U \subseteq Nat /\ U # {}
  <2>1. \A x \in T : b - x \in Nat OBVIOUS
  <2> QED BY <2>1, Zenon
<1>2. PICK m \in U : \A y \in U : m <= y
  <2> HIDE DEF U
  <2> QED BY Zenon, <1>1, LeastNat
<1>3. PICK x \in T : m = b - x OBVIOUS
<1>4. ASSUME NEW y \in T PROVE y <= x
  <2>1. b - x <= b - y BY <1>2, <1>3, Zenon
  <2> QED BY <2>1
<1> QED BY <1>4

(* What a purge reads first is a run of entries: those up to hi. *)
LEMMA ExpiredRun ==
    ASSUME NumberFacts, Chain, RowsTyped, NEW cutoff \in Int, Expired(rows, cutoff) # {}
    PROVE  \E lo, hi \in Nat :
              /\ Run({rows[s] : s \in Expired(rows, cutoff)}, lo, hi)
              /\ hi \in DOMAIN rows
              /\ \A s \in DOMAIN rows : s <= hi <=> rows[s].time < cutoff
<1> DEFINE T == Expired(rows, cutoff)
           X == {rows[s] : s \in T}
<1>1. T \subseteq DOMAIN rows /\ T \subseteq Nat /\ T # {} /\ DOMAIN rows \subseteq Nat \ {0}
  BY DEF Expired, Chain
<1>2. PICK last \in DOMAIN rows : \A s \in DOMAIN rows : s <= last
  BY <1>1, Zenon DEF Chain, IsLast
<1>3. PICK lo \in T : \A s \in T : lo <= s
  <2> HIDE DEF T
  <2> QED BY <1>1, LeastNat
<1>4. PICK hi \in T : \A s \in T : s <= hi
  <2>1. last \in Nat /\ \A x \in T : x <= last BY <1>1, <1>2
  <2> HIDE DEF T
  <2> QED BY <1>1, <2>1, GreatestNat
<1>5. \A s \in DOMAIN rows : s <= hi <=> rows[s].time < cutoff
  <2>1. \A s, u \in DOMAIN rows : s <= u => rows[s].time <= rows[u].time BY DEF Chain
  <2>2. \A s \in DOMAIN rows : rows[s].time \in Int /\ (s \in T <=> rows[s].time < cutoff)
    BY Zenon DEF Expired, Chain
  <2> HIDE DEF T
  <2> QED BY <1>1, <1>4, <2>1, <2>2
<1>6. \A s \in lo .. hi : s \in T
  <2> SUFFICES ASSUME NEW s \in lo .. hi PROVE s \in T OBVIOUS
  <2>1. s \in DOMAIN rows BY <1>1 DEF Chain
  <2> QED BY <1>1, <1>5, <2>1 DEF Expired
<1>7. \A s \in T : rows[s].seq = s BY <1>1 DEF RowsTyped
<1>8. Run(X, lo, hi)
  <2> HIDE DEF T
  <2> QED BY <1>1, <1>3, <1>4, <1>6, <1>7 DEF Run
<1> QED BY Zenon, <1>1, <1>5, <1>8

(* The context of a marker, from a run. *)
LEMMA MarkerOfRun ==
    ASSUME NumberFacts, NEW sc, NEW lo \in Nat, NEW hi \in Nat, Run(sc.expired, lo, hi)
    PROVE  LET c == MarkerContext(sc) IN
           /\ c.purged_from_seq = lo /\ c.purged_to_seq = hi /\ c.last_retained_seq = hi
           /\ c.purged_count = hi - lo + 1
           /\ \E e \in sc.expired : e.seq = hi /\ c.last_retained_hash = e.hash
           /\ c.first_surviving_seq = IF sc.survivor = None THEN None ELSE sc.survivor.seq
           /\ c.first_surviving_prev_hash = IF sc.survivor = None THEN None ELSE sc.survivor.prev
<1> DEFINE X == sc.expired
           from == CHOOSE e \in X : \A f \in X : e.seq <= f.seq
           to == CHOOSE e \in X : \A f \in X : f.seq <= e.seq
           c == MarkerContext(sc)
<1>1. /\ lo <= hi /\ \A e \in X : e.seq \in lo .. hi
      /\ \A s \in lo .. hi : \E e \in X : e.seq = s
      /\ \A e, f \in X : e.seq = f.seq => e = f
  BY SMTT(30) DEF Run
<1>2. /\ c.purged_from_seq = from.seq /\ c.purged_to_seq = to.seq
      /\ c.purged_count = Cardinality(X)
      /\ c.last_retained_seq = to.seq /\ c.last_retained_hash = to.hash
      /\ c.first_surviving_seq = IF sc.survivor = None THEN None ELSE sc.survivor.seq
      /\ c.first_surviving_prev_hash = IF sc.survivor = None THEN None ELSE sc.survivor.prev
  BY Zenon DEF MarkerContext
<1> HIDE DEF X, c
<1>3. from \in X /\ from.seq = lo
  <2>1. PICK e \in X : e.seq = lo BY <1>1
  <2>2. \A f \in X : e.seq <= f.seq BY <1>1, <2>1
  <2>3. from \in X /\ \A f \in X : from.seq <= f.seq BY <2>2
  <2> HIDE DEF from
  <2> QED BY <1>1, <2>1, <2>3
<1>4. to \in X /\ to.seq = hi
  <2>1. PICK e \in X : e.seq = hi BY <1>1
  <2>2. \A f \in X : f.seq <= e.seq BY <1>1, <2>1
  <2>3. to \in X /\ \A f \in X : f.seq <= to.seq BY <2>2
  <2> HIDE DEF to
  <2> QED BY <1>1, <2>1, <2>3
<1>5. Cardinality(X) = hi - lo + 1
  <2>1. Run(X, lo, hi) BY DEF X
  <2> QED BY Zenon, <2>1 DEF NumberFacts
<1> HIDE DEF from, to
<1> QED BY <1>2, <1>3, <1>4, <1>5 DEF X, c


-----------------------------------------------------------------------------
(* The entry log() builds has its type. *)
LEMMA EntryTyped ==
    ASSUME Chain, RowsTyped, NEW a \in {"event", "verify", "purge"}, NEW c,
           NextSeq(rows) <= MaxSeq
    PROVE  /\ Row(NewEntry(rows, a, c))
           /\ NewEntry(rows, a, c).seq = NextSeq(rows)
           /\ NewEntry(rows, a, c).action = a /\ NewEntry(rows, a, c).context = c
<1> DEFINE e == NewEntry(rows, a, c)
<1>1. e.seq = NextSeq(rows) /\ e.time = clock /\ e.action = a /\ e.context = c
  BY DEF NewEntry
<1>2. e.seq \in Nat \ {0}
  <2>1. clock \in Int BY ChainAssumption DEF RowsTyped
  <2> QED BY <2>1, EntryContinues DEF Continues
<1> HIDE DEF e
<1>3. Row(e) BY <1>1, <1>2, ChainAssumption DEF Row, RowsTyped
<1> QED BY <1>1, <1>3 DEF e

LEMMA BeginRemoval ==
    ASSUME Inv, RemovalInv, NEW p \in Procs, NEW a \in {"event", "verify", "purge"}, NEW c, NEW D,
           holder = None, pc[p] # "open", NextSeq(rows) <= MaxSeq,
           Begin(p, NewEntry(rows, a, c), D), UNCHANGED <<rows, clock, scan>>,
           a = "purge" => /\ c.purged_to_seq \in Nat /\ c.purged_to_seq < NextSeq(rows)
                          /\ \A s \in DOMAIN rows \ D : c.purged_to_seq < s
    PROVE  RemovalInv'
<1> DEFINE e == NewEntry(rows, a, c)
<1>e. /\ Row(e) /\ e.seq = NextSeq(rows) /\ e.action = a /\ e.context = c /\ e.time = clock
  BY EntryTyped, Zenon DEF Inv, RemovalInv, NewEntry
<1>w. /\ pc' = [pc EXCEPT ![p] = "open"] /\ holder' = p
      /\ work' = [work EXCEPT ![p] = [insert |-> e, delete |-> D]]
  BY DEF Begin
<1> HIDE DEF e
<1>d. /\ DOMAIN pc = Procs /\ DOMAIN work = Procs
      /\ \A q \in Procs : pc[q] # "open"
      /\ \A q \in Procs \ {p} : pc'[q] = pc[q] /\ work'[q] = work[q]
      /\ pc'[p] = "open" /\ work'[p].insert = e /\ work'[p].delete = D
  BY <1>w, ChainAssumption DEF Inv, Shape
<1>1. RowsTyped'
  BY <1>w, <1>d, Zenon DEF RemovalInv, RowsTyped
<1>2. InsertTyped'
  <2> SUFFICES ASSUME NEW q \in Procs
               PROVE  /\ pc'[q] # "open" => work'[q] = NoWork
                      /\ pc'[q] = "open" => /\ Row(work'[q].insert)
                                            /\ work'[q].insert.time >= clock - Retention
    BY Zenon DEF InsertTyped
  <2>1. CASE q = p
    BY <1>d, <1>e, <2>1, ChainAssumption DEF RemovalInv, RowsTyped
  <2>2. CASE q # p BY <1>d, <2>2, Zenon DEF RemovalInv, InsertTyped
  <2> QED BY <2>1, <2>2
<1>3. PurgedIsGone'
  <2>1. \A u \in DOMAIN rows : MarkerClears(rows, rows[u])'
    BY DEF RemovalInv, PurgedIsGone, MarkerClears, PurgeRow
  <2>2. ASSUME NEW q \in Procs, pc'[q] = "open", PurgeRow(work'[q].insert)
        PROVE  /\ work'[q].insert.context.purged_to_seq \in Nat
               /\ work'[q].insert.context.purged_to_seq < work'[q].insert.seq
               /\ \A s \in DOMAIN rows \ work'[q].delete :
                     work'[q].insert.context.purged_to_seq < s
    <3>1. q = p BY <1>d, <2>2
    <3> QED BY <1>d, <1>e, <2>2, <3>1 DEF PurgeRow
  <2> QED BY <2>1, <2>2 DEF PurgedIsGone, PurgeRow
<1>4. ScanIsOld'
  <2> SUFFICES ASSUME NEW q \in Procs, pc'[q] \in {"survivor", "mark"}
               PROVE  \E lo, hi \in Nat :
                         /\ Run(scan[q].expired, lo, hi)
                         /\ \A s \in DOMAIN rows : s <= hi => rows[s].time < scan[q].cutoff
                         /\ \E s \in DOMAIN rows : hi <= s
    BY Zenon DEF ScanIsOld
  <2>1. pc[q] = pc'[q] BY <1>d
  <2> QED BY <2>1 DEF RemovalInv, ScanIsOld
<1> QED BY <1>1, <1>2, <1>3, <1>4, Zenon DEF RemovalInv

(* A transaction ends: the other sessions are where they were. *)
LEMMA EndSame ==
    ASSUME Shape, NEW p \in Procs, End(p)
    PROVE  /\ pc'[p] = "idle" /\ scan'[p] = NoScan /\ work'[p] = NoWork
           /\ \A q \in Procs \ {p} : pc'[q] = pc[q] /\ scan'[q] = scan[q] /\ work'[q] = work[q]
           /\ holder' \in {holder, None}
BY DEF Shape, End

LEMMA CommitRemoval ==
    ASSUME Inv, RemovalInv, NEW p \in Procs, Commit(p)
    PROVE  RemovalInv'
<1> DEFINE e == work[p].insert
           D == work[p].delete
<1>r. /\ DOMAIN rows' = (DOMAIN rows \ D) \cup {e.seq}
      /\ rows'[e.seq] = e
      /\ \A s \in DOMAIN rows' : s # e.seq => rows'[s] = rows[s]
      /\ \A s \in DOMAIN rows : s < e.seq
  BY Zenon, CommitRows
<1>c. pc[p] = "open" /\ clock' = clock /\ End(p) BY DEF Commit
<1>s. /\ pc'[p] = "idle" /\ scan'[p] = NoScan /\ work'[p] = NoWork
      /\ \A q \in Procs \ {p} : pc'[q] = pc[q] /\ scan'[q] = scan[q] /\ work'[q] = work[q]
      /\ holder' \in {holder, None}
  BY <1>c, EndSame DEF Inv
<1>o. \A q \in Procs \ {p} : pc[q] # "open" BY <1>c DEF Inv, Shape
<1>e. /\ Row(e) /\ e.seq \in Nat /\ DOMAIN rows \subseteq Nat
      /\ PurgeRow(e) => /\ e.context.purged_to_seq \in Nat /\ e.context.purged_to_seq < e.seq
                        /\ \A s \in DOMAIN rows \ D : e.context.purged_to_seq < s
  BY <1>c, ChainAssumption DEF RemovalInv, InsertTyped, PurgedIsGone, Row, Inv, Chain
<1> HIDE DEF e, D
<1>1. RowsTyped'
  <2>1. \A s \in DOMAIN rows' : Row(rows'[s]) /\ rows'[s].seq = s
    BY <1>r, <1>e DEF RemovalInv, RowsTyped
  <2>2. \A q \in Procs : /\ pc'[q] \in {"idle", "survivor", "mark", "open"}
                         /\ \A f \in scan'[q].expired : Row(f)
    BY <1>s DEF RemovalInv, RowsTyped, NoScan
  <2>3. clock' \in 0 .. MaxTime /\ holder' \in Procs \cup {None}
    BY <1>c, <1>s DEF RemovalInv, RowsTyped
  <2> QED BY <2>1, <2>2, <2>3 DEF RowsTyped, Row
<1>2. InsertTyped'
  BY <1>s, <1>o DEF RemovalInv, InsertTyped, Row
<1>3. PurgedIsGone'
  <2>1. ASSUME NEW u \in DOMAIN rows', PurgeRow(rows'[u])
        PROVE  /\ rows'[u].context.purged_to_seq \in Nat
               /\ \A s \in DOMAIN rows' : rows'[u].context.purged_to_seq < s
    <3>1. CASE u = e.seq BY <1>r, <1>e, <2>1, <3>1
    <3>2. CASE u # e.seq
      <4>1. u \in DOMAIN rows /\ rows'[u] = rows[u] BY <1>r, <3>2
      <4>2. /\ rows[u].context.purged_to_seq \in Nat
            /\ \A s \in DOMAIN rows : rows[u].context.purged_to_seq < s
        BY <2>1, <4>1 DEF RemovalInv, PurgedIsGone, MarkerClears
      <4>3. rows[u].context.purged_to_seq < e.seq
        BY <1>r, <1>e, <4>1, <4>2
      <4> QED BY <1>r, <4>1, <4>2, <4>3
    <3> QED BY <3>1, <3>2
  <2>2. \A q \in Procs : pc'[q] # "open" BY <1>s, <1>o
  <2> QED BY <2>1, <2>2 DEF PurgedIsGone, MarkerClears, PurgeRow
<1>4. ScanIsOld'
  <2> SUFFICES ASSUME NEW q \in Procs, pc'[q] \in {"survivor", "mark"}
               PROVE  \E lo, hi \in Nat :
                         /\ Run(scan'[q].expired, lo, hi)
                         /\ \A s \in DOMAIN rows' : s <= hi => rows'[s].time < scan'[q].cutoff
                         /\ \E s \in DOMAIN rows' : hi <= s
    BY DEF ScanIsOld, Run
  <2>1. pc[q] = pc'[q] /\ scan'[q] = scan[q] BY <1>s
  <2>2. PICK lo \in Nat, hi \in Nat :
           /\ Run(scan[q].expired, lo, hi)
           /\ \A s \in DOMAIN rows : s <= hi => rows[s].time < scan[q].cutoff
           /\ \E s \in DOMAIN rows : hi <= s
    BY <2>1 DEF RemovalInv, ScanIsOld
  <2>3. hi < e.seq BY <1>r, <1>e, <2>2
  <2>4. \A s \in DOMAIN rows' : s <= hi => rows'[s].time < scan'[q].cutoff
    BY <1>r, <1>e, <2>1, <2>2, <2>3
  <2>5. \E s \in DOMAIN rows' : hi <= s BY <1>r, <1>e, <2>3
  <2> QED BY <2>1, <2>2, <2>4, <2>5
<1> QED BY <1>1, <1>2, <1>3, <1>4 DEF RemovalInv


LEMMA ReadExpiredRemoval ==
    ASSUME NumberFacts, Inv, RemovalInv, NEW p \in Procs, PurgeReadExpired(p)
    PROVE  RemovalInv'
<1> DEFINE cutoff == clock - Retention
           X == {rows[s] : s \in Expired(rows, cutoff)}
<1>c. cutoff \in Int BY ChainAssumption DEF Inv, Cutoffs
<1>s. /\ UNCHANGED <<rows, clock, holder, work>>
      /\ Expired(rows, cutoff) # {}
      /\ pc[p] = "idle" /\ pc'[p] = "survivor"
      /\ scan'[p].cutoff = cutoff /\ scan'[p].expired = X
      /\ \A q \in Procs \ {p} : pc'[q] = pc[q] /\ scan'[q] = scan[q]
  BY DEF PurgeReadExpired, Inv, Shape
<1> HIDE DEF cutoff
<1>x. \A f \in X : Row(f) BY DEF Expired, RemovalInv, RowsTyped
<1>r. PICK lo \in Nat, hi \in Nat :
          /\ Run(X, lo, hi) /\ hi \in DOMAIN rows
          /\ \A s \in DOMAIN rows : s <= hi <=> rows[s].time < cutoff
  BY Zenon, <1>c, <1>s, ExpiredRun DEF Inv, RemovalInv
<1> HIDE DEF X
<1>1. RowsTyped'
  BY <1>s, <1>x, Zenon DEF RemovalInv, RowsTyped
<1>2. InsertTyped'
  BY <1>s, Zenon DEF RemovalInv, InsertTyped
<1>3. PurgedIsGone'
  BY <1>s, Zenon DEF RemovalInv, PurgedIsGone
<1>4. ScanIsOld'
  <2> SUFFICES ASSUME NEW q \in Procs, pc'[q] \in {"survivor", "mark"}
               PROVE  \E l, h \in Nat :
                         /\ Run(scan'[q].expired, l, h)
                         /\ \A s \in DOMAIN rows : s <= h => rows[s].time < scan'[q].cutoff
                         /\ \E s \in DOMAIN rows : h <= s
    BY <1>s, Zenon DEF ScanIsOld
  <2>1. CASE q = p
    <3>1. hi <= hi OBVIOUS
    <3> QED BY <1>s, <1>r, <2>1, <3>1
  <2>2. CASE q # p BY <1>s, <2>2 DEF RemovalInv, ScanIsOld
  <2> QED BY <2>1, <2>2
<1> QED BY <1>1, <1>2, <1>3, <1>4 DEF RemovalInv

LEMMA ReadSurvivorRemoval ==
    ASSUME Inv, RemovalInv, NEW p \in Procs, PurgeReadSurvivor(p)
    PROVE  RemovalInv'
<1>s. /\ UNCHANGED <<rows, clock, holder, work>>
      /\ pc[p] = "survivor" /\ pc'[p] = "mark"
      /\ \A q \in Procs : scan'[q].cutoff = scan[q].cutoff /\ scan'[q].expired = scan[q].expired
      /\ \A q \in Procs \ {p} : pc'[q] = pc[q]
  BY DEF PurgeReadSurvivor, Inv, Shape
<1>1. RowsTyped'
  BY <1>s, Zenon DEF RemovalInv, RowsTyped
<1>2. InsertTyped'
  BY <1>s, Zenon DEF RemovalInv, InsertTyped
<1>3. PurgedIsGone'
  BY <1>s, Zenon DEF RemovalInv, PurgedIsGone
<1>4. ScanIsOld'
  <2> SUFFICES ASSUME NEW q \in Procs, pc'[q] \in {"survivor", "mark"}
               PROVE  \E l, h \in Nat :
                         /\ Run(scan[q].expired, l, h)
                         /\ \A s \in DOMAIN rows : s <= h => rows[s].time < scan[q].cutoff
                         /\ \E s \in DOMAIN rows : h <= s
    BY <1>s DEF ScanIsOld, Run
  <2>1. pc[q] \in {"survivor", "mark"} BY <1>s
  <2> QED BY <2>1 DEF RemovalInv, ScanIsOld
<1> QED BY <1>1, <1>2, <1>3, <1>4 DEF RemovalInv

LEMMA MarkRemoval ==
    ASSUME NumberFacts, Inv, RemovalInv, NEW p \in Procs, PurgeMarkAndDelete(p)
    PROVE  RemovalInv'
<1> DEFINE c == MarkerContext(scan[p])
           D == PurgeDeletes(p)
<1>1. /\ pc[p] = "mark" /\ holder = None /\ NextSeq(rows) <= MaxSeq
      /\ Begin(p, NewEntry(rows, "purge", c), D) /\ UNCHANGED <<rows, clock, scan>>
  BY DEF PurgeMarkAndDelete
<1>2. PICK lo \in Nat, hi \in Nat :
         /\ Run(scan[p].expired, lo, hi)
         /\ \A s \in DOMAIN rows : s <= hi => rows[s].time < scan[p].cutoff
         /\ \E s \in DOMAIN rows : hi <= s
  BY <1>1 DEF RemovalInv, ScanIsOld
<1>3. c.purged_to_seq = hi BY <1>2, MarkerOfRun
<1>4. hi < NextSeq(rows)
  <2> DEFINE e == NewEntry(rows, "purge", c)
  <2>1. Continues(rows, e) /\ e.seq = NextSeq(rows)
    BY EntryContinues, Zenon DEF Inv, Cutoffs, NewEntry
  <2> HIDE DEF e
  <2> QED BY <1>2, <2>1, SMTT(30) DEF Continues, Inv, Chain
<1>5. \A s \in DOMAIN rows \ D : hi < s
  BY <1>2 DEF PurgeDeletes, Expired, Inv, Chain
<1> HIDE DEF c, D
<1> QED BY <1>1, <1>3, <1>4, <1>5, BeginRemoval

LEMMA RollbackRemoval ==
    ASSUME Inv, RemovalInv, NEW p \in Procs, Rollback(p)
    PROVE  RemovalInv'
<1>s. /\ pc'[p] = "idle" /\ scan'[p] = NoScan /\ work'[p] = NoWork
      /\ \A q \in Procs \ {p} : pc'[q] = pc[q] /\ scan'[q] = scan[q] /\ work'[q] = work[q]
      /\ holder' \in {holder, None} /\ rows' = rows /\ clock' = clock
  BY EndSame DEF Inv, Rollback
<1>1. RowsTyped'
  <2>1. scan'[p].expired = {} BY <1>s DEF NoScan
  <2>2. \A q \in Procs : \A e \in scan'[q].expired : Row(e)
    BY <1>s, <2>1, Zenon DEF RemovalInv, RowsTyped
  <2>3. \A q \in Procs : pc'[q] \in {"idle", "survivor", "mark", "open"}
    BY <1>s, Zenon DEF RemovalInv, RowsTyped
  <2>4. holder' \in Procs \cup {None} BY <1>s, Zenon DEF RemovalInv, RowsTyped
  <2> QED BY <1>s, <2>2, <2>3, <2>4, Zenon DEF RemovalInv, RowsTyped
<1>2. InsertTyped'
  BY <1>s, Zenon DEF RemovalInv, InsertTyped
<1>3. PurgedIsGone'
  BY <1>s, Zenon DEF RemovalInv, PurgedIsGone
<1>4. ScanIsOld'
  BY <1>s, Zenon DEF RemovalInv, ScanIsOld
<1> QED BY <1>1, <1>2, <1>3, <1>4 DEF RemovalInv

LEMMA TickRemoval ==
    ASSUME Inv, RemovalInv, Tick
    PROVE  RemovalInv'
<1>s. /\ rows' = rows /\ holder' = holder /\ pc' = pc /\ scan' = scan /\ work' = work
      /\ clock' = clock + 1 /\ clock < MaxTime
  BY DEF Tick
<1>1. RowsTyped'
  BY <1>s, ChainAssumption DEF RemovalInv, RowsTyped, Row
<1>2. InsertTyped'
  <2>1. ASSUME NEW q \in Procs, pc[q] = "open"
        PROVE  work[q].insert.time >= clock + 1 - Retention
    <3>1. work[q].insert.time \in Int /\ work[q].insert.time + Retention > clock
      BY <2>1, ChainAssumption DEF Tick, RemovalInv, InsertTyped, Row
    <3> QED BY <3>1, ChainAssumption DEF RemovalInv, RowsTyped
  <2>2. \A q \in Procs : /\ pc[q] # "open" => work[q] = NoWork
                         /\ pc[q] = "open" => Row(work[q].insert)
    BY DEF RemovalInv, InsertTyped
  <2> SUFFICES ASSUME NEW q \in Procs
               PROVE  /\ pc'[q] # "open" => work'[q] = NoWork
                      /\ pc'[q] = "open" => /\ Row(work'[q].insert)
                                            /\ work'[q].insert.time >= clock' - Retention
    BY Zenon DEF InsertTyped
  <2>3. work'[q] = work[q] /\ pc'[q] = pc[q] /\ clock' - Retention = clock + 1 - Retention
    BY <1>s, ChainAssumption DEF RemovalInv, RowsTyped
  <2>4. CASE pc[q] = "open"
    <3>1. work[q].insert.time >= clock' - Retention BY <2>1, <2>3, <2>4
    <3>2. Row(work'[q].insert) BY <2>2, <2>3, <2>4, Zenon
    <3> QED BY <2>3, <2>4, <3>1, <3>2
  <2> QED BY <2>2, <2>3, <2>4
<1>3. PurgedIsGone'
  BY <1>s, Zenon DEF RemovalInv, PurgedIsGone
<1>4. ScanIsOld'
  BY <1>s, Zenon DEF RemovalInv, ScanIsOld
<1> QED BY <1>1, <1>2, <1>3, <1>4 DEF RemovalInv

LEMMA InitRemoval == Init => RemovalInv
BY ChainAssumption
   DEF Init, RemovalInv, RowsTyped, InsertTyped, PurgedIsGone, ScanIsOld, NoScan

LEMMA NextRemoval ==
    ASSUME NumberFacts
    PROVE  Inv /\ RemovalInv /\ [Next]_vars => RemovalInv'
<1> SUFFICES ASSUME Inv, RemovalInv, [Next]_vars PROVE RemovalInv'
  OBVIOUS
<1>1. ASSUME NEW p \in Writers, Log(p) PROVE RemovalInv'
  BY <1>1, BeginRemoval DEF Log, Procs
<1>2. ASSUME NEW p \in Auditors, Verify(p) PROVE RemovalInv'
  BY <1>2, BeginRemoval DEF Verify, Procs
<1>3. ASSUME NEW p \in Purgers,
             PurgeReadExpired(p) \/ PurgeReadSurvivor(p) \/ PurgeMarkAndDelete(p)
      PROVE  RemovalInv'
  BY <1>3, ReadExpiredRemoval, ReadSurvivorRemoval, MarkRemoval DEF Procs
<1>4. ASSUME NEW p \in Procs, Commit(p) \/ Rollback(p) PROVE RemovalInv'
  BY <1>4, CommitRemoval, RollbackRemoval
<1>5. CASE Tick BY <1>5, TickRemoval
<1>6. CASE UNCHANGED vars
  <2>1. RowsTyped' BY <1>6 DEF vars, RemovalInv, RowsTyped, Row
  <2>2. InsertTyped' BY <1>6, Zenon DEF vars, RemovalInv, InsertTyped
  <2>3. PurgedIsGone' BY <1>6 DEF vars, RemovalInv, PurgedIsGone, MarkerClears, PurgeRow
  <2>4. ScanIsOld' BY <1>6 DEF vars, RemovalInv, ScanIsOld, Run
  <2> QED BY <2>1, <2>2, <2>3, <2>4 DEF RemovalInv
<1> QED BY <1>1, <1>2, <1>3, <1>4, <1>5, <1>6 DEF Next, PurgeNothing

(* The entry after the one that is gone names its hash, and no marker of a *)
(* purge covers that gap.                                                  *)
LEMMA Detects == Inv /\ RemovalInv => RemovalIsDetected
<1> SUFFICES ASSUME Inv, RemovalInv, NEW s \in DOMAIN rows, ~IsLast(rows, s)
             PROVE  ~Verified([u \in DOMAIN rows \ {s} |-> rows[u]])
  BY DEF RemovalIsDetected
<1> DEFINE R == [u \in DOMAIN rows \ {s} |-> rows[u]]
           n == s + 1
           e == rows[n]
<1>1. DOMAIN rows \subseteq Nat \ {0} BY DEF Inv, Chain
<1>2. n \in DOMAIN rows
  <2>1. PICK u \in DOMAIN rows : ~(u <= s) BY DEF IsLast
  <2>2. n \in s .. u BY <1>1, <2>1, SMTT(30)
  <2> QED BY <2>1, <2>2 DEF Inv, Chain
<1>3. e.prev = RowHash(rows[s]) /\ rows[s].seq = s /\ e.seq = n
  BY <1>2 DEF Inv, Chain, RemovalInv, RowsTyped
<1>4. DOMAIN R = DOMAIN rows \ {s} /\ n \in DOMAIN R /\ R[n] = e
      /\ \A u \in DOMAIN R : R[u] = rows[u]
  BY <1>1, <1>2
<1>5. e.prev # ExpectedPrev(R, n)
  <2>1. CASE IsFirst(R, n)
    BY <1>3, <2>1, SMTT(30) DEF ExpectedPrev, Genesis, RowHash
  <2>2. CASE ~IsFirst(R, n)
    <3> DEFINE v == CHOOSE u \in DOMAIN R : u < n /\ \A w \in DOMAIN R : w < n => w <= u
    <3>1. PICK u \in DOMAIN R : u < n BY <1>1, <1>2, <1>4, <2>2 DEF IsFirst
    <3>2. s - 1 \in DOMAIN rows
      <4>1. u \in DOMAIN rows /\ s - 1 \in u .. s BY <1>1, <1>4, <3>1
      <4> QED BY <4>1 DEF Inv, Chain
    <3>3. s - 1 \in DOMAIN R /\ s - 1 < n /\ \A w \in DOMAIN R : w < n => w <= s - 1
      BY <1>1, <1>4, <3>2
    <3>4. v \in DOMAIN R /\ v < n BY <3>3
    <3>5. ExpectedPrev(R, n) = R[v].hash BY <2>2 DEF ExpectedPrev
    <3> HIDE DEF v
    <3>6. R[v].hash = RowHash(rows[v]) /\ rows[v].seq = v /\ v # s
      BY <1>4, <3>4 DEF Inv, Chain, RemovalInv, RowsTyped
    <3> QED BY <1>3, <3>5, <3>6 DEF RowHash
  <2> QED BY <2>1, <2>2
<1>6. ~PurgeMarkerCoversGap(R, e)
  <2> SUFFICES ASSUME NEW u \in DOMAIN R, PurgeRow(R[u]), MarkerMatchesGap(e, R[u]) PROVE FALSE
    BY Zenon DEF PurgeMarkerCoversGap, MarkersFor
  <2>1. rows[u].context.purged_to_seq = s
    BY <1>1, <1>3, <1>4 DEF MarkerMatchesGap
  <2>2. rows[u].context.purged_to_seq < s
    BY <1>4 DEF RemovalInv, PurgedIsGone, MarkerClears
  <2> QED BY <1>1, <2>1, <2>2
<1>7. ~AllPurgedBoundary(e, ExpectedPrev(R, n))
  <2> SUFFICES ASSUME PurgeRow(e), e.seq = e.context.purged_to_seq + 1 PROVE FALSE
    BY DEF AllPurgedBoundary
  <2>1. e.context.purged_to_seq \in Nat /\ e.context.purged_to_seq < s
    BY <1>2 DEF RemovalInv, PurgedIsGone, MarkerClears
  <2> QED BY <1>1, <1>3, <2>1
<1>8. SUFFICES ASSUME Verified(R) PROVE FALSE OBVIOUS
<1>9. ~Broken(R, n) BY <1>4, <1>8 DEF Verified
<1> HIDE DEF R, e
<1> QED BY <1>4, <1>5, <1>6, <1>7, <1>9 DEF Broken


-----------------------------------------------------------------------------
(* With one purge at a time. *)

(* Steps that leave the log alone. *)
LEMMA StartSame ==
    ASSUME StartIsExplained, rows' = rows
    PROVE  StartIsExplained'
BY Zenon DEF StartIsExplained

(* Steps that leave the open transactions alone. *)
LEMMA OpenSame ==
    ASSUME PurgeIsExact, rows' = rows,
           \A q \in Procs : pc'[q] = "open" => pc[q] = "open" /\ work'[q] = work[q]
    PROVE  PurgeIsExact'
BY Zenon DEF PurgeIsExact

(* Steps that leave what the purges have read alone, but for that of p. *)
LEMMA ScanSame ==
    ASSUME ScanIsExact, rows' = rows, NEW p,
           \A q \in Procs \ {p} : pc'[q] \in {"survivor", "mark"} =>
               pc'[q] = pc[q] /\ scan'[q] = scan[q],
           p \in Procs /\ pc'[p] \in {"survivor", "mark"} =>
               p \in Purgers /\ Exact(rows, scan'[p], pc'[p])
    PROVE  ScanIsExact'
<1> SUFFICES ASSUME NEW q \in Procs, pc'[q] \in {"survivor", "mark"}
             PROVE  q \in Purgers /\ Exact(rows, scan'[q], pc'[q])
  BY Zenon DEF ScanIsExact
<1>1. CASE q = p BY <1>1, Zenon
<1>2. CASE q # p
  <2>1. pc'[q] = pc[q] /\ scan'[q] = scan[q] BY <1>2, Zenon
  <2> QED BY <2>1, Zenon DEF ScanIsExact
<1> QED BY <1>1, <1>2

LEMMA BeginVerify ==
    ASSUME Inv, VerifyInv, NEW p \in Procs, NEW a \in {"event", "verify"}, NEW c,
           holder = None, Begin(p, NewEntry(rows, a, c), {}), UNCHANGED <<rows, clock, scan>>
    PROVE  VerifyInv'
<1> DEFINE e == NewEntry(rows, a, c)
<1>e. e.action # "purge" /\ e.seq = NextSeq(rows) /\ (e.seq = 1 => e.prev = Genesis)
  BY DEF NewEntry
<1>w. /\ pc' = [pc EXCEPT ![p] = "open"]
      /\ work' = [work EXCEPT ![p] = [insert |-> e, delete |-> {}]]
  BY DEF Begin
<1> HIDE DEF e
<1>d. /\ \A q \in Procs \ {p} : pc'[q] = pc[q] /\ pc[q] # "open"
      /\ pc'[p] = "open" /\ work'[p].insert = e /\ work'[p].delete = {}
  BY <1>w, ChainAssumption DEF Inv, Shape
<1>u. rows' = rows /\ scan' = scan OBVIOUS
<1>1. ScanIsExact'
  <2>1. pc'[p] \notin {"survivor", "mark"} BY <1>d
  <2> QED BY <1>d, <1>u, <2>1, ScanSame, Zenon DEF VerifyInv
<1>2. PurgeIsExact'
  <2>1. DOMAIN rows = {} => e.seq = 1 BY <1>e DEF NextSeq, LastSeq
  <2>2. Planned(rows, p, work'[p]) BY <1>d, <1>e, <2>1 DEF Planned, PurgeRow
  <2>3. \A q \in Procs : pc'[q] = "open" => q = p BY <1>d, Zenon
  <2> QED BY <1>u, <2>2, <2>3, Zenon DEF PurgeIsExact
<1>3. StartIsExplained' BY <1>u, StartSame, Zenon DEF VerifyInv
<1> QED BY <1>1, <1>2, <1>3, Zenon DEF VerifyInv

LEMMA ReadExpiredVerify ==
    ASSUME Inv, VerifyInv, NEW p \in Purgers, PurgeReadExpired(p)
    PROVE  VerifyInv'
<1>p. p \in Procs BY DEF Procs
<1>s. /\ rows' = rows /\ work' = work
      /\ pc'[p] = "survivor"
      /\ scan'[p].expired = {rows[s] : s \in Expired(rows, scan'[p].cutoff)}
      /\ \A q \in Procs \ {p} : pc'[q] = pc[q] /\ scan'[q] = scan[q]
  BY <1>p DEF PurgeReadExpired, Inv, Shape
<1>1. ScanIsExact'
  <2>1. pc'[p] # "mark" BY <1>s
  <2>2. Exact(rows, scan'[p], pc'[p]) BY <1>s, <2>1, Zenon DEF Exact
  <2> QED BY <1>s, <2>2, ScanSame, Zenon DEF VerifyInv
<1>2. PurgeIsExact'
  <2>1. pc'[p] # "open" BY <1>s
  <2> QED BY <1>s, <2>1, OpenSame, Zenon DEF VerifyInv
<1>3. StartIsExplained' BY <1>s, StartSame, Zenon DEF VerifyInv
<1> QED BY <1>1, <1>2, <1>3, Zenon DEF VerifyInv

LEMMA ReadSurvivorVerify ==
    ASSUME NumberFacts, Inv, VerifyInv, NEW p \in Procs, PurgeReadSurvivor(p)
    PROVE  VerifyInv'
<1> DEFINE live == Survivors(rows, scan[p].cutoff)
<1>s. /\ rows' = rows /\ work' = work
      /\ pc[p] = "survivor" /\ pc'[p] = "mark"
      /\ scan'[p].expired = scan[p].expired /\ scan'[p].cutoff = scan[p].cutoff
      /\ scan'[p].survivor = IF live = {} THEN None
                             ELSE rows[CHOOSE s \in live : \A u \in live : s <= u]
      /\ \A q \in Procs \ {p} : pc'[q] = pc[q] /\ scan'[q] = scan[q]
  BY DEF PurgeReadSurvivor, Inv, Shape
<1>l. live # {} => \E n \in live : scan'[p].survivor = rows[n] /\ \A s \in live : n <= s
  <2> SUFFICES ASSUME live # {}
               PROVE  \E n \in live : scan'[p].survivor = rows[n] /\ \A s \in live : n <= s
    OBVIOUS
  <2>1. live \subseteq Nat BY DEF Survivors, Inv, Chain
  <2> DEFINE n == CHOOSE s \in live : \A u \in live : s <= u
  <2>2. scan'[p].survivor = rows[n] BY <1>s
  <2> HIDE DEF live
  <2>3. \E s \in live : \A u \in live : s <= u BY Zenon, <2>1, LeastNat
  <2>4. n \in live /\ \A u \in live : n <= u BY <2>3, Zenon
  <2> QED BY Zenon, <2>2, <2>4
<1>1. ScanIsExact'
  <2>1. pc[p] \in {"survivor", "mark"} /\ (scan'[p].survivor # None => live # {}) BY <1>s
  <2>2. p \in Purgers /\ Exact(rows, scan[p], pc[p])
    BY <2>1, Zenon DEF VerifyInv, ScanIsExact
  <2>3. Survivors(rows, scan'[p].cutoff) = live
        /\ Expired(rows, scan'[p].cutoff) = Expired(rows, scan[p].cutoff)
    BY <1>s, Zenon
  <2> HIDE DEF live
  <2>4. Exact(rows, scan'[p], pc'[p])
    BY <1>s, <1>l, <2>1, <2>2, <2>3, Zenon DEF Exact
  <2> QED BY <1>s, <2>2, <2>4, ScanSame, Zenon DEF VerifyInv
<1>2. PurgeIsExact'
  <2>1. pc'[p] # "open" BY <1>s
  <2> QED BY <1>s, <2>1, OpenSame, Zenon DEF VerifyInv
<1>3. StartIsExplained' BY <1>s, StartSame, Zenon DEF VerifyInv
<1> QED BY <1>1, <1>2, <1>3, Zenon DEF VerifyInv

(* What the marker of a lone purge says. *)
LEMMA MarkerIsExact ==
    ASSUME NumberFacts, Inv, RemovalInv, VerifyInv, NEW p \in Procs, pc[p] = "mark"
    PROVE  MarksAll(rows, MarkerContext(scan[p]), PurgeDeletes(p))
<1> DEFINE c == MarkerContext(scan[p])
           cutoff == scan[p].cutoff
           X == {rows[s] : s \in Expired(rows, cutoff)}
<1>1. scan[p].expired = X /\ cutoff \in Int BY DEF VerifyInv, ScanIsExact, Exact, Inv, Cutoffs
<1>2. Expired(rows, cutoff) # {}
  <2>1. PICK lo \in Nat, hi \in Nat : Run(scan[p].expired, lo, hi)
    BY DEF RemovalInv, ScanIsOld
  <2>2. scan[p].expired # {} BY <2>1 DEF Run
  <2> QED BY <1>1, <2>2
<1> HIDE DEF cutoff
<1>3. PICK lo \in Nat, hi \in Nat :
         /\ Run(X, lo, hi) /\ hi \in DOMAIN rows
         /\ \A s \in DOMAIN rows : s <= hi <=> rows[s].time < cutoff
  BY Zenon, <1>1, <1>2, ExpiredRun DEF Inv, RemovalInv
<1>4. /\ c.purged_from_seq = lo /\ c.purged_to_seq = hi /\ c.last_retained_seq = hi
      /\ c.purged_count = hi - lo + 1
      /\ \E e \in scan[p].expired : e.seq = hi /\ c.last_retained_hash = e.hash
      /\ c.first_surviving_seq = IF scan[p].survivor = None THEN None ELSE scan[p].survivor.seq
      /\ c.first_surviving_prev_hash = IF scan[p].survivor = None THEN None
                                       ELSE scan[p].survivor.prev
  <2>1. Run(scan[p].expired, lo, hi) BY <1>1, <1>3
  <2> QED BY <2>1, MarkerOfRun
<1> HIDE DEF c
<1>5. RangeIsConsistent(c) BY <1>3, <1>4 DEF RangeIsConsistent, Run
<1>6. PurgeDeletes(p) = {s \in DOMAIN rows : s <= hi}
  BY <1>3 DEF PurgeDeletes, Expired, cutoff
<1>7. c.last_retained_hash = rows[hi].hash
  <2>1. PICK e \in X : e.seq = hi /\ c.last_retained_hash = e.hash BY <1>1, <1>4
  <2>2. PICK s \in DOMAIN rows : e = rows[s] BY DEF Expired
  <2>3. s = hi BY <2>1, <2>2 DEF RemovalInv, RowsTyped
  <2> QED BY <2>1, <2>2, <2>3
<1>8. \/ c.first_surviving_seq = None /\ c.first_surviving_prev_hash = None
      \/ /\ hi + 1 \in DOMAIN rows
         /\ c.first_surviving_seq = hi + 1
         /\ c.first_surviving_prev_hash = rows[hi + 1].prev
  <2>1. CASE scan[p].survivor = None BY <1>4, <2>1
  <2>2. CASE scan[p].survivor # None
    <3>1. PICK n \in Survivors(rows, cutoff) :
             /\ scan[p].survivor = rows[n]
             /\ \A s \in Survivors(rows, cutoff) : n <= s
      BY <2>2 DEF VerifyInv, ScanIsExact, Exact, cutoff
    <3>2. n \in DOMAIN rows /\ n \in Nat /\ rows[n].time \in Int /\ rows[n].time >= cutoff
      BY DEF Survivors, Inv, Chain
    <3>3. hi < n BY <1>1, <1>3, <3>2
    <3>4. hi + 1 \in DOMAIN rows
      <4>1. hi + 1 \in hi .. n BY <3>2, <3>3
      <4> QED BY <1>3, <3>2, <4>1 DEF Inv, Chain
    <3>5. rows[hi + 1].time \in Int /\ ~(hi + 1 <= hi) BY <3>4 DEF Inv, Chain
    <3>6. hi + 1 \in Survivors(rows, cutoff)
      BY <1>1, <1>3, <3>4, <3>5 DEF Survivors
    <3>7. n = hi + 1 BY <3>1, <3>2, <3>3, <3>6
    <3>8. rows[n].seq = n BY <3>2 DEF RemovalInv, RowsTyped
    <3> QED BY <1>4, <2>2, <3>1, <3>4, <3>7, <3>8
  <2> QED BY <2>1, <2>2
<1> QED BY <1>3, <1>4, <1>5, <1>6, <1>7, <1>8, Zenon DEF c, MarksAll


LEMMA MarkVerify ==
    ASSUME NumberFacts, Inv, RemovalInv, VerifyInv, NEW p \in Purgers, PurgeMarkAndDelete(p)
    PROVE  VerifyInv'
<1> DEFINE c == MarkerContext(scan[p])
           e == NewEntry(rows, "purge", c)
           D == PurgeDeletes(p)
<1>p. p \in Procs BY DEF Procs
<1>1. /\ pc[p] = "mark" /\ holder = None /\ Begin(p, e, D) /\ rows' = rows /\ scan' = scan
  BY Zenon DEF PurgeMarkAndDelete
<1>c. MarksAll(rows, c, D) BY <1>p, <1>1, MarkerIsExact, Zenon
<1> HIDE DEF c, D
<1>e. e.context = c /\ e.seq = NextSeq(rows) /\ (e.seq = 1 => e.prev = Genesis) /\ PurgeRow(e)
  BY DEF NewEntry, PurgeRow
<1> HIDE DEF e
<1>d. /\ \A q \in Procs \ {p} : pc'[q] = pc[q] /\ pc[q] # "open"
      /\ pc'[p] = "open" /\ work'[p].insert = e /\ work'[p].delete = D
  BY <1>p, <1>1, ChainAssumption DEF Begin, Inv, Shape
<1>2. ScanIsExact'
  <2>1. pc'[p] \notin {"survivor", "mark"} BY <1>d
  <2> QED BY <1>1, <1>d, <2>1, ScanSame, Zenon DEF VerifyInv
<1>3. PurgeIsExact'
  <2>1. DOMAIN rows # {} BY <1>c, Zenon DEF MarksAll
  <2>2. Planned(rows, p, work'[p]) BY <1>c, <1>d, <1>e, <2>1, Zenon DEF Planned
  <2>3. \A q \in Procs : pc'[q] = "open" => q = p BY <1>d, Zenon
  <2> QED BY <1>1, <2>2, <2>3, Zenon DEF PurgeIsExact
<1>4. StartIsExplained' BY <1>1, StartSame, Zenon DEF VerifyInv
<1> QED BY <1>2, <1>3, <1>4, Zenon DEF VerifyInv

(* Ending a transaction that did not change the log. *)
LEMMA RollbackVerify ==
    ASSUME Inv, VerifyInv, NEW p \in Procs, Rollback(p)
    PROVE  VerifyInv'
<1>s. /\ pc'[p] = "idle" /\ rows' = rows
      /\ \A q \in Procs \ {p} : pc'[q] = pc[q] /\ scan'[q] = scan[q] /\ work'[q] = work[q]
  BY EndSame DEF Inv, Rollback
<1>t. pc'[p] \notin {"survivor", "mark"} /\ pc'[p] # "open" BY <1>s
<1>1. ScanIsExact' BY <1>s, <1>t, ScanSame, Zenon DEF VerifyInv
<1>2. PurgeIsExact' BY <1>s, <1>t, OpenSame, Zenon DEF VerifyInv
<1>3. StartIsExplained' BY <1>s, StartSame, Zenon DEF VerifyInv
<1> QED BY <1>1, <1>2, <1>3, Zenon DEF VerifyInv

LEMMA QuietVerify ==
    ASSUME VerifyInv, UNCHANGED <<rows, pc, scan, work>>
    PROVE  VerifyInv'
<1>s. rows' = rows /\ pc' = pc /\ scan' = scan /\ work' = work OBVIOUS
<1> QED BY <1>s, Zenon DEF VerifyInv, ScanIsExact, PurgeIsExact, StartIsExplained

(* A log S that has the entries of R and a new one, which is no marker. *)
LEMMA AppendStart ==
    ASSUME NEW R, NEW S, NEW e, \A s \in DOMAIN R : IsFirst(R, s) => Explained(R, s),
           DOMAIN R \subseteq Nat, e.seq \in Nat, ~PurgeRow(e),
           DOMAIN R = {} => e.seq = 1, e.seq = 1 => e.prev = Genesis,
           \A s \in DOMAIN R : s < e.seq /\ R[s].seq = s /\ S[s] = R[s],
           DOMAIN S = DOMAIN R \cup {e.seq}, S[e.seq] = e
    PROVE  \A s \in DOMAIN S : IsFirst(S, s) => Explained(S, s)
<1> SUFFICES ASSUME NEW s \in DOMAIN S, IsFirst(S, s) PROVE Explained(S, s) OBVIOUS
<1>1. CASE DOMAIN R = {} BY <1>1 DEF Explained
<1>2. CASE DOMAIN R # {}
  <2>1. s \in DOMAIN R /\ S[s] = R[s] /\ R[s].seq = s BY <1>2 DEF IsFirst
  <2>2. IsFirst(R, s) BY <2>1 DEF IsFirst
  <2>3. CASE s = 1 /\ R[s].prev = Genesis BY <2>1, <2>3, Zenon DEF Explained
  <2>4. CASE PurgeMarkerCoversGap(R, R[s])
    <3>1. PICK u \in MarkersFor(R, s) :
            /\ \A v \in MarkersFor(R, s) : v <= u
            /\ MarkerMatchesGap(R[s], R[u])
            /\ u - 1 \in DOMAIN R /\ R[u - 1].hash = R[u].prev
      BY <2>1, <2>4, Zenon DEF PurgeMarkerCoversGap
    <3>2. MarkersFor(S, s) = MarkersFor(R, s)
      <4>1. \A v \in DOMAIN S : v # e.seq => v \in DOMAIN R /\ S[v] = R[v] OBVIOUS
      <4>2. \A v \in DOMAIN R : v \in DOMAIN S /\ v # e.seq OBVIOUS
      <4> QED BY <4>1, <4>2 DEF MarkersFor
    <3>3. u \in DOMAIN R BY DEF MarkersFor
    <3>4. S[u] = R[u] /\ S[u - 1] = R[u - 1] /\ u - 1 \in DOMAIN S BY <3>1, <3>3, Zenon
    <3>5. PurgeMarkerCoversGap(S, S[s])
      BY <2>1, <3>1, <3>2, <3>4, Zenon DEF PurgeMarkerCoversGap
    <3> QED BY <3>5, Zenon DEF Explained
  <2>5. CASE AllPurgedBoundary(R[s], Genesis) BY <2>1, <2>5, Zenon DEF Explained
  <2>6. CASE \E u \in DOMAIN R : Overtaken(R[u])
    <3>1. PICK u \in DOMAIN R : Overtaken(R[u]) BY <2>6
    <3>2. u \in DOMAIN S /\ S[u] = R[u] BY Zenon
    <3> QED BY <3>1, <3>2, Zenon DEF Explained
  <2> QED BY <2>1, <2>2, <2>3, <2>4, <2>5, <2>6, Zenon DEF Explained
<1> QED BY Zenon, <1>1, <1>2

(* A log S that has lost the entries of R that the marker e names. *)
PurgedTo(R, S, e, gone) ==
    /\ PurgeRow(e) /\ DOMAIN R \subseteq Nat \ {0} /\ Continues(R, e)
    /\ MarksAll(R, e.context, gone)
    /\ \A s \in DOMAIN R : R[s].seq = s /\ (s + 1 \in DOMAIN R => R[s + 1].prev = R[s].hash)
    /\ DOMAIN S = (DOMAIN R \ gone) \cup {e.seq} /\ S[e.seq] = e
    /\ \A s \in DOMAIN S : s # e.seq => S[s] = R[s]

LEMMA PurgeStart ==
    ASSUME NEW R, NEW S, NEW e, NEW gone, PurgedTo(R, S, e, gone)
    PROVE  \A s \in DOMAIN S : IsFirst(S, s) => Explained(S, s)
<1> DEFINE to == e.context.purged_to_seq
           n == to + 1
<1> SUFFICES ASSUME NEW s \in DOMAIN S, IsFirst(S, s) PROVE Explained(S, s) OBVIOUS
<1>0. /\ PurgeRow(e) /\ S[e.seq] = e /\ e.seq \in DOMAIN S
      /\ \A u \in DOMAIN R : R[u].seq = u /\ (u + 1 \in DOMAIN R => R[u + 1].prev = R[u].hash)
      /\ \A u \in DOMAIN S : u # e.seq => S[u] = R[u]
  BY Zenon DEF PurgedTo
<1>1. /\ RangeIsConsistent(e.context) /\ to \in DOMAIN R
      /\ e.context.last_retained_hash = R[to].hash
      /\ \/ e.context.first_surviving_seq = None /\ e.context.first_surviving_prev_hash = None
         \/ /\ n \in DOMAIN R
            /\ e.context.first_surviving_seq = n
            /\ e.context.first_surviving_prev_hash = R[n].prev
  BY Zenon DEF PurgedTo, MarksAll
<1>d. \A u : u \in DOMAIN S <=> (u = e.seq \/ (u \in DOMAIN R /\ ~(u <= to)))
  <2>1. DOMAIN S = (DOMAIN R \ gone) \cup {e.seq} /\ gone = {u \in DOMAIN R : u <= to}
    BY Zenon DEF PurgedTo, MarksAll
  <2> HIDE DEF to
  <2> QED BY <2>1
<1> HIDE DEF to
<1>2. /\ e.seq \in Nat /\ to \in Nat /\ n \in Nat
      /\ \A u \in DOMAIN R : u < e.seq /\ u \in Nat
      /\ e.seq - 1 \in DOMAIN R /\ e.prev = R[e.seq - 1].hash /\ e.hash = RowHash(e)
  <2>1. /\ DOMAIN R \subseteq Nat \ {0} /\ e.seq \in Nat \ {0}
        /\ \A u \in DOMAIN R : u < e.seq
    BY Zenon DEF PurgedTo, Continues
  <2>2. DOMAIN R # {} BY <1>1, Zenon
  <2>3. e.seq - 1 \in DOMAIN R /\ e.prev = R[e.seq - 1].hash /\ e.hash = RowHash(e)
    BY <2>2, Zenon DEF PurgedTo, Continues
  <2>4. to \in Nat /\ n \in Nat /\ e.seq \in Nat BY <1>1, <2>1
  <2>5. \A u \in DOMAIN R : u < e.seq /\ u \in Nat BY <2>1
  <2> QED BY <2>3, <2>4, <2>5, Zenon
<1>3. CASE e.context.first_surviving_seq = None /\ e.context.first_surviving_prev_hash = None
  <2>1. CASE e.seq = n
    <3>0. s = e.seq \/ (s \in Nat /\ s < e.seq /\ ~(s <= to)) BY <1>2, <1>d, Zenon
    <3>a. \A u \in Nat : u < n => u <= to BY <1>2
    <3>1. s = e.seq BY <2>1, <3>0, <3>a, Zenon
    <3>2. e.seq - 1 = to BY <1>2, <2>1
    <3>3. e.prev = R[to].hash BY <1>2, <3>2, Zenon
    <3>4. AllPurgedBoundary(e, Genesis)
      BY <1>0, <1>1, <1>3, <2>1, <3>3, Zenon DEF AllPurgedBoundary, to
    <3> QED BY Zenon, <1>0, <3>1, <3>4 DEF Explained
  <2>2. CASE e.seq # n
    <3>1. Overtaken(S[e.seq]) BY <1>0, <1>3, <2>2, Zenon DEF Overtaken, to
    <3> QED BY <1>0, <3>1, Zenon DEF Explained
  <2> QED BY <2>1, <2>2, Zenon
<1>4. CASE /\ n \in DOMAIN R
           /\ e.context.first_surviving_seq = n
           /\ e.context.first_surviving_prev_hash = R[n].prev
  <2>1. n \in DOMAIN S /\ n < e.seq /\ n # e.seq BY <1>2, <1>d, <1>4
  <2>a. S[n] = R[n] BY <1>0, <2>1, Zenon
  <2>2. s = n
    <3>1. s <= n BY <2>1, Zenon DEF IsFirst
    <3> QED BY <1>2, <1>d, <2>1, <3>1
  <2>3. R[n].seq = n /\ R[n].prev = R[to].hash BY <1>0, <1>1, <1>4, Zenon
  <2>4. e.seq - 1 \in DOMAIN S /\ S[e.seq - 1].hash = S[e.seq].prev
    <3>1. e.seq - 1 \in DOMAIN S /\ e.seq - 1 # e.seq BY <1>2, <1>d, <2>1
    <3> QED BY <1>0, <1>2, <3>1, Zenon
  <2>5. MarkerMatchesGap(R[n], e)
    <3>1. e.seq > R[n].seq /\ to = R[n].seq - 1 BY <1>2, <2>1, <2>3
    <3> QED BY <1>0, <1>1, <1>2, <1>4, <2>3, <3>1, Zenon DEF MarkerMatchesGap, to
  <2>6. e.seq \in MarkersFor(S, n) BY <1>0, <1>4, Zenon DEF MarkersFor
  <2>7. \A v \in MarkersFor(S, n) : v <= e.seq
    <3>1. \A v \in MarkersFor(S, n) : v \in DOMAIN S BY DEF MarkersFor
    <3> QED BY <1>2, <1>d, <3>1
  <2>8. PurgeMarkerCoversGap(S, S[s])
    BY <1>0, <2>a, <2>2, <2>3, <2>4, <2>5, <2>6, <2>7, Zenon DEF PurgeMarkerCoversGap
  <2> QED BY <2>8, Zenon DEF Explained
<1> QED BY <1>1, <1>3, <1>4, Zenon

LEMMA CommitVerify ==
    ASSUME OnePurge, Inv, RemovalInv, VerifyInv, NEW p \in Procs, Commit(p)
    PROVE  VerifyInv'
<1> DEFINE e == work[p].insert
           D == work[p].delete
<1>r. /\ DOMAIN rows' = (DOMAIN rows \ D) \cup {e.seq}
      /\ rows'[e.seq] = e
      /\ \A s \in DOMAIN rows' : s # e.seq => rows'[s] = rows[s]
      /\ \A s \in DOMAIN rows : s < e.seq
  BY Zenon, CommitRows
<1>c. pc[p] = "open" /\ End(p) BY DEF Commit
<1>s. /\ pc'[p] = "idle"
      /\ \A q \in Procs \ {p} : pc'[q] = pc[q] /\ scan'[q] = scan[q]
  BY <1>c, EndSame DEF Inv
<1>o. \A q \in Procs : pc'[q] # "open" BY <1>c, <1>s DEF Inv, Shape
<1>e. /\ Continues(rows, e) /\ e.seq \in Nat /\ DOMAIN rows \subseteq Nat \ {0}
      /\ e.time \in Int /\ e.time >= clock - Retention
  <2>1. Continues(rows, e) /\ DOMAIN rows \subseteq Nat \ {0}
    BY <1>c, Zenon DEF Inv, OpenWork, Chain
  <2>2. e.time >= clock - Retention BY <1>c, Zenon DEF RemovalInv, InsertTyped
  <2> HIDE DEF e
  <2>3. e.seq \in Nat /\ e.time \in Int BY <2>1 DEF Continues
  <2> QED BY <2>1, <2>2, <2>3, Zenon
<1>x. /\ DOMAIN rows = {} => e.seq = 1
      /\ e.seq = 1 => e.prev = Genesis
      /\ D # {} => p \in Purgers /\ PurgeRow(e)
      /\ PurgeRow(e) => MarksAll(rows, e.context, D)
  <2>1. Planned(rows, p, work[p]) BY <1>c, Zenon DEF VerifyInv, PurgeIsExact
  <2> QED BY <2>1, Zenon DEF Planned
<1> HIDE DEF e, D
<1>1. ScanIsExact'
  <2> SUFFICES ASSUME NEW q \in Procs, pc'[q] \in {"survivor", "mark"}
               PROVE  q \in Purgers /\ Exact(rows', scan'[q], pc'[q])
    BY Zenon DEF ScanIsExact
  <2> DEFINE cutoff == scan[q].cutoff
  <2>0. q # p BY <1>s
  <2>1. q # p /\ pc[q] = pc'[q] /\ scan'[q] = scan[q] BY <1>s, <2>0, Zenon
  <2>2. q \in Purgers /\ Exact(rows, scan[q], pc[q])
    BY <2>1, Zenon DEF VerifyInv, ScanIsExact
  <2>3. D = {} BY <1>x, <2>1, <2>2, Zenon DEF OnePurge
  <2>4. cutoff \in Int /\ e.time >= cutoff
    <3>1. cutoff \in Int /\ cutoff <= clock - Retention /\ clock \in Int
      BY <2>1, SMTT(30) DEF Inv, Cutoffs
    <3> QED BY <1>e, <3>1, ChainAssumption
  <2> HIDE DEF cutoff
  <2>5. /\ DOMAIN rows' = DOMAIN rows \cup {e.seq}
        /\ \A s \in DOMAIN rows : s \in Nat /\ rows'[s] = rows[s] /\ s < e.seq
    BY <1>r, <1>e, <2>3, SMTT(30)
  <2>6. Expired(rows', cutoff) = Expired(rows, cutoff)
    BY <1>r, <1>e, <2>4, <2>5 DEF Expired
  <2>7. {rows'[s] : s \in Expired(rows', cutoff)} = {rows[s] : s \in Expired(rows, cutoff)}
    <3>1. \A s \in Expired(rows, cutoff) : rows'[s] = rows[s] BY <2>5 DEF Expired
    <3> QED BY <2>6, <3>1
  <2>8. ASSUME NEW n \in Survivors(rows, cutoff), \A s \in Survivors(rows, cutoff) : n <= s
        PROVE  /\ n \in Survivors(rows', cutoff) /\ rows'[n] = rows[n]
               /\ \A s \in Survivors(rows', cutoff) : n <= s
    BY <1>e, <2>5, <2>8 DEF Survivors
  <2>9. Exact(rows', scan[q], pc[q])
    BY <2>2, <2>7, <2>8, Zenon DEF Exact, cutoff
  <2> QED BY <2>1, <2>2, <2>9, Zenon
<1>2. PurgeIsExact' BY <1>o DEF PurgeIsExact
<1>3. StartIsExplained'
  <2>0. /\ \A s \in DOMAIN rows : IsFirst(rows, s) => Explained(rows, s)
        /\ \A s \in DOMAIN rows :
             rows[s].seq = s /\ (s + 1 \in DOMAIN rows => rows[s + 1].prev = rows[s].hash)
    BY Zenon DEF VerifyInv, StartIsExplained, RemovalInv, RowsTyped, Inv, Chain
  <2>1. CASE ~PurgeRow(e)
    <3>1. D = {} BY <1>x, <2>1, Zenon
    <3>2. /\ DOMAIN rows' = DOMAIN rows \cup {e.seq} /\ DOMAIN rows \subseteq Nat
          /\ \A s \in DOMAIN rows : s < e.seq /\ rows[s].seq = s /\ rows'[s] = rows[s]
      BY <1>r, <1>e, <2>0, <3>1
    <3>3. \A s \in DOMAIN rows' : IsFirst(rows', s) => Explained(rows', s)
      BY <1>r, <1>e, <1>x, <2>0, <2>1, <3>2, AppendStart, Zenon
    <3> QED BY <3>3, Zenon DEF StartIsExplained
  <2>2. CASE PurgeRow(e)
    <3>1. \A s \in DOMAIN rows' : IsFirst(rows', s) => Explained(rows', s)
      <4>1. MarksAll(rows, e.context, D) BY <1>x, <2>2, Zenon
      <4>2. PurgedTo(rows, rows', e, D) BY <1>r, <1>e, <2>0, <2>2, <4>1, Zenon DEF PurgedTo
      <4> QED BY <4>2, PurgeStart, Zenon
    <3> QED BY <3>1, Zenon DEF StartIsExplained
  <2> QED BY <2>1, <2>2, Zenon
<1> QED BY <1>1, <1>2, <1>3, Zenon DEF VerifyInv

LEMMA InitVerify == Init => VerifyInv
BY Zenon DEF Init, VerifyInv, ScanIsExact, PurgeIsExact, StartIsExplained

LEMMA NextVerify ==
    ASSUME NumberFacts, OnePurge
    PROVE  Inv /\ RemovalInv /\ VerifyInv /\ [Next]_vars => VerifyInv'
<1> SUFFICES ASSUME Inv, RemovalInv, VerifyInv, [Next]_vars PROVE VerifyInv'
  OBVIOUS
<1>1. ASSUME NEW p \in Writers, Log(p) PROVE VerifyInv'
  BY <1>1, BeginVerify DEF Log, Procs
<1>2. ASSUME NEW p \in Auditors, Verify(p) PROVE VerifyInv'
  BY <1>2, BeginVerify DEF Verify, Procs
<1>3. ASSUME NEW p \in Purgers,
             PurgeReadExpired(p) \/ PurgeReadSurvivor(p) \/ PurgeMarkAndDelete(p)
      PROVE  VerifyInv'
  BY <1>3, ReadExpiredVerify, ReadSurvivorVerify, MarkVerify DEF Procs
<1>4. ASSUME NEW p \in Procs, Commit(p) \/ Rollback(p) PROVE VerifyInv'
  BY <1>4, CommitVerify, RollbackVerify
<1>5. CASE Tick BY <1>5, QuietVerify DEF Tick
<1>6. CASE UNCHANGED vars BY <1>6, QuietVerify DEF vars
<1> QED BY <1>1, <1>2, <1>3, <1>4, <1>5, <1>6 DEF Next, PurgeNothing

(* Where a session can be. *)
PcTyped == pc \in [Procs -> {"idle", "survivor", "mark", "open"}]

LEMMA PcInvariance == Spec => []PcTyped
<1>1. Init => PcTyped BY SMTT(30) DEF Init, PcTyped
<1>2. PcTyped /\ [Next]_vars => PcTyped'
  BY Zenon DEF PcTyped, Next, vars, Log, Verify, PurgeReadExpired, PurgeNothing, PurgeReadSurvivor,
         PurgeMarkAndDelete, Commit, Rollback, Tick, Begin, End
<1> QED BY <1>1, <1>2, PTL DEF Spec

LEMMA Typed == Inv /\ RemovalInv /\ PcTyped => TypeOK
<1> SUFFICES ASSUME Inv, RemovalInv, PcTyped PROVE TypeOK
  OBVIOUS
<1>1. \A s \in DOMAIN rows : Row(rows[s]) /\ rows[s].seq = s BY DEF RemovalInv, RowsTyped
<1>2. DOMAIN rows \subseteq 1 .. MaxSeq BY <1>1 DEF Row
<1>3. \A p \in Procs : /\ pc[p] = "open" => holder = p /\ Row(work[p].insert)
                       /\ pc[p] # "open" => holder # p /\ work[p] = NoWork
                       /\ \A e \in scan[p].expired : Row(e)
  BY Zenon DEF Inv, Shape, RemovalInv, RowsTyped, InsertTyped
<1>4. clock \in 0 .. MaxTime /\ holder \in Procs \cup {None} BY DEF RemovalInv, RowsTyped
<1> QED BY <1>1, <1>2, <1>3, <1>4, Zenon DEF TypeOK, PcTyped

(* An entry that is not the first follows the one before it.  Only the     *)
(* start of the log can be in question, and StartIsExplained answers that. *)
LEMMA Verifies == Inv /\ RemovalInv /\ VerifyInv => VerifiesUnlessOvertaken
<1> SUFFICES ASSUME Inv, RemovalInv, VerifyInv, ~\E u \in DOMAIN rows : Overtaken(rows[u]),
                    NEW s \in DOMAIN rows
             PROVE  ~Broken(rows, s)
  BY DEF VerifiesUnlessOvertaken, Verified
<1>1. rows[s].hash = RowHash(rows[s]) BY DEF Inv, Chain
<1>2. CASE IsFirst(rows, s)
  <2>1. ExpectedPrev(rows, s) = Genesis BY <1>2 DEF ExpectedPrev
  <2>2. \/ rows[s].prev = Genesis
        \/ PurgeMarkerCoversGap(rows, rows[s])
        \/ AllPurgedBoundary(rows[s], Genesis)
    BY <1>2, Zenon DEF VerifyInv, StartIsExplained, Explained
  <2> QED BY <1>1, <2>1, <2>2 DEF Broken
<1>3. CASE ~IsFirst(rows, s)
  <2> DEFINE Before(u) == u < s /\ \A v \in DOMAIN rows : v < s => v <= u
             w == CHOOSE u \in DOMAIN rows : Before(u)
  <2>1. DOMAIN rows \subseteq Nat \ {0} BY DEF Inv, Chain
  <2>2. s - 1 \in DOMAIN rows
    <3>1. PICK u \in DOMAIN rows : u < s BY <1>3, <2>1 DEF IsFirst
    <3>2. s - 1 \in u .. s BY <2>1, <3>1
    <3> QED BY <3>1, <3>2 DEF Inv, Chain
  <2>3. Before(s - 1) BY <2>1
  <2>4. w \in DOMAIN rows /\ Before(w) BY <2>2, <2>3
  <2>5. ExpectedPrev(rows, s) = rows[w].hash BY <1>3 DEF ExpectedPrev
  <2> HIDE DEF w
  <2>6. w = s - 1 BY <2>1, <2>2, <2>3, <2>4, SMTT(30)
  <2>7. rows[s].prev = rows[w].hash
    <3>1. s = (s - 1) + 1 BY <2>1
    <3> QED BY <2>2, <2>6, <3>1 DEF Inv, Chain
  <2> QED BY <1>1, <2>5, <2>7, SMTT(30) DEF Broken
<1> QED BY <1>2, <1>3

-----------------------------------------------------------------------------
F == INSTANCE FiniteSetTheorems

(* The least of a set of numbers, and the size of a run of entries.        *)
LEMMA Numbers == NumberFacts
<1>1. ASSUME NEW T \in SUBSET Nat, T # {} PROVE \E x \in T : \A y \in T : x <= y
  <2>1. PICK x \in T : \A y \in T : ~ (<<y, x>> \in F!OpToRel(<, Nat))
    BY <1>1, F!NatLessThanWellFounded, F!WFMin, Zenon
  <2>2. ASSUME NEW y \in T PROVE x <= y
    <3>1. x \in Nat /\ y \in Nat OBVIOUS
    <3>2. ~(y < x) BY <2>1, <3>1, Zenon DEF F!OpToRel
    <3> QED BY <3>1, <3>2
  <2> QED BY <2>2, Zenon
<1>2. ASSUME NEW X, NEW lo \in Nat, NEW hi \in Nat, Run(X, lo, hi)
      PROVE  Cardinality(X) = hi - lo + 1
  <2> DEFINE f == [s \in lo .. hi |-> CHOOSE e \in X : e.seq = s]
  <2>0. /\ lo <= hi /\ \A e \in X : e.seq \in lo .. hi
        /\ \A s \in lo .. hi : \E e \in X : e.seq = s
        /\ \A e, g \in X : e.seq = g.seq => e = g
    BY <1>2 DEF Run
  <2>1. \A s \in lo .. hi : f[s] \in X /\ f[s].seq = s BY <2>0
  <2>2. f \in F!Bijection(lo .. hi, X)
    <3>1. DOMAIN f = lo .. hi /\ f \in [lo .. hi -> X] BY <2>1
    <3> HIDE DEF f
    <3>2. \A s, t \in lo .. hi : f[s] = f[t] => s = t BY <2>1
    <3>3. \A e \in X : e.seq \in lo .. hi /\ f[e.seq] = e BY <2>0, <2>1
    <3> QED BY <3>1, <3>2, <3>3 DEF F!Bijection, F!Injection, F!Surjection, F!IsInjective
  <2>3. F!IsFiniteSet(lo .. hi) /\ F!Cardinality(lo .. hi) = hi - lo + 1
    BY <2>0, F!FS_Interval
  <2>4. F!Cardinality(X) = F!Cardinality(lo .. hi)
    <3>1. F!ExistsBijection(lo .. hi, X) BY <2>2 DEF F!ExistsBijection
    <3> QED BY <2>3, <3>1, F!FS_Bijection
  <2>5. Cardinality(X) = F!Cardinality(X) BY DEF Cardinality, F!Cardinality
  <2> QED BY <2>3, <2>4, <2>5
<1> QED BY Zenon, <1>1, <1>2 DEF NumberFacts

LEMMA RemovalInvariance == Spec => [](Inv /\ RemovalInv)
<1>1. Inv /\ RemovalInv /\ [Next]_vars => RemovalInv' BY NextRemoval, Numbers
<1> QED BY <1>1, InitInv, NextInv, InitRemoval, PTL DEF Spec

(***************************************************************************)
(* Removing an entry from a log that verifies, other than the newest, is   *)
(* reported by verify_chain, for any number of writers, purges and         *)
(* auditors at work: the entry after it names the hash of the one that is  *)
(* gone, and no marker of a purge covers that gap.                         *)
(***************************************************************************)
THEOREM RemovalsAreDetected == Spec => []RemovalIsDetected
BY Detects, RemovalInvariance, PTL

(***************************************************************************)
(* While at most one purge runs at a time, verify_chain accepts every log  *)
(* that log(), the purge script and the verification itself produce,       *)
(* whatever the interleaving of any number of writers and auditors with    *)
(* the statements of the purge, unless a purge that found every entry      *)
(* expired was overtaken by an append; and it reports the removal of any   *)
(* entry but the newest.                                                   *)
(***************************************************************************)
THEOREM ChainsAreSound ==
    ASSUME OnePurge
    PROVE  Spec => []ChainIsSound
<1>1. Inv /\ RemovalInv /\ VerifyInv /\ [Next]_vars => VerifyInv' BY NextVerify, Numbers
<1>2. Inv /\ RemovalInv /\ VerifyInv /\ PcTyped /\ RemovalIsDetected => ChainIsSound
  BY Typed, Verifies DEF ChainIsSound
<1> QED BY <1>1, <1>2, InitVerify, RemovalInvariance, PcInvariance, RemovalsAreDetected, PTL DEF Spec
=============================================================================
