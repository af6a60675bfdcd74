----------------------------- MODULE AuditChain -----------------------------
(***************************************************************************)
(* The tamper-evident audit log (services/audit_service.py): appending an  *)
(* entry under a transaction-level advisory lock, the retention purge that *)
(* an external scheduler runs (scripts/purge_audit_logs.py), and the       *)
(* verification behind POST /admin/audit/verify.                           *)
(*                                                                         *)
(* A process is a database session that runs one transaction after the     *)
(* other at READ COMMITTED: every statement reads what is committed when   *)
(* it starts.  Entries are reduced to what the chain is made of; a hash is *)
(* the pair it is computed from, so equal hashes mean equal contents.      *)
(***************************************************************************)
EXTENDS Integers, FiniteSets

CONSTANTS
    Writers,        \* sessions of handlers that log an event
    Auditors,       \* sessions that verify the chain
    Purgers,        \* runs of the purge script
    Retention,      \* AUDIT_RETENTION_MONTHS, in ticks of the clock
    MaxSeq,         \* bound: no sequence number above it
    MaxTime,        \* bound: the clock stops here
    None

Procs == Writers \cup Auditors \cup Purgers

ASSUME ChainAssumption ==
    /\ Retention \in Nat /\ MaxSeq \in Nat /\ MaxTime \in Nat
    /\ None \notin Procs \cup Nat

VARIABLES
    rows,       \* committed audit_log_entries: sequence_number -> entry
    clock,
    holder,     \* session that holds the advisory lock, to the end of its transaction
    pc,         \* where each session is
    scan,       \* what the purge has read so far
    work        \* uncommitted: the entry to insert, the sequence numbers to delete

vars == <<rows, clock, holder, pc, scan, work>>

NoScan == [cutoff |-> 0, expired |-> {}, survivor |-> None]
NoWork == [insert |-> None, delete |-> {}]

Init ==
    /\ rows = [s \in {} |-> None]
    /\ clock = 0
    /\ holder = None
    /\ pc = [p \in Procs |-> "idle"]
    /\ scan = [p \in Procs |-> NoScan]
    /\ work = [p \in Procs |-> NoWork]

-----------------------------------------------------------------------------
(* _compute_row_hash over the canonical payload and the previous hash. *)
RowHash(e) == <<e.seq, e.time, e.action, e.context, e.prev>>

(* The "previous hash" of the very first entry, which is the hash of none. *)
Genesis == <<"GENESIS">>

IsLast(R, s) == s \in DOMAIN R /\ \A u \in DOMAIN R : u <= s
IsFirst(R, s) == s \in DOMAIN R /\ \A u \in DOMAIN R : s <= u

(* ORDER BY sequence_number DESC LIMIT 1, or 0 *)
LastSeq(R) == IF DOMAIN R = {} THEN 0 ELSE CHOOSE s \in DOMAIN R : IsLast(R, s)

NextSeq(R) == LastSeq(R) + 1

(* The entry log() builds: it continues the newest row it reads. *)
NewEntry(R, action, context) ==
    LET seq  == NextSeq(R)
        prev == IF seq = 1 THEN Genesis ELSE R[seq - 1].hash
        e    == [seq |-> seq, time |-> clock, action |-> action,
                 context |-> context, prev |-> prev]
    IN  [seq |-> seq, time |-> clock, action |-> action,
         context |-> context, prev |-> prev, hash |-> RowHash(e)]

-----------------------------------------------------------------------------
(* mutant of Expired *)
ExpiredAtCutoff(R, cutoff) == {s \in DOMAIN R : R[s].time <= cutoff}
SurvivorsAfterCutoff(R, cutoff) == {s \in DOMAIN R : R[s].time > cutoff}

(* compute_retention_cutoff: rows strictly older are purged. *)
Expired(R, cutoff) == {s \in DOMAIN R : R[s].time < cutoff}
Survivors(R, cutoff) == {s \in DOMAIN R : R[s].time >= cutoff}

MarkerContext(sc) ==
    LET from == CHOOSE e \in sc.expired : \A f \in sc.expired : e.seq <= f.seq
        to   == CHOOSE e \in sc.expired : \A f \in sc.expired : f.seq <= e.seq
    IN  [purged_from_seq |-> from.seq, purged_to_seq |-> to.seq,
         purged_count |-> Cardinality(sc.expired),
         last_retained_seq |-> to.seq, last_retained_hash |-> to.hash,
         first_surviving_seq |->
            IF sc.survivor = None THEN None ELSE sc.survivor.seq,
         first_surviving_prev_hash |->
            IF sc.survivor = None THEN None ELSE sc.survivor.prev]

-----------------------------------------------------------------------------
(* verify_chain *)
PurgeRow(e) == e.action = "purge"

(* purged_count > 0, the range is not empty and the count fills it *)
RangeIsConsistent(c) ==
    /\ c.purged_count > 0
    /\ c.purged_from_seq <= c.purged_to_seq
    /\ c.purged_count = c.purged_to_seq - c.purged_from_seq + 1
    /\ c.last_retained_seq = c.purged_to_seq

(* _marker_matches_gap *)
MarkerMatchesGap(e, m) ==
    LET c == m.context IN
    /\ m.hash = RowHash(m)
    /\ m.seq > e.seq
    /\ RangeIsConsistent(c)
    /\ c.purged_to_seq = e.seq - 1
    /\ c.last_retained_hash = e.prev
    /\ c.first_surviving_seq = e.seq
    /\ c.first_surviving_prev_hash = e.prev

MarkersFor(R, s) ==
    {u \in DOMAIN R : PurgeRow(R[u]) /\ R[u].context.first_surviving_seq = s}

(* _purge_marker_covers_gap: only the newest marker that names the entry   *)
(* counts, and it must itself be linked to the row before it.              *)
PurgeMarkerCoversGap(R, e) ==
    \E u \in MarkersFor(R, e.seq) :
        /\ \A v \in MarkersFor(R, e.seq) : v <= u
        /\ MarkerMatchesGap(e, R[u])
        /\ u - 1 \in DOMAIN R /\ R[u - 1].hash = R[u].prev

(* mutant of AllPurgedBoundary *)
FirstRowIsBoundary(e, expected) == expected = Genesis

(* _purge_marker_is_all_purged_boundary *)
AllPurgedBoundary(e, expected) ==
    /\ expected = Genesis
    /\ PurgeRow(e)
    /\ e.context.first_surviving_seq = None
    /\ e.context.first_surviving_prev_hash = None
    /\ RangeIsConsistent(e.context)
    /\ e.seq = e.context.purged_to_seq + 1
    /\ e.context.last_retained_hash = e.prev

(* The hash the walk carries to row s: that of the row it visited before. *)
ExpectedPrev(R, s) ==
    IF IsFirst(R, s) THEN Genesis
    ELSE R[CHOOSE u \in DOMAIN R :
              /\ u < s
              /\ \A v \in DOMAIN R : v < s => v <= u].hash

Broken(R, s) ==
    LET e == R[s] IN
    \/ e.hash # RowHash(e)
    \/ /\ e.prev # ExpectedPrev(R, s)
       /\ ~PurgeMarkerCoversGap(R, e)
       /\ ~AllPurgedBoundary(e, ExpectedPrev(R, s))

(* VerificationResult.verified.  The batches of 500 only bound memory.  The *)
(* walk stops at the first break, and up to there each row is compared with *)
(* the one before it.                                                       *)
Verified(R) == \A s \in DOMAIN R : ~Broken(R, s)

-----------------------------------------------------------------------------
Begin(p, entry, gone) ==
    /\ holder' = p
    /\ work' = [work EXCEPT ![p] = [insert |-> entry, delete |-> gone]]
    /\ pc' = [pc EXCEPT ![p] = "open"]

LogWithoutLock(p) ==
    /\ pc[p] = "idle"
    /\ NextSeq(rows) <= MaxSeq
    /\ Begin(p, NewEntry(rows, "event", None), {})
    /\ UNCHANGED <<rows, clock, scan>>

(* AuditService.log in some handler.  The lock is awaited first, the rest  *)
(* happens while it is held.                                               *)
Log(p) ==
    /\ pc[p] = "idle"
    /\ holder = None
    /\ NextSeq(rows) <= MaxSeq
    /\ Begin(p, NewEntry(rows, "event", None), {})
    /\ UNCHANGED <<rows, clock, scan>>

(* POST /admin/audit/verify: walk the chain under the lock, then log the   *)
(* verdict in the same transaction.                                        *)
Verify(p) ==
    /\ pc[p] = "idle"
    /\ holder = None
    /\ NextSeq(rows) <= MaxSeq
    /\ Begin(p, NewEntry(rows, "verify", Verified(rows)), {})
    /\ UNCHANGED <<rows, clock, scan>>

(* purge_expired_entries, first SELECT. *)
PurgeReadExpired(p) ==
    /\ pc[p] = "idle"
    /\ LET cutoff == clock - Retention IN
        /\ Expired(rows, cutoff) # {}
        /\ scan' = [scan EXCEPT ![p] =
                [cutoff |-> cutoff,
                 expired |-> {rows[s] : s \in Expired(rows, cutoff)},
                 survivor |-> None]]
    /\ pc' = [pc EXCEPT ![p] = "survivor"]
    /\ UNCHANGED <<rows, clock, holder, work>>

(* Nothing has expired: no marker, return 0. *)
PurgeNothing(p) ==
    /\ pc[p] = "idle"
    /\ Expired(rows, clock - Retention) = {}
    /\ UNCHANGED vars

(* Second SELECT: the first row at or after the cutoff. *)
PurgeReadSurvivor(p) ==
    /\ pc[p] = "survivor"
    /\ LET live == Survivors(rows, scan[p].cutoff) IN
        scan' = [scan EXCEPT ![p] =
                [cutoff |-> scan[p].cutoff,
                 expired |-> scan[p].expired,
                 survivor |->
                    IF live = {} THEN None
                    ELSE rows[CHOOSE s \in live : \A u \in live : s <= u]]]
    /\ pc' = [pc EXCEPT ![p] = "mark"]
    /\ UNCHANGED <<rows, clock, holder, work>>

(* mutant of PurgeDeletes *)
PurgeDeletesAllButMarkers(p) ==
    {s \in Expired(rows, scan[p].cutoff) : ~PurgeRow(rows[s])}

(* What DELETE ... WHERE timestamp < cutoff removes. *)
PurgeDeletes(p) == Expired(rows, scan[p].cutoff)

(* The marker is logged, which waits for the lock, and then the expired    *)
(* rows are deleted.  The delete statement evaluates the condition again.  *)
PurgeMarkAndDelete(p) ==
    /\ pc[p] = "mark"
    /\ holder = None
    /\ NextSeq(rows) <= MaxSeq
    /\ Begin(p, NewEntry(rows, "purge", MarkerContext(scan[p])), PurgeDeletes(p))
    /\ UNCHANGED <<rows, clock, scan>>

End(p) ==
    /\ pc' = [pc EXCEPT ![p] = "idle"]
    /\ scan' = [scan EXCEPT ![p] = NoScan]
    /\ work' = [work EXCEPT ![p] = NoWork]
    /\ holder' = IF holder = p THEN None ELSE holder

Commit(p) ==
    /\ pc[p] = "open"
    /\ LET e == work[p].insert IN
        rows' = [s \in (DOMAIN rows \cup {e.seq}) \ work[p].delete |->
                    IF s = e.seq THEN e ELSE rows[s]]
    /\ End(p)
    /\ UNCHANGED clock

(* The transaction of the handler or of the purge script fails. *)
Rollback(p) ==
    /\ pc[p] # "idle"
    /\ End(p)
    /\ UNCHANGED <<rows, clock>>

(* Time passes, but a transaction never stays open for a whole retention   *)
(* window (months): what it has inserted does not expire before it ends.   *)
Tick ==
    /\ clock < MaxTime
    /\ \A p \in Procs :
        pc[p] = "open" => work[p].insert.time + Retention > clock
    /\ clock' = clock + 1
    /\ UNCHANGED <<rows, holder, pc, scan, work>>

Next ==
    \/ \E p \in Writers : Log(p)
    \/ \E p \in Auditors : Verify(p)
    \/ \E p \in Purgers :
        \/ PurgeReadExpired(p) \/ PurgeNothing(p)
        \/ PurgeReadSurvivor(p) \/ PurgeMarkAndDelete(p)
    \/ \E p \in Procs : Commit(p) \/ Rollback(p)
    \/ Tick

Spec == Init /\ [][Next]_vars

-----------------------------------------------------------------------------
Row(e) ==
    /\ e.seq \in 1 .. MaxSeq
    /\ e.time \in 0 .. MaxTime
    /\ e.action \in {"event", "verify", "purge"}

TypeOK ==
    /\ DOMAIN rows \subseteq 1 .. MaxSeq
    /\ \A s \in DOMAIN rows : Row(rows[s]) /\ rows[s].seq = s
    /\ clock \in 0 .. MaxTime
    /\ holder \in Procs \cup {None}
    /\ pc \in [Procs -> {"idle", "survivor", "mark", "open"}]
    /\ \A p \in Procs :
        /\ pc[p] = "open" => holder = p /\ Row(work[p].insert)
        /\ pc[p] # "open" => holder # p /\ work[p] = NoWork
        /\ \A e \in scan[p].expired : Row(e)

(***************************************************************************)
(* The retained log is one unbroken chain: its sequence numbers have no    *)
(* gap, each entry carries the hash of the entry before it, and the clock  *)
(* never runs backwards along it.  Concurrent writers, roll-backs and      *)
(* purges included (log() serialises allocation with the advisory lock).   *)
(***************************************************************************)
LinearChain ==
    /\ \A s, u \in DOMAIN rows : \A v \in s .. u : v \in DOMAIN rows
    /\ \A s \in DOMAIN rows :
        /\ rows[s].hash = RowHash(rows[s])
        /\ s + 1 \in DOMAIN rows => /\ rows[s + 1].prev = rows[s].hash
                                    /\ rows[s].time <= rows[s + 1].time

(* A purge read that there was no survivor, and others appended before it  *)
(* got the lock.                                                           *)
Overtaken(e) ==
    /\ PurgeRow(e)
    /\ e.context.first_surviving_seq = None
    /\ e.seq # e.context.purged_to_seq + 1

(***************************************************************************)
(* While only one purge runs at a time, verify_chain accepts every log the *)
(* application itself produces, unless a purge that expired every entry    *)
(* was overtaken by an append.                                             *)
(***************************************************************************)
VerifiesUnlessOvertaken ==
    Verified(rows) \/ \E s \in DOMAIN rows : Overtaken(rows[s])

(***************************************************************************)
(* Removing any one entry from a log that verifies, other than the newest, *)
(* is reported: no purge marker of a finished purge can be taken for it.   *)
(***************************************************************************)
RemovalIsDetected ==
    \A s \in DOMAIN rows :
        Verified(rows) /\ ~IsLast(rows, s) =>
            ~Verified([u \in DOMAIN rows \ {s} |-> rows[u]])

(***************************************************************************)
(* The variables have their types, and verify_chain finds what it must: a  *)
(* log that nobody tampered with verifies (unless a purge was overtaken),  *)
(* and the removal of an entry is detected.                                *)
(***************************************************************************)
ChainIsSound == TypeOK /\ VerifiesUnlessOvertaken /\ RemovalIsDetected

(***************************************************************************)
(* History is append-only inside the retention window: a step removes only *)
(* entries that are older than the window, keeps all others as they are,   *)
(* and adds at most one entry, behind all others.                          *)
(***************************************************************************)
RetainedStep ==
    /\ \A s \in DOMAIN rows :
        \/ s \in DOMAIN rows' /\ rows'[s] = rows[s]
        \/ s \notin DOMAIN rows' /\ rows[s].time < clock - Retention
    /\ \A s \in DOMAIN rows' \ DOMAIN rows :
        IsLast(rows', s) /\ \A u \in DOMAIN rows : u < s
RetentionRespected == [][RetainedStep]_vars
=============================================================================
