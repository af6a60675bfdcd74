-------------------------- MODULE QueryLockProofs --------------------------
(***************************************************************************)
(* The keys of the query handlers (processing_lock:<h>,                    *)
(* session_operation:<s> and the entries of _inflight_owners), and the     *)
(* refinement of module ProcessingLock.                                    *)
(*                                                                         *)
(* OwnInv is inductive under every fault: each key names a request of its  *)
(* own session that has not given it up.  That a running query still has   *)
(* its keys needs more (KeysHeld), and needs commits to succeed: a         *)
(* deletion that is undone removes its marker after it has taken the keys  *)
(* of the operation it cancelled.                                          *)
(***************************************************************************)
EXTENDS QueryLifecycleProofs, QueryLock

(* Where the owner of a key may be.  A Redis error in the finally clause   *)
(* leaves its keys behind (ClearQueryOperationFails).                      *)
Leaked == IF "redis" \in Faults THEN {"end", "done"} ELSE {}

LockPcs == Locked \cup {"crashed"} \cup Leaked

Entered == Locked \cup {"reserved"}

EntryPcs == Entered \cup Leaked

OpPcs == Inside \cup {"fin_op", "crashed"} \cup Leaked

(* Every key belongs to a request of its own HTTP session, slot or chat    *)
(* that has not given it up; an entry of _inflight_owners is there from    *)
(* the reservation to the release.                                         *)
LockOwned ==
    \A h \in HttpSessions : lock[h] # None => Http[lock[h]] = h /\ pc[lock[h]] \in LockPcs

EntryOwned ==
    \A x \in Workers \X HttpSessions :
        inflight[x] # None => Slot(inflight[x]) = x /\ pc[inflight[x]] \in EntryPcs

EntryHeld == \A q \in Requests : pc[q] \in Entered => inflight[Slot(q)] = q

OpOwned ==
    \A s \in Chats : op[s] # None =>
        Chat(op[s]) = s /\ frame[op[s]].trk # None /\ pc[op[s]] \in OpPcs

KeysOwned == LockOwned /\ EntryOwned /\ EntryHeld /\ OpOwned

(* If no commit fails, a deletion that has marked its session keeps the    *)
(* marker and finds the session, so it is never undone.                    *)
Deleting == {"d_cancel", "d_clean", "d_delete", "d_commit"}

DeletionOK(q) ==
    /\ pc[q] \in Deleting => marker[Target[q]] = q /\ Target[q] \in sessions
    /\ pc[q] = "d_mark" => Target[q] \in sessions \/ marker[Target[q]] # None
    /\ pc[q] # "d_undo"

DeletionsOK == \A q \in Requests : DeletionOK(q)

(* A query keeps its lock and its operation until a deletion that marked   *)
(* its chat session takes them.                                            *)
LockHeld ==
    \A q \in Requests :
        InFlight(q) /\ ~(frame[q].trk # None /\ Cancelled(q)) => lock[Http[q]] = q

OpHeld ==
    \A q \in Requests : Registered(q) => Chat(q) \in Chats /\ (Cancelled(q) \/ op[Chat(q)] = q)

KeysHeld == DeletionsOK /\ LockHeld /\ OpHeld

OwnInv == AttemptInv /\ KeysOwned

LockInv == OwnInv /\ KeysHeld

-----------------------------------------------------------------------------
(* What a step of request r may do to the keys. *)
OwnStep(r) ==
    /\ \A h \in HttpSessions : lock'[h] \in {None, lock[h], r}
    /\ \A h \in HttpSessions : lock'[h] = r => h = Http[r] /\ pc'[r] \in LockPcs
    /\ \A x \in Workers \X HttpSessions : inflight'[x] \in {None, inflight[x], r}
    /\ \A x \in Workers \X HttpSessions : inflight[x] \notin {None, r} => inflight'[x] = inflight[x]
    /\ \A x \in Workers \X HttpSessions : inflight'[x] = r => x = Slot(r) /\ pc'[r] \in EntryPcs
    /\ pc'[r] \in Entered => inflight'[Slot(r)] = r
    /\ \A s \in Chats : op'[s] \in {None, op[s], r}
    /\ \A s \in Chats : op'[s] = r => frame'[r].chat = s /\ frame'[r].trk # None /\ pc'[r] \in OpPcs

(* The request moves outside the lock and touches no key of it. *)
Quiet(r) ==
    /\ pc[r] \in {"start", "end"} \cup AcceptPc \cup DeletePc
    /\ pc'[r] \in {"ready", "end", "done"} \cup AcceptPc \cup DeletePc
    /\ pc[r] = "start" => pc'[r] = "ready" \/ Kind[r] \in {"accept", "delete"}
    /\ pc[r] = "end" => pc'[r] = "done" /\ Alike(frame'[r], frame[r])
    /\ UNCHANGED <<lock, op, inflight>>

(* Markers stay, and a session goes only by the deletion that marked it. *)
DeletionStep(r) ==
    /\ \A s \in Chats : marker[s] # None => marker'[s] = marker[s]
    /\ \A s \in sessions : s \in sessions' \/ marker[s] = r
    /\ DeletionOK(r)'

(* The lock and the operation of another request stay, unless its chat     *)
(* session is marked; those of the request itself are there when it runs.  *)
HeldStep(r) ==
    /\ \A q \in Requests \ {r} :
          lock[Http[q]] = q => lock'[Http[q]] = q \/ (frame[q].trk # None /\ Cancelled(q))
    /\ \A q \in Requests \ {r} : \A s \in Chats : op[s] = q => op'[s] = q \/ marker[s] # None
    /\ InFlight(r)' => lock'[Http[r]] = r \/ (frame'[r].trk # None /\ Cancelled(r)')
    /\ Registered(r)' =>
          Chat(r)' \in Chats /\ (Cancelled(r)' \/ op'[frame'[r].chat] = r)

-----------------------------------------------------------------------------
(* Labels. *)
LEMMA LockLabels ==
  /\ Inside \subseteq Locked /\ Locked \subseteq Entered
  /\ Locked \subseteq LockPcs /\ Entered \subseteq EntryPcs /\ Inside \subseteq OpPcs
  /\ {"fin_op", "fin_lock"} \subseteq Locked /\ "fin_op" \in OpPcs
  /\ "reserved" \in Entered /\ "crashed" \in LockPcs /\ "crashed" \in OpPcs
  /\ {"prepare", "load_active"} \subseteq Inside
  BY Zenon DEF Locked, Entered, LockPcs, EntryPcs, OpPcs, Inside, FinallyPc, TryPc

(* Who is not between the reservation and the release. *)
LEMMA OutsideLabels ==
  ASSUME NEW l \in {"start", "ready", "end", "done", "crashed"} \cup AcceptPc \cup DeletePc
  PROVE  l \notin Entered /\ l \notin Inside
  BY DEF Entered, Locked, Inside, FinallyPc, TryPc, Stages, TimeoutPc, AcceptPc, DeletePc

(* Who owns nothing. *)
LEMMA OwnsNothing ==
  ASSUME NEW l \in {"start", "ready", "reserved"} \cup AcceptPc \cup DeletePc
  PROVE  l \notin LockPcs /\ l \notin OpPcs /\ (l # "reserved" => l \notin EntryPcs)
  <1>1. l \notin Locked /\ l \notin Inside
    BY Zenon DEF Locked, Inside, FinallyPc, TryPc, Stages, TimeoutPc, AcceptPc, DeletePc
  <1>2. l \notin {"crashed", "fin_op", "end", "done"}
    BY Zenon DEF AcceptPc, DeletePc
  <1> QED
    BY <1>1, <1>2 DEF LockPcs, OpPcs, EntryPcs, Entered, Leaked

(* A key left behind stays behind. *)
LEMMA LeakedLabels ==
  ASSUME "end" \in LockPcs \/ "end" \in EntryPcs \/ "end" \in OpPcs
  PROVE  "done" \in LockPcs /\ "done" \in EntryPcs /\ "done" \in OpPcs
  <1>1. "end" \notin Entered /\ "end" \notin Inside
    BY OutsideLabels
  <1>2. "end" \notin Locked
    BY Zenon, <1>1, LockLabels
  <1> QED
    BY <1>1, <1>2 DEF LockPcs, OpPcs, EntryPcs, Leaked

(* A query runs, handles its timeout, or is out of the try block. *)
LEMMA RunningLabels ==
  /\ \A l \in TryPc \cup {"discard"} : l \in Inside
  /\ \A l \in Inside : l \in TimeoutPc \/ l \in TryPc \cup {"discard"}
  /\ \A l \in TryPc \cup {"discard"} : l \notin FinallyPc \cup TimeoutPc \cup {"end", "done", "crashed"}
  BY Zenon DEF Inside, TryPc, Stages, TimeoutPc, FinallyPc

(* The slot of a request is one of the dictionary. *)
LEMMA SlotType ==
  ASSUME QueryAssumption, NEW q \in Requests
  PROVE  /\ Slot(q) \in Workers \X HttpSessions /\ Slot(q)[1] = Worker[q]
         /\ Http[q] \in HttpSessions /\ Worker[q] \in Workers /\ q # None
  BY Zenon DEF QueryAssumption, Slot

-----------------------------------------------------------------------------
(* A step that keeps to the rules keeps the invariants. *)
LEMMA OwnedKept ==
  ASSUME QueryAssumption, TypeOK, KeysOwned, NEW r \in Requests, RequestStep(r), OwnStep(r)
  PROVE  KeysOwned'
  <1>0. \A q \in Requests \ {r} : /\ pc'[q] = pc[q] /\ frame'[q].chat = frame[q].chat
                                   /\ frame'[q].trk = frame[q].trk
    BY Zenon DEF RequestStep, Goes, Alike
  <1>1. LockOwned'
    <2>1. ASSUME NEW h \in HttpSessions, lock'[h] # None
          PROVE  Http[lock'[h]] = h /\ pc'[lock'[h]] \in LockPcs
      <3>1. CASE lock'[h] = r
        BY Zenon, <3>1 DEF OwnStep
      <3>2. CASE lock'[h] # r
        <4>1. lock'[h] = lock[h] /\ lock[h] \in Requests \ {r}
          BY <2>1, <3>2 DEF OwnStep, TypeOK, Maybe
        <4> QED
          BY <1>0, <4>1, <2>1 DEF KeysOwned, LockOwned
      <3> QED
        BY Zenon, <3>1, <3>2
    <2> QED
      BY Zenon, <2>1 DEF LockOwned
  <1>2. EntryOwned'
    <2>1. ASSUME NEW x \in Workers \X HttpSessions, inflight'[x] # None
          PROVE  Slot(inflight'[x]) = x /\ pc'[inflight'[x]] \in EntryPcs
      <3>1. CASE inflight'[x] = r
        BY Zenon, <3>1 DEF OwnStep
      <3>2. CASE inflight'[x] # r
        <4>1. inflight'[x] = inflight[x] /\ inflight[x] \in Requests \ {r}
          BY <2>1, <3>2 DEF OwnStep, TypeOK, Maybe
        <4> QED
          BY ZenonT(30), <1>0, <4>1, <2>1 DEF KeysOwned, EntryOwned
      <3> QED
        BY Zenon, <3>1, <3>2
    <2> QED
      BY Zenon, <2>1 DEF EntryOwned, Slot
  <1>3. EntryHeld'
    <2>1. ASSUME NEW q \in Requests, pc'[q] \in Entered PROVE inflight'[Slot(q)] = q
      <3>1. CASE q = r
        BY Zenon, <2>1, <3>1 DEF OwnStep
      <3>2. CASE q # r
        <4>1. inflight[Slot(q)] = q
          BY Zenon, <1>0, <2>1, <3>2 DEF KeysOwned, EntryHeld
        <4> QED
          BY Zenon, <3>2, <4>1, SlotType DEF OwnStep
      <3> QED
        BY Zenon, <3>1, <3>2
    <2> QED
      BY Zenon, <2>1 DEF EntryHeld, Slot
  <1>4. OpOwned'
    <2>1. ASSUME NEW s \in Chats, op'[s] # None
          PROVE  frame'[op'[s]].chat = s /\ frame'[op'[s]].trk # None /\ pc'[op'[s]] \in OpPcs
      <3>1. CASE op'[s] = r
        BY Zenon, <3>1 DEF OwnStep
      <3>2. CASE op'[s] # r
        <4>1. op'[s] = op[s] /\ op[s] \in Requests \ {r}
          BY <2>1, <3>2 DEF OwnStep, TypeOK, Maybe
        <4> QED
          BY <1>0, <4>1, <2>1 DEF KeysOwned, OpOwned, Chat
      <3> QED
        BY Zenon, <3>1, <3>2
    <2> QED
      BY Zenon, <2>1 DEF OpOwned, Chat
  <1> QED
    BY Zenon, <1>1, <1>2, <1>3, <1>4 DEF KeysOwned

(* The same for what a query holds ... *)
LEMMA HeldKept ==
  ASSUME QueryAssumption, TypeOK, LockHeld, OpHeld, NEW r \in Requests, RequestStep(r),
         DeletionStep(r), HeldStep(r)
  PROVE  LockHeld' /\ OpHeld'
  <1>0. ASSUME NEW q \in Requests \ {r}
        PROVE  /\ InFlight(q)' => InFlight(q)
               /\ frame'[q].chat = frame[q].chat /\ frame'[q].trk = frame[q].trk
               /\ Cancelled(q) => Cancelled(q)'
    <2>1. pc'[q] = pc[q] /\ Alike(frame'[q], frame[q])
      BY Zenon DEF RequestStep, Goes
    <2>2. Cancelled(q) => Cancelled(q)'
      <3>1. frame[q].chat \in Maybe(Chats)
        BY Zenon DEF TypeOK, Frames
      <3> QED
        BY Zenon, <2>1, <3>1 DEF DeletionStep, Cancelled, Chat, Alike, Maybe
    <2> QED
      BY Zenon, <2>1, <2>2 DEF InFlight, Alike
  <1>1. LockHeld'
    <2>1. ASSUME NEW q \in Requests, InFlight(q)', ~(frame'[q].trk # None /\ Cancelled(q)')
          PROVE  lock'[Http[q]] = q
      <3>1. CASE q = r
        BY Zenon, <2>1, <3>1 DEF HeldStep
      <3>2. CASE q # r
        <4>1. q \in Requests \ {r} /\ InFlight(q) /\ ~(frame[q].trk # None /\ Cancelled(q))
          BY Zenon, <1>0, <2>1, <3>2
        <4> QED
          BY Zenon, <4>1 DEF HeldStep, LockHeld
      <3> QED
        BY Zenon, <3>1, <3>2
    <2> QED
      BY Zenon, <2>1 DEF LockHeld
  <1>2. OpHeld'
    <2>1. ASSUME NEW q \in Requests, Registered(q)'
          PROVE  frame'[q].chat \in Chats /\ (Cancelled(q)' \/ op'[frame'[q].chat] = q)
      <3>1. CASE q = r
        BY Zenon, <2>1, <3>1 DEF HeldStep, Chat
      <3>2. CASE q # r
        <4>1. q \in Requests \ {r} /\ Registered(q)
          BY Zenon, <1>0, <2>1, <3>2 DEF Registered
        <4>2. Chat(q) \in Chats /\ (Cancelled(q) \/ op[Chat(q)] = q)
          BY Zenon, <4>1 DEF OpHeld
        <4>3. op[Chat(q)] = q => op'[Chat(q)] = q \/ Cancelled(q)
          BY Zenon, <4>1, <4>2 DEF HeldStep, Cancelled, QueryAssumption
        <4> QED
          BY Zenon, <1>0, <4>1, <4>2, <4>3 DEF Chat
      <3> QED
        BY Zenon, <3>1, <3>2
    <2> QED
      BY Zenon, <2>1 DEF OpHeld, Chat
  <1> QED
    BY Zenon, <1>1, <1>2

(* ... and for what a deletion finds. *)
LEMMA DeletionsKept ==
  ASSUME QueryAssumption, TypeOK, DeletionsOK, NEW r \in Requests, RequestStep(r), DeletionStep(r)
  PROVE  DeletionsOK'
  <1>1. ASSUME NEW q \in Requests PROVE DeletionOK(q)'
    <2>1. CASE q = r
      BY Zenon, <2>1 DEF DeletionStep
    <2>2. CASE q # r
      <3>1. pc'[q] = pc[q] /\ DeletionOK(q)
        BY Zenon, <2>2 DEF RequestStep, Goes, DeletionsOK
      <3>2. Target[q] \in Chats /\ q # None /\ r # None
        BY Zenon DEF QueryAssumption
      <3>3. /\ marker[Target[q]] # None => marker'[Target[q]] = marker[Target[q]]
            /\ Target[q] \in sessions => Target[q] \in sessions' \/ marker[Target[q]] = r
        BY Zenon, <3>2 DEF DeletionStep
      <3> QED
        BY Zenon, <2>2, <3>1, <3>2, <3>3 DEF DeletionOK
    <2> QED
      BY Zenon, <2>1, <2>2
  <1> QED
    BY Zenon, <1>1 DEF DeletionsOK

-----------------------------------------------------------------------------
(* The steps under the lock. *)
LEMMA QueryMoveOwns ==
  ASSUME QueryAssumption, TypeOK, KeysOwned, NEW r \in Requests, RequestOK(r), QueryMove(r)
  PROVE  OwnStep(r)
  <1>0. UNCHANGED <<lock, inflight>> /\ pc[r] \in Inside /\ pc'[r] \in Inside \cup {"fin_op"}
    BY Zenon DEF QueryMove, InsideStep, Goes
  <1>1. r # None /\ r \in Maybe(Requests)
    BY Zenon DEF QueryAssumption, Maybe
  <1>2. pc'[r] \in LockPcs /\ pc'[r] \in EntryPcs /\ pc'[r] \in OpPcs /\ pc[r] \in Entered
    BY Zenon, <1>0, LockLabels
  <1>3. \A h \in HttpSessions : lock[h] = r => h = Http[r]
    BY Zenon, <1>1 DEF KeysOwned, LockOwned
  <1>4. \A x \in Workers \X HttpSessions : inflight[x] = r => x = Slot(r)
    BY Zenon, <1>1 DEF KeysOwned, EntryOwned
  <1>5. inflight[Slot(r)] = r
    BY Zenon, <1>2 DEF KeysOwned, EntryHeld
  <1>6. \A s \in Chats : op[s] = r => frame'[r].chat = s /\ frame'[r].trk # None
    <2>1. \A s \in Chats : op[s] = r => frame[r].chat = s /\ frame[r].trk # None
      BY Zenon, <1>1 DEF KeysOwned, OpOwned, Chat
    <2> QED
      BY Zenon, <2>1 DEF QueryMove, InsideStep, FrameInside
  <1>7. \A s \in Chats : op'[s] \in {None, op[s], r} /\ (op'[s] = r => frame'[r].chat = s /\ frame'[r].trk # None)
    <2>1. CASE op' = op
      BY Zenon, <1>6, <2>1
    <2>2. CASE op' # op
      <3>1. /\ op' = [op EXCEPT ![frame[r].chat] = r] /\ pc' = [pc EXCEPT ![r] = "track"]
            /\ frame' = [frame EXCEPT ![r].operation = TRUE, ![r].trk = OperationAttempt(r)]
        BY <2>2, Zenon DEF QueryMove, RegisterQueryOperation, Goto, AwaitThen, Chat
      <3>2. frame'[r].chat = frame[r].chat
        BY <3>1, SMTT(30) DEF TypeOK, Frames
      <3>3. frame'[r].trk # None
        <4>1. pc'[r] = "track" /\ RequestOK(r)'
          BY Zenon, <3>1 DEF TypeOK, QueryMove, InsideStep
        <4> QED
          BY Zenon, <4>1, WorkingHas DEF RequestOK, LabelFits
      <3> QED
        BY Zenon, <1>6, <3>1, <3>2, <3>3 DEF TypeOK
    <2> QED
      BY Zenon, <2>1, <2>2
  <1> QED
    BY ZenonT(30), <1>0, <1>2, <1>3, <1>4, <1>5, <1>7 DEF OwnStep

(* They keep the keys of the query ... *)
LEMMA QueryMoveHeld ==
  ASSUME QueryAssumption, TypeOK, KeysOwned, LockHeld, OpHeld, NEW r \in Requests, RequestOK(r),
         QueryMove(r)
  PROVE  HeldStep(r)
  <1>0. /\ UNCHANGED <<lock, marker>> /\ pc[r] \in Inside
        /\ frame[r].late => frame'[r].late
        /\ frame'[r].chat = frame[r].chat \/ frame[r].trk = None
        /\ frame[r].trk # None => frame'[r].trk # None
        /\ frame[r].trk = None => frame'[r].trk = None \/ RegisterQueryOperation(r)
    BY Zenon DEF QueryMove, InsideStep, FrameInside
  <1>1. \A q \in Requests \ {r} : \A s \in Chats : op[s] = q => op'[s] = q
    <2>1. CASE op' = op
      BY Zenon, <2>1
    <2>2. CASE op' # op
      <3>1. op[frame[r].chat] = None /\ op' = [op EXCEPT ![frame[r].chat] = r]
        BY <2>2, Zenon DEF QueryMove, RegisterQueryOperation, Chat
      <3> QED
        BY Zenon, <3>1 DEF TypeOK, QueryAssumption
    <2> QED
      BY Zenon, <2>1, <2>2
  <1>2. InFlight(r)' => InFlight(r)
    <2>1. pc[r] \in TimeoutPc => frame[r].late
      BY Zenon DEF RequestOK, LabelFits
    <2> QED
      BY Zenon, <1>0, <2>1, RunningLabels DEF InFlight
  <1>3. frame[r].trk # None /\ Cancelled(r) => Cancelled(r)'
    BY Zenon, <1>0 DEF Cancelled, Chat
  <1>4. InFlight(r)' => lock'[Http[r]] = r \/ (frame'[r].trk # None /\ Cancelled(r)')
    BY Zenon, <1>0, <1>2, <1>3 DEF LockHeld
  <1>5. ASSUME Registered(r)'
        PROVE  frame'[r].chat \in Chats /\ (Cancelled(r)' \/ op'[frame'[r].chat] = r)
    <2>0. InFlight(r) /\ frame'[r].trk # None
      BY Zenon, <1>2, <1>5 DEF Registered
    <2>1. CASE frame[r].trk # None
      <3>1. /\ frame'[r].chat = frame[r].chat /\ frame[r].chat \in Chats
            /\ Cancelled(r) \/ op[frame[r].chat] = r
        BY Zenon, <1>0, <2>0, <2>1 DEF OpHeld, Registered, Chat
      <3>2. op' = op
        <4>1. RegisterQueryOperation(r) => pc[r] = "register"
          BY Zenon DEF RegisterQueryOperation, At
        <4>2. pc[r] # "register"
          BY Zenon, <2>1 DEF RequestOK, LabelFits, Unregistered
        <4> QED
          BY Zenon, <4>1, <4>2 DEF QueryMove
      <3> QED
        BY Zenon, <1>3, <2>1, <3>1, <3>2
    <2>2. CASE frame[r].trk = None
      <3>1. RegisterQueryOperation(r) /\ pc[r] = "register"
        BY Zenon, <1>0, <2>0, <2>2 DEF RegisterQueryOperation, At
      <3>2. frame[r].chat \in Chats
        <4>1. IsQuery(r)
          BY Zenon, <1>0, LockLabels, QueryOnly DEF RequestOK
        <4>2. Kind[r] = "submit" => frame[r].chat = Target[r] /\ Target[r] \in Chats
          BY Zenon DEF RequestOK, FrameFits, QueryAssumption
        <4>3. IsRetry(r) => frame[r].chat \in Chats
          BY Zenon, <3>1 DEF RequestOK, FrameFits, LabelFits, Loaded
        <4> QED
          BY ZenonT(30), <4>1, <4>2, <4>3 DEF IsQuery
      <3>3. CASE op[frame[r].chat] = None
        <4>1. /\ op' = [op EXCEPT ![frame[r].chat] = r]
              /\ frame' = [frame EXCEPT ![r].operation = TRUE, ![r].trk = OperationAttempt(r)]
          BY <3>1, <3>3, Zenon DEF RegisterQueryOperation, Chat
        <4>2. frame'[r].chat = frame[r].chat
          BY <4>1, SMTT(30) DEF TypeOK, Frames
        <4> QED
          BY ZenonT(30), <3>2, <4>1, <4>2 DEF TypeOK
      <3>4. CASE op[frame[r].chat] # None
        <4>1. frame' = [frame EXCEPT ![r].operation = TRUE, ![r].ok = FALSE]
          BY <3>1, <3>4, Zenon DEF RegisterQueryOperation, Chat
        <4>2. frame'[r].trk = frame[r].trk
          BY <4>1, SMTT(30) DEF TypeOK, Frames
        <4> QED
          BY Zenon, <2>0, <2>2, <4>2
      <3> QED
        BY Zenon, <3>3, <3>4
    <2> QED
      BY Zenon, <2>1, <2>2
  <1> QED
    BY Zenon, <1>0, <1>1, <1>4, <1>5 DEF HeldStep, Chat

(* ... and delete nothing. *)
LEMMA QueryMoveDeletes ==
  ASSUME QueryAssumption, TypeOK, NEW r \in Requests, QueryMove(r)
  PROVE  DeletionStep(r)
  <1>1. UNCHANGED <<marker, sessions>> /\ pc'[r] \in Inside \cup {"fin_op"}
    BY Zenon DEF QueryMove, InsideStep, Goes, database
  <1>2. pc'[r] \notin DeletePc
    BY Zenon, <1>1, OutsideLabels DEF DeletePc
  <1> QED
    BY Zenon, <1>1, <1>2 DEF DeletionStep, DeletionOK, DeletePc, Deleting

-----------------------------------------------------------------------------
(* A step that leaves the request outside the try block, or that has       *)
(* nothing to do with a deletion.                                          *)
LEMMA OutsideHeld ==
  ASSUME QueryAssumption, NEW r \in Requests, pc'[r] \notin Inside,
         \A q \in Requests \ {r} : lock[Http[q]] = q => lock'[Http[q]] = q,
         \A q \in Requests \ {r} : \A s \in Chats : op[s] = q => op'[s] = q
  PROVE  HeldStep(r)
  <1>1. ~InFlight(r)'
    BY Zenon, RunningLabels DEF InFlight
  <1> QED
    BY Zenon, <1>1 DEF HeldStep, Registered

(* A step that marks and deletes nothing. *)
LEMMA NoDeletion ==
  ASSUME NEW r \in Requests, marker' = marker, sessions \subseteq sessions', pc'[r] \notin DeletePc
  PROVE  DeletionStep(r)
  BY Zenon DEF DeletionStep, DeletionOK, Deleting, DeletePc

(* A quiet step keeps to the rules. *)
LEMMA QuietOwns ==
  ASSUME QueryAssumption, TypeOK, KeysOwned, NEW r \in Requests, Quiet(r)
  PROVE  OwnStep(r) /\ HeldStep(r)
  <1>0. r # None /\ UNCHANGED <<lock, op, inflight>> /\ Slot(r) \in Workers \X HttpSessions
    BY Zenon, SlotType DEF Quiet
  <1>1. pc'[r] \notin Entered /\ pc'[r] \notin Inside
    BY Zenon, OutsideLabels DEF Quiet
  <1>2. \A h \in HttpSessions : lock[h] = r => h = Http[r] /\ pc[r] \in LockPcs
    BY Zenon, <1>0 DEF KeysOwned, LockOwned
  <1>3. \A x \in Workers \X HttpSessions : inflight[x] = r => x = Slot(r) /\ pc[r] \in EntryPcs
    BY Zenon, <1>0 DEF KeysOwned, EntryOwned
  <1>4. \A s \in Chats : op[s] = r => frame[r].chat = s /\ frame[r].trk # None /\ pc[r] \in OpPcs
    BY Zenon, <1>0 DEF KeysOwned, OpOwned, Chat
  <1>5. CASE pc[r] = "end"
    <2>1. /\ pc[r] \in LockPcs \/ pc[r] \in EntryPcs \/ pc[r] \in OpPcs =>
                pc'[r] \in LockPcs /\ pc'[r] \in EntryPcs /\ pc'[r] \in OpPcs
          /\ frame'[r].chat = frame[r].chat /\ frame'[r].trk = frame[r].trk
      BY Zenon, <1>5, LeakedLabels DEF Quiet, Alike
    <2>2. OwnStep(r)
      BY ZenonT(30), <1>0, <1>1, <1>2, <1>3, <1>4, <2>1 DEF OwnStep
    <2> QED
      BY Zenon, <1>0, <1>1, <2>2, OutsideHeld
  <1>6. CASE pc[r] # "end"
    <2>1. pc[r] \notin LockPcs /\ pc[r] \notin EntryPcs /\ pc[r] \notin OpPcs
      <3>1. pc[r] \in {"start"} \cup AcceptPc \cup DeletePc /\ pc[r] # "reserved"
        BY Zenon, <1>6 DEF Quiet, AcceptPc, DeletePc
      <3> QED
        BY Zenon, <3>1, OwnsNothing
    <2>2. OwnStep(r)
      BY ZenonT(30), <1>0, <1>1, <1>2, <1>3, <1>4, <2>1 DEF OwnStep
    <2> QED
      BY ZenonT(30), <1>0, <1>1, <2>2, OutsideHeld
  <1> QED
    BY Zenon, <1>5, <1>6

(***************************************************************************)
(* acquire_lock: the entry of _inflight_owners, then the Redis key.        *)
(***************************************************************************)
LEMMA AcquireSteps ==
  ASSUME QueryAssumption, TypeOK, KeysOwned, NEW r \in Requests, RequestOK(r),
         AcquireLockBegin(r) \/ AcquireLock(r)
  PROVE  OwnStep(r) /\ HeldStep(r) /\ DeletionStep(r)
  <1>0. r # None /\ Slot(r) \in Workers \X HttpSessions /\ Http[r] \in HttpSessions
    BY Zenon, SlotType
  <1>1. pc[r] \in {"start", "ready", "reserved"} /\ UNCHANGED <<op, marker, sessions>>
    BY Zenon DEF AcquireLockBegin, AcquireLock, At, redis, database
  <1>2. /\ \A h \in HttpSessions : lock[h] # r
        /\ \A s \in Chats : op[s] # r
    <2>1. pc[r] \notin LockPcs /\ pc[r] \notin OpPcs
      BY Zenon, <1>1, OwnsNothing
    <2> QED
      BY Zenon, <1>0, <2>1 DEF KeysOwned, LockOwned, OpOwned
  <1>3. \A x \in Workers \X HttpSessions : inflight[x] = r => x = Slot(r) /\ pc[r] \in EntryPcs
    BY Zenon, <1>0 DEF KeysOwned, EntryOwned
  <1>4. CASE AcquireLockBegin(r)
    <2>0. UNCHANGED lock /\ pc[r] \in {"start", "ready"}
      BY <1>4, Zenon DEF AcquireLockBegin, redis, At
    <2>1. \A x \in Workers \X HttpSessions : inflight[x] # r
      <3>1. pc[r] \notin EntryPcs
        BY Zenon, <2>0, OwnsNothing
      <3> QED
        BY Zenon, <1>3, <3>1
    <2>2. \/ /\ inflight[Slot(r)] = None /\ inflight' = [inflight EXCEPT ![Slot(r)] = r]
             /\ pc' = [pc EXCEPT ![r] = "reserved"]
          \/ inflight' = inflight /\ pc' = [pc EXCEPT ![r] = "done"]
      BY <1>4, Zenon DEF AcquireLockBegin, Goto, AwaitThen
    <2>3. \/ pc'[r] = "reserved" /\ inflight'[Slot(r)] = r
          \/ pc'[r] = "done" /\ inflight' = inflight
      BY Zenon, <1>0, <2>2 DEF TypeOK
    <2>4. pc'[r] \notin Inside /\ pc'[r] \notin DeletePc
      BY Zenon, <2>3, LockLabels, OutsideLabels DEF DeletePc, Inside, TryPc, Stages, TimeoutPc
    <2>5. \A x \in Workers \X HttpSessions : \/ inflight'[x] = inflight[x]
                                             \/ x = Slot(r) /\ inflight[x] = None /\ pc'[r] = "reserved"
      BY ZenonT(30), <1>0, <2>2 DEF TypeOK
    <2>6. OwnStep(r)
      <3>1. pc'[r] \in Entered => pc'[r] = "reserved"
        BY Zenon, <2>3, OutsideLabels
      <3>2. "reserved" \in EntryPcs
        BY Zenon, LockLabels
      <3>3. \A x \in Workers \X HttpSessions :
                /\ inflight'[x] \in {None, inflight[x], r}
                /\ inflight[x] \notin {None, r} => inflight'[x] = inflight[x]
                /\ inflight'[x] = r => x = Slot(r) /\ pc'[r] \in EntryPcs
        BY Zenon, <2>1, <2>3, <2>5, <3>2
      <3> QED
        BY Zenon, <1>1, <1>2, <2>0, <2>3, <3>1, <3>3 DEF OwnStep
    <2> QED
      BY ZenonT(30), <1>1, <2>0, <2>4, <2>6, OutsideHeld, NoDeletion
  <1>5. CASE AcquireLock(r)
    <2>0. pc[r] = "reserved" /\ inflight[Slot(r)] = r
      <3>1. pc[r] = "reserved"
        BY Zenon, <1>5 DEF AcquireLock, At
      <3> QED
        BY <3>1, LockLabels DEF KeysOwned, EntryHeld
    <2>1. CASE lock[Http[r]] = None
      <3>1. /\ lock' = [lock EXCEPT ![Http[r]] = r] /\ inflight' = inflight
            /\ pc' = [pc EXCEPT ![r] = IF Kind[r] = "submit" THEN "prepare" ELSE "load_active"]
        BY <1>5, <2>1, Zenon DEF AcquireLock, Goto, AwaitThen
      <3>2. lock'[Http[r]] = r /\ pc'[r] \in {"prepare", "load_active"} /\ UNCHANGED frame
        BY Zenon, <1>0, <1>5, <3>1 DEF TypeOK, AcquireLock
      <3>3. \A h \in HttpSessions : h # Http[r] => lock'[h] = lock[h]
        BY Zenon, <3>1 DEF TypeOK
      <3>4. pc'[r] \in Locked /\ pc'[r] \in LockPcs /\ pc'[r] \in EntryPcs /\ pc'[r] \notin DeletePc
        BY Zenon, <3>2, LockLabels DEF DeletePc
      <3>5. OwnStep(r)
        BY ZenonT(30), <1>1, <1>2, <1>3, <2>0, <3>1, <3>2, <3>3, <3>4 DEF OwnStep
      <3>6. HeldStep(r)
        <4>1. \A q \in Requests \ {r} : lock[Http[q]] = q => lock'[Http[q]] = q
          BY ZenonT(30), <2>1, <3>3, SlotType
        <4>2. ~Registered(r)'
          BY Zenon, <2>0, <3>2 DEF Registered, RequestOK, LabelFits, Unregistered
        <4> QED
          BY Zenon, <1>1, <3>2, <4>1, <4>2 DEF HeldStep
      <3> QED
        BY Zenon, <1>1, <3>4, <3>5, <3>6, NoDeletion
    <2>2. CASE lock[Http[r]] # None
      <3>1. /\ lock' = lock /\ inflight' = [inflight EXCEPT ![Slot(r)] = None]
            /\ pc' = [pc EXCEPT ![r] = "done"]
        BY <1>5, <2>2, Zenon DEF AcquireLock, Goto, AwaitThen
      <3>2. pc'[r] = "done" /\ inflight'[Slot(r)] = None
        BY Zenon, <1>0, <3>1 DEF TypeOK
      <3>3. \A x \in Workers \X HttpSessions : x # Slot(r) => inflight'[x] = inflight[x]
        BY Zenon, <3>1 DEF TypeOK
      <3>4. pc'[r] \notin Entered /\ pc'[r] \notin Inside /\ pc'[r] \notin DeletePc
        BY Zenon, <3>2, OutsideLabels DEF DeletePc
      <3>5. OwnStep(r)
        <4>1. \A x \in Workers \X HttpSessions :
                  /\ inflight'[x] \in {None, inflight[x], r}
                  /\ inflight[x] \notin {None, r} => inflight'[x] = inflight[x]
                  /\ inflight'[x] # r
          <5> SUFFICES ASSUME NEW x \in Workers \X HttpSessions
                       PROVE  /\ inflight'[x] \in {None, inflight[x], r}
                              /\ inflight[x] \notin {None, r} => inflight'[x] = inflight[x]
                              /\ inflight'[x] # r
            BY Zenon
          <5>1. CASE x = Slot(r)
            BY Zenon, <5>1, <1>0, <2>0, <3>2
          <5>2. CASE x # Slot(r)
            BY Zenon, <5>2, <1>0, <1>1, <1>2, <1>3, <2>0, <3>3
          <5> QED
            BY Zenon, <5>1, <5>2
        <4> QED
          BY Zenon, <1>0, <1>1, <1>2, <1>3, <2>0, <3>1, <3>2, <3>4, <4>1 DEF OwnStep
      <3> QED
        BY Zenon, <1>1, <3>1, <3>4, <3>5, OutsideHeld, NoDeletion
    <2> QED
      BY Zenon, <2>1, <2>2
  <1> QED
    BY Zenon, <1>4, <1>5

(***************************************************************************)
(* The finally clause.                                                     *)
(***************************************************************************)
LEMMA FinallySteps ==
  ASSUME QueryAssumption, TypeOK, KeysOwned, NEW r \in Requests,
         ClearQueryOperation(r) \/ ClearQueryOperationFails(r) \/ ReleaseLockIfOwned(r)
  PROVE  OwnStep(r) /\ HeldStep(r) /\ DeletionStep(r)
  <1>0. r # None /\ Slot(r) \in Workers \X HttpSessions /\ Http[r] \in HttpSessions
    BY Zenon, SlotType
  <1>1. UNCHANGED <<marker, sessions>>
    BY Zenon DEF ClearQueryOperation, ClearQueryOperationFails, ReleaseLockIfOwned, redis, database
  <1>2. \A h \in HttpSessions : lock[h] = r => h = Http[r]
    BY Zenon, <1>0 DEF KeysOwned, LockOwned
  <1>3. \A x \in Workers \X HttpSessions : inflight[x] = r => x = Slot(r)
    BY Zenon, <1>0 DEF KeysOwned, EntryOwned
  <1>4. \A s \in Chats : op[s] = r => frame[r].chat = s /\ frame[r].trk # None /\ pc[r] \in OpPcs
    BY Zenon, <1>0 DEF KeysOwned, OpOwned, Chat
  <1>5. pc[r] \in {"fin_op", "fin_lock"} /\ inflight[Slot(r)] = r
    <2>1. pc[r] \in {"fin_op", "fin_lock"}
      BY Zenon DEF ClearQueryOperation, ClearQueryOperationFails, ReleaseLockIfOwned, At
    <2> QED
      BY Zenon, <2>1, LockLabels DEF KeysOwned, EntryHeld
  <1>6. CASE ClearQueryOperation(r)
    <2>1. /\ UNCHANGED <<lock, inflight>> /\ pc' = [pc EXCEPT ![r] = "fin_lock"]
          /\ op' = [s \in Chats |-> IF op[s] = r THEN None ELSE op[s]]
      BY <1>6, Zenon DEF ClearQueryOperation, Goto, AwaitThen
    <2>2. pc'[r] = "fin_lock"
      BY Zenon, <2>1 DEF TypeOK
    <2>3. pc'[r] \in LockPcs /\ pc'[r] \in EntryPcs
      BY Zenon, <2>2, LockLabels
    <2>4. pc'[r] \notin Inside /\ pc'[r] \notin DeletePc
      BY Zenon, <2>2 DEF DeletePc, Inside, TryPc, Stages, TimeoutPc
    <2>5. \A s \in Chats : op'[s] # r /\ op'[s] \in {None, op[s]} /\ (op[s] # r => op'[s] = op[s])
      BY <1>0, <2>1
    <2>6. OwnStep(r)
      BY Zenon, <1>2, <1>3, <1>5, <2>1, <2>3, <2>5 DEF OwnStep
    <2> QED
      BY ZenonT(30), <1>1, <2>1, <2>4, <2>5, <2>6, OutsideHeld, NoDeletion
  <1>7. CASE ClearQueryOperationFails(r)
    <2>1. /\ UNCHANGED <<lock, op, inflight>> /\ pc' = [pc EXCEPT ![r] = "end"] /\ "redis" \in Faults
          /\ frame' = [frame EXCEPT ![r].ok = FALSE]
      BY <1>7, Zenon DEF ClearQueryOperationFails, Goto, AwaitThen, redis
    <2>2. pc'[r] = "end"
      BY Zenon, <2>1 DEF TypeOK
    <2>3. pc'[r] \in LockPcs /\ pc'[r] \in EntryPcs /\ pc'[r] \in OpPcs
      BY <2>1, <2>2 DEF LockPcs, EntryPcs, OpPcs, Leaked
    <2>4. pc'[r] \notin Inside /\ pc'[r] \notin Entered /\ pc'[r] \notin DeletePc
      BY Zenon, <2>2, OutsideLabels DEF DeletePc
    <2>5. frame'[r].chat = frame[r].chat /\ frame'[r].trk = frame[r].trk
      BY <2>1, SMTT(30) DEF TypeOK, Frames
    <2>6. OwnStep(r)
      BY ZenonT(30), <1>2, <1>3, <1>4, <2>1, <2>3, <2>4, <2>5 DEF OwnStep
    <2> QED
      BY ZenonT(30), <1>1, <2>1, <2>4, <2>6, OutsideHeld, NoDeletion
  <1>8. CASE ReleaseLockIfOwned(r)
    <2>1. /\ lock' = [lock EXCEPT ![Http[r]] = IF @ = r THEN None ELSE @]
          /\ inflight' = [inflight EXCEPT ![Slot(r)] = IF @ = r THEN None ELSE @]
          /\ pc' = [pc EXCEPT ![r] = "end"] /\ UNCHANGED op /\ pc[r] = "fin_lock"
      BY <1>8, Zenon DEF ReleaseLockIfOwned, Goto, AwaitThen, At
    <2>2. pc'[r] = "end"
      BY Zenon, <2>1 DEF TypeOK
    <2>3. pc'[r] \notin Inside /\ pc'[r] \notin Entered /\ pc'[r] \notin DeletePc
      BY ZenonT(30), <2>2, OutsideLabels DEF DeletePc
    <2>4. \A h \in HttpSessions : lock'[h] # r /\ (lock[h] # r => lock'[h] = lock[h])
                                  /\ lock'[h] \in {None, lock[h]}
      BY Zenon, <1>0, <1>2, <2>1 DEF TypeOK
    <2>5. \A x \in Workers \X HttpSessions : /\ inflight'[x] # r /\ inflight'[x] \in {None, inflight[x]}
                                             /\ inflight[x] # r => inflight'[x] = inflight[x]
      BY ZenonT(30), <1>0, <1>3, <2>1 DEF TypeOK
    <2>6. \A s \in Chats : op[s] # r
      <3>1. "fin_lock" \notin OpPcs
        BY DEF OpPcs, Inside, TryPc, Stages, TimeoutPc, Leaked
      <3> QED
        BY Zenon, <1>4, <2>1, <3>1
    <2>7. OwnStep(r)
      BY Zenon, <2>1, <2>3, <2>4, <2>5, <2>6 DEF OwnStep
    <2> QED
      BY Zenon, <1>0, <1>1, <2>1, <2>3, <2>4, <2>7, OutsideHeld, NoDeletion, SlotType
  <1> QED
    BY Zenon, <1>6, <1>7, <1>8

-----------------------------------------------------------------------------
(* The steps outside the lock. *)
LEMMA AcceptQuiet ==
  ASSUME QueryAssumption, TypeOK, NEW r \in Requests, AcceptStep(r)
  PROVE  Quiet(r) /\ DeletionStep(r)
  <1>1. UNCHANGED <<lock, op, inflight, marker, sessions>>
    BY Zenon DEF AcceptStep, AcceptLock, AcceptCheckActive, AcceptLoadAttempt,
      AcceptFindOrCreateRow, AcceptDeleteAttempt, AcceptDropActive, AcceptAudit, AcceptUnlock,
      redis, database
  <1>2. pc[r] \in AcceptPc
    BY OtherHas, Zenon DEF AcceptStep, AcceptLock, AcceptCheckActive, AcceptLoadAttempt,
      AcceptFindOrCreateRow, AcceptDeleteAttempt, AcceptDropActive, AcceptAudit, AcceptUnlock, At
  <1>3. \E l \in AcceptPc \cup {"end", "done"} : pc' = [pc EXCEPT ![r] = l]
    BY OtherHas, Zenon DEF AcceptStep, AcceptLock, AcceptCheckActive, AcceptLoadAttempt,
      AcceptFindOrCreateRow, AcceptDeleteAttempt, AcceptDropActive, AcceptAudit, AcceptUnlock,
      AcceptRaise, Goto, AwaitThen
  <1>4. pc'[r] \in AcceptPc \cup {"end", "done"}
    BY Zenon, <1>3 DEF TypeOK
  <1>5. pc'[r] \notin DeletePc /\ pc[r] \notin {"start", "end"}
    BY Zenon, <1>2, <1>4 DEF AcceptPc, DeletePc
  <1> QED
    BY Zenon, <1>1, <1>2, <1>4, <1>5, NoDeletion DEF Quiet

(* Opening an attempt and ending a transaction are quiet. *)
LEMMA HandlerQuiet ==
  ASSUME QueryAssumption, TypeOK, NEW r \in Requests, OpenAttempt(r) \/ CommitOrRollback(r),
         RequestStep(r)
  PROVE  Quiet(r) /\ DeletionStep(r)
  <1>1. CASE OpenAttempt(r)
    <2>1. UNCHANGED <<lock, op, inflight, marker, sessions>> /\ pc[r] = "start"
      BY <1>1, Zenon DEF OpenAttempt, At, redis, database
    <2>2. /\ pc' = [pc EXCEPT ![r] = IF IsRetry(r) THEN "ready" ELSE "a_lock"]
          /\ IsRetry(r) \/ Kind[r] = "accept"
      BY <1>1, Zenon DEF OpenAttempt, Goto, AwaitThen
    <2>3. pc'[r] \in {"ready", "a_lock"} /\ (pc'[r] = "ready" \/ Kind[r] = "accept")
      BY Zenon, <2>2 DEF TypeOK
    <2> QED
      BY Zenon, <2>1, <2>3, OtherHas, NoDeletion DEF Quiet, DeletePc
  <1>2. CASE CommitOrRollback(r)
    <2>1. UNCHANGED <<lock, op, inflight, marker>> /\ pc[r] = "end" /\ pc' = [pc EXCEPT ![r] = "done"]
      BY <1>2, Zenon DEF CommitOrRollback, At, redis, Goto, AwaitThen
    <2>2. sessions \subseteq sessions'
      <3>1. sessions' = sessions \/ sessions' = sessions \cup ({txn[r].creates} \ {None})
        BY <1>2, Zenon DEF CommitOrRollback, database
      <3> QED
        BY Zenon, <3>1
    <2>3. pc'[r] = "done"
      BY Zenon, <2>1 DEF TypeOK
    <2>4. Alike(frame'[r], frame[r])
      <3>1. frame' = frame \/ frame' = [frame EXCEPT ![r].ok = @ /\ ReplyBeforeCommit]
        BY <1>2, Zenon DEF CommitOrRollback
      <3> QED
        BY <3>1, SMTT(30) DEF TypeOK, Frames, Alike
    <2> QED
      BY ZenonT(30), <2>1, <2>2, <2>3, <2>4, NoDeletion DEF Quiet, DeletePc
  <1> QED
    BY Zenon, <1>1, <1>2

(***************************************************************************)
(* delete_session.  The cleanup takes the lock and the operation of the    *)
(* request that is registered on the marked chat session, and no other.    *)
(***************************************************************************)
LEMMA CleanupSteps ==
  ASSUME QueryAssumption, TypeOK, KeysOwned, NEW r \in Requests, RequestStep(r),
         CleanupCancelledSessionState(r)
  PROVE  OwnStep(r) /\ (DeletionsOK => HeldStep(r) /\ DeletionStep(r))
  <1>0. r # None /\ Target[r] \in Chats /\ UNCHANGED <<inflight, marker, sessions>> /\ pc[r] = "d_clean"
    BY Zenon DEF CleanupCancelledSessionState, At, database, QueryAssumption
  <1>1. /\ \A h \in HttpSessions : lock[h] # r
        /\ \A x \in Workers \X HttpSessions : inflight[x] # r
        /\ \A s \in Chats : op[s] # r
    <2>1. pc[r] \notin LockPcs /\ pc[r] \notin OpPcs /\ pc[r] \notin EntryPcs
      BY Zenon, <1>0, OwnsNothing, OtherHas
    <2> QED
      BY Zenon, <1>0, <2>1 DEF KeysOwned, LockOwned, EntryOwned, OpOwned
  <1>2. CASE marker[Target[r]] # r
    <2>1. UNCHANGED <<lock, op>> /\ pc' = [pc EXCEPT ![r] = "d_undo"]
      BY <1>2, Zenon DEF CleanupCancelledSessionState, Goto, AwaitThen
    <2>2. pc'[r] = "d_undo"
      BY Zenon, <2>1 DEF TypeOK
    <2>3. pc'[r] \notin Entered
      BY Zenon, <2>2, OutsideLabels, OtherHas
    <2>4. ~DeletionsOK
      BY Zenon, <1>0, <1>2 DEF DeletionsOK, DeletionOK, Deleting
    <2> QED
      BY ZenonT(30), <1>0, <1>1, <2>1, <2>3, <2>4 DEF OwnStep
  <1>3. CASE marker[Target[r]] = r
    <2>1. /\ lock' = [h \in HttpSessions |->
                        IF op[Target[r]] # None /\ lock[h] = op[Target[r]] THEN None ELSE lock[h]]
          /\ op' = [op EXCEPT ![Target[r]] = None]
          /\ pc' = [pc EXCEPT ![r] = "d_delete"]
      BY <1>3, Zenon DEF CleanupCancelledSessionState, Goto, AwaitThen
    <2>2. pc'[r] = "d_delete"
      BY Zenon, <2>1 DEF TypeOK
    <2>3. pc'[r] \notin Entered /\ pc'[r] \notin Inside
      BY Zenon, <2>2, OutsideLabels, OtherHas
    <2>4. \A h \in HttpSessions : /\ lock'[h] \in {None, lock[h]}
                                  /\ lock'[h] = lock[h] \/ (lock[h] = op[Target[r]] /\ lock[h] # None)
      BY Zenon, <2>1
    <2>5. \A s \in Chats : op'[s] \in {None, op[s]} /\ (s # Target[r] => op'[s] = op[s])
      BY Zenon, <1>0, <2>1 DEF TypeOK
    <2>6. OwnStep(r)
      BY ZenonT(30), <1>0, <1>1, <2>3, <2>4, <2>5 DEF OwnStep
    <2>7. HeldStep(r)
      <3>1. ASSUME NEW q \in Requests \ {r}, lock[Http[q]] = q
            PROVE  lock'[Http[q]] = q \/ (frame[q].trk # None /\ Cancelled(q))
        <4>1. Http[q] \in HttpSessions /\ q # None
          BY Zenon, SlotType
        <4>2. CASE op[Target[r]] # q
          BY Zenon, <2>4, <3>1, <4>1, <4>2
        <4>3. CASE op[Target[r]] = q
          <5>1. frame[q].chat = Target[r] /\ frame[q].trk # None
            BY Zenon, <1>0, <4>1, <4>3 DEF KeysOwned, OpOwned, Chat
          <5>2. Target[r] # None
            BY Zenon, <1>0 DEF QueryAssumption
          <5> QED
            BY Zenon, <1>0, <1>3, <5>1, <5>2 DEF Cancelled, Chat
        <4> QED
          BY Zenon, <4>2, <4>3
      <3>2. ASSUME NEW q \in Requests \ {r}, NEW s \in Chats, op[s] = q
            PROVE  op'[s] = q \/ marker[s] # None
        BY Zenon, <1>0, <1>3, <2>5, <3>2
      <3>3. ~InFlight(r)'
        BY Zenon, <2>3, RunningLabels DEF InFlight
      <3> QED
        BY Zenon, <3>1, <3>2, <3>3 DEF HeldStep, Registered
    <2>8. DeletionsOK => DeletionStep(r)
      <3>1. DeletionsOK => Target[r] \in sessions
        BY Zenon, <1>0 DEF DeletionsOK, DeletionOK, Deleting
      <3>2. DeletionsOK => DeletionOK(r)'
        BY Zenon, <1>0, <1>3, <2>2, <3>1 DEF DeletionOK, Deleting
      <3> QED
        BY Zenon, <1>0, <3>2 DEF DeletionStep
    <2> QED
      BY Zenon, <2>6, <2>7, <2>8
  <1> QED
    BY Zenon, <1>2, <1>3

(* Every other step of a deletion is quiet ... *)
LEMMA DeleteQuiet ==
  ASSUME QueryAssumption, TypeOK, NEW r \in Requests, RequestStep(r), DeleteStep(r),
         ~CleanupCancelledSessionState(r)
  PROVE  Quiet(r)
  <1>1. UNCHANGED <<lock, op, inflight>>
    BY Zenon DEF DeleteStep, DeleteFindSession, MarkSessionCancelling, CancelLocalSessionWork,
      DeleteSessionRow, DeleteCommit, DeleteUndo, redis, database
  <1>2. pc[r] \in DeletePc \cup {"start"}
    BY OtherHas, Zenon DEF DeleteStep, DeleteFindSession, MarkSessionCancelling,
      CancelLocalSessionWork, DeleteSessionRow, DeleteCommit, DeleteUndo, At
  <1>3. \E l \in DeletePc \cup {"done"} : pc' = [pc EXCEPT ![r] = l]
    BY OtherHas, Zenon DEF DeleteStep, DeleteFindSession, MarkSessionCancelling,
      CancelLocalSessionWork, DeleteSessionRow, DeleteCommit, DeleteUndo, Goto, AwaitThen
  <1>4. pc'[r] \in DeletePc \cup {"done"}
    BY Zenon, <1>3 DEF TypeOK
  <1>5. pc[r] # "end" /\ (pc[r] = "start" => Kind[r] = "delete")
    <2>1. DeleteFindSession(r) \/ pc[r] \in DeletePc
      BY OtherHas, Zenon DEF DeleteStep, MarkSessionCancelling, CancelLocalSessionWork,
        DeleteSessionRow, DeleteCommit, DeleteUndo, At
    <2> QED
      BY Zenon, <1>2, <2>1 DEF DeletePc, DeleteFindSession
  <1> QED
    BY Zenon, <1>1, <1>2, <1>4, <1>5 DEF Quiet

(* ... and deletes only the session it has marked. *)
LEMMA DeleteDeletes ==
  ASSUME QueryAssumption, TypeOK, "commit" \notin Faults, DeletionsOK, NEW r \in Requests, RequestStep(r),
         DeleteStep(r), ~CleanupCancelledSessionState(r)
  PROVE  DeletionStep(r)
  <1>0. r # None /\ Target[r] \in Chats /\ DeletionOK(r)
    BY Zenon DEF QueryAssumption, DeletionsOK
  <1>1. CASE DeleteFindSession(r)
    <2>1. UNCHANGED <<marker, sessions>>
          /\ pc' = [pc EXCEPT ![r] = IF Target[r] \in sessions THEN "d_mark" ELSE "done"]
      BY <1>1, Zenon DEF DeleteFindSession, Goto, AwaitThen, redis, database
    <2>2. pc'[r] = IF Target[r] \in sessions THEN "d_mark" ELSE "done"
      BY Zenon, <2>1 DEF TypeOK
    <2> QED
      BY <2>1, <2>2 DEF DeletionStep, DeletionOK, Deleting
  <1>2. CASE MarkSessionCancelling(r)
    <2>1. UNCHANGED sessions /\ pc[r] = "d_mark"
      BY <1>2, Zenon DEF MarkSessionCancelling, database, At
    <2>2. CASE marker[Target[r]] = None
      <3>1. marker' = [marker EXCEPT ![Target[r]] = r] /\ pc' = [pc EXCEPT ![r] = "d_cancel"]
        BY <1>2, <2>2, Zenon DEF MarkSessionCancelling, Goto, AwaitThen
      <3>2. /\ pc'[r] = "d_cancel" /\ marker'[Target[r]] = r
            /\ \A s \in Chats : s # Target[r] => marker'[s] = marker[s]
        BY Zenon, <1>0, <3>1 DEF TypeOK
      <3> QED
        BY Zenon, <1>0, <2>1, <2>2, <3>2 DEF DeletionStep, DeletionOK, Deleting
    <2>3. CASE marker[Target[r]] # None
      <3>1. UNCHANGED marker /\ pc' = [pc EXCEPT ![r] = "done"]
        BY <1>2, <2>3, Zenon DEF MarkSessionCancelling, Goto, AwaitThen
      <3>2. pc'[r] = "done"
        BY Zenon, <3>1 DEF TypeOK
      <3> QED
        BY Zenon, <2>1, <3>1, <3>2 DEF DeletionStep, DeletionOK, Deleting
    <2> QED
      BY Zenon, <2>2, <2>3
  <1>3. CASE CancelLocalSessionWork(r)
    <2>1. UNCHANGED <<marker, sessions>> /\ pc' = [pc EXCEPT ![r] = "d_clean"] /\ pc[r] = "d_cancel"
      BY <1>3, Zenon DEF CancelLocalSessionWork, Goto, AwaitThen, redis, database, At
    <2>2. pc'[r] = "d_clean"
      BY Zenon, <2>1 DEF TypeOK
    <2> QED
      BY Zenon, <1>0, <2>1, <2>2 DEF DeletionStep, DeletionOK, Deleting
  <1>4. CASE DeleteSessionRow(r)
    <2>1. UNCHANGED <<marker, sessions>> /\ pc[r] = "d_delete"
      BY <1>4, Zenon DEF DeleteSessionRow, redis, database, At
    <2>2. Target[r] \in sessions /\ marker[Target[r]] = r
      BY Zenon, <1>0, <2>1 DEF DeletionOK, Deleting
    <2>3. pc' = [pc EXCEPT ![r] = "d_commit"]
      BY <1>4, <2>2, Zenon DEF DeleteSessionRow, Goto, AwaitThen
    <2>4. pc'[r] = "d_commit"
      BY Zenon, <2>3 DEF TypeOK
    <2> QED
      BY Zenon, <2>1, <2>2, <2>4 DEF DeletionStep, DeletionOK, Deleting
  <1>5. CASE DeleteCommit(r)
    <2>1. UNCHANGED marker /\ pc[r] = "d_commit"
      BY <1>5, Zenon DEF DeleteCommit, redis, At
    <2>2. sessions' = sessions \ {Target[r]} /\ pc' = [pc EXCEPT ![r] = "done"]
      BY <1>5, Zenon DEF DeleteCommit, Goto, AwaitThen
    <2>3. pc'[r] = "done" /\ marker[Target[r]] = r
      BY Zenon, <1>0, <2>1, <2>2 DEF TypeOK, DeletionOK, Deleting
    <2> QED
      BY Zenon, <2>1, <2>2, <2>3 DEF DeletionStep, DeletionOK, Deleting
  <1>6. CASE DeleteUndo(r)
    BY Zenon, <1>0, <1>6 DEF DeleteUndo, At, DeletionOK
  <1> QED
    BY ZenonT(30), <1>1, <1>2, <1>3, <1>4, <1>5, <1>6 DEF DeleteStep

-----------------------------------------------------------------------------
(* Every step of a request keeps to the rules. *)
LEMMA RequestOwns ==
  ASSUME QueryAssumption, OwnInv, NEW r \in Requests, Step(r) \/ Interrupt(r)
  PROVE  OwnStep(r) /\ RequestStep(r)
  <1>1. TypeOK /\ RequestOK(r) /\ KeysOwned /\ RequestStep(r)
    BY Zenon, RequestMoves DEF OwnInv, AttemptInv, RequestsOK
  <1>2. CASE LocalAction(r) \/ KeyAction(r)
    BY Zenon, <1>1, <1>2, QueryMoves, QueryMoveOwns
  <1>3. CASE AcceptStep(r) \/ OpenAttempt(r) \/ CommitOrRollback(r)
    BY Zenon, <1>1, <1>3, AcceptQuiet, HandlerQuiet, QuietOwns
  <1>4. CASE DeleteStep(r)
    BY Zenon, <1>1, <1>4, DeleteQuiet, CleanupSteps, QuietOwns
  <1> QED
    BY ZenonT(30), <1>1, <1>2, <1>3, <1>4, StepCases, AcquireSteps, FinallySteps DEF OuterAction

(* Without a failed commit it also keeps the keys that are held. *)
LEMMA RequestHolds ==
  ASSUME QueryAssumption, LockInv, "commit" \notin Faults, NEW r \in Requests, Step(r) \/ Interrupt(r)
  PROVE  HeldStep(r) /\ DeletionStep(r)
  <1>1. /\ TypeOK /\ RequestOK(r) /\ KeysOwned /\ RequestStep(r)
        /\ DeletionsOK /\ LockHeld /\ OpHeld
    BY Zenon, RequestMoves DEF LockInv, OwnInv, KeysHeld, AttemptInv, RequestsOK
  <1>2. CASE LocalAction(r) \/ KeyAction(r)
    BY Zenon, <1>1, <1>2, QueryMoves, QueryMoveHeld, QueryMoveDeletes
  <1>3. CASE AcceptStep(r) \/ OpenAttempt(r) \/ CommitOrRollback(r)
    BY ZenonT(30), <1>1, <1>3, AcceptQuiet, HandlerQuiet, QuietOwns
  <1>4. CASE DeleteStep(r)
    BY ZenonT(30), <1>1, <1>4, DeleteQuiet, DeleteDeletes, CleanupSteps, QuietOwns
  <1> QED
    BY ZenonT(30), <1>1, <1>2, <1>3, <1>4, StepCases, AcquireSteps, FinallySteps DEF OuterAction

(* A key that expires was that of a request that no longer answers. *)
LEMMA ExpiryOwns ==
  ASSUME QueryAssumption, TypeOK, KeysOwned, Expiry
  PROVE  KeysOwned' /\ (KeysHeld => KeysHeld')
  <1>0. UNCHANGED <<marker, inflight, sessions, pc, frame>>
    BY Zenon DEF Expiry, LockExpires, OperationExpires, AttemptExpires, AcceptLockExpires, database
  <1>1. \/ lock' = lock
        \/ \E h \in HttpSessions : /\ lock[h] # None /\ lock' = [lock EXCEPT ![h] = None]
                                   /\ Finished(lock[h]) \/ Unwinding(lock[h])
    BY Zenon DEF Expiry, LockExpires, OperationExpires, AttemptExpires, AcceptLockExpires
  <1>2. \/ op' = op
        \/ \E s \in Chats : op[s] # None /\ op' = [op EXCEPT ![s] = None] /\ Finished(op[s])
    BY Zenon DEF Expiry, LockExpires, OperationExpires, AttemptExpires, AcceptLockExpires
  <1>3. \A h \in HttpSessions : \/ lock'[h] = lock[h]
                                \/ lock'[h] = None /\ (Finished(lock[h]) \/ Unwinding(lock[h]))
    BY Zenon, <1>1 DEF TypeOK
  <1>4. \A s \in Chats : op'[s] = op[s] \/ (op'[s] = None /\ Finished(op[s]))
    BY Zenon, <1>2 DEF TypeOK
  <1>5. KeysOwned'
    <2>1. LockOwned' /\ OpOwned'
      BY Zenon, <1>0, <1>3, <1>4 DEF KeysOwned, LockOwned, OpOwned, Chat
    <2>2. EntryOwned' /\ EntryHeld'
      BY Zenon, <1>0 DEF KeysOwned, EntryOwned, EntryHeld, Slot
    <2> QED
      BY Zenon, <2>1, <2>2 DEF KeysOwned
  <1>6. ASSUME KeysHeld PROVE KeysHeld'
    <2>1. \A q \in Requests : InFlight(q) => ~Finished(q) /\ ~Unwinding(q)
      BY Zenon, RunningLabels DEF InFlight, Finished, Unwinding
    <2>2. LockHeld'
      <3>1. ASSUME NEW q \in Requests, InFlight(q), ~(frame[q].trk # None /\ Cancelled(q))
            PROVE  lock'[Http[q]] = q
        <4>1. lock[Http[q]] = q /\ Http[q] \in HttpSessions
          BY Zenon, <1>6, <3>1, SlotType DEF KeysHeld, LockHeld
        <4> QED
          BY Zenon, <1>3, <2>1, <3>1, <4>1
      <3> QED
        BY Zenon, <1>0, <3>1 DEF LockHeld, InFlight, Cancelled, Chat
    <2>3. OpHeld'
      <3>1. ASSUME NEW q \in Requests, Registered(q)
            PROVE  Chat(q) \in Chats /\ (Cancelled(q) \/ op'[Chat(q)] = q)
        <4>1. Chat(q) \in Chats /\ (Cancelled(q) \/ op[Chat(q)] = q) /\ ~Finished(q)
          BY Zenon, <1>6, <2>1, <3>1 DEF KeysHeld, OpHeld, Registered
        <4> QED
          BY <1>4, <4>1
      <3> QED
        BY Zenon, <1>0, <3>1 DEF OpHeld, Registered, InFlight, Cancelled, Chat
    <2>4. DeletionsOK'
      BY Zenon, <1>0, <1>6 DEF KeysHeld, DeletionsOK, DeletionOK
    <2> QED
      BY Zenon, <2>2, <2>3, <2>4 DEF KeysHeld
  <1> QED
    BY Zenon, <1>5, <1>6

(* A worker that dies takes its own entries with it, and leaves its keys. *)
LEMMA CrashOwns ==
  ASSUME QueryAssumption, TypeOK, KeysOwned, NEW w \in Workers, WorkerCrash(w)
  PROVE  KeysOwned' /\ (KeysHeld => KeysHeld')
  <1>0. UNCHANGED <<lock, op, marker, sessions, frame>>
    BY Zenon DEF WorkerCrash, redis, database
  <1>1. \A q \in Requests : \/ pc'[q] = pc[q]
                            \/ pc'[q] = "crashed"
    BY Zenon DEF WorkerCrash
  <1>2. \A q \in Requests : pc'[q] \in Entered => pc'[q] = pc[q] /\ Worker[q] # w
    <2>1. ASSUME NEW q \in Requests, Worker[q] = w PROVE pc'[q] \notin Entered
      <3>1. pc'[q] \in {"crashed", "start", "done"}
        BY Zenon, <2>1 DEF WorkerCrash, Alive
      <3> QED
        BY Zenon, <3>1, OutsideLabels
    <2>2. "crashed" \notin Entered
      BY Zenon, OutsideLabels
    <2> QED
      BY Zenon, <1>1, <2>1, <2>2
  <1>3. \A x \in Workers \X HttpSessions : /\ x[1] = w => inflight'[x] = None
                                           /\ x[1] # w => inflight'[x] = inflight[x]
    BY Zenon DEF WorkerCrash
  <1>4. LockOwned'
    <2>1. ASSUME NEW h \in HttpSessions, lock[h] # None
          PROVE  Http[lock[h]] = h /\ pc'[lock[h]] \in LockPcs
      <3>1. lock[h] \in Requests /\ Http[lock[h]] = h /\ pc[lock[h]] \in LockPcs
        BY <2>1 DEF KeysOwned, LockOwned, TypeOK, Maybe
      <3> QED
        BY Zenon, <1>1, <3>1, LockLabels
    <2> QED
      BY Zenon, <1>0, <2>1 DEF LockOwned
  <1>5. OpOwned'
    <2>1. ASSUME NEW s \in Chats, op[s] # None
          PROVE  Chat(op[s]) = s /\ frame[op[s]].trk # None /\ pc'[op[s]] \in OpPcs
      <3>1. op[s] \in Requests /\ Chat(op[s]) = s /\ frame[op[s]].trk # None /\ pc[op[s]] \in OpPcs
        BY Zenon, <2>1 DEF KeysOwned, OpOwned, TypeOK, Maybe
      <3> QED
        BY Zenon, <1>1, <3>1, LockLabels
    <2> QED
      BY Zenon, <1>0, <2>1 DEF OpOwned, Chat
  <1>6. EntryHeld'
    <2>1. ASSUME NEW q \in Requests, pc'[q] \in Entered PROVE inflight'[Slot(q)] = q
      <3>1. inflight[Slot(q)] = q /\ Slot(q) \in Workers \X HttpSessions /\ Slot(q)[1] # w
        BY Zenon, <1>2, <2>1, SlotType DEF KeysOwned, EntryHeld
      <3> QED
        BY Zenon, <1>3, <3>1
    <2> QED
      BY Zenon, <2>1 DEF EntryHeld, Slot
  <1>7. EntryOwned'
    <2>1. ASSUME NEW x \in Workers \X HttpSessions, inflight'[x] # None
          PROVE  Slot(inflight'[x]) = x /\ pc'[inflight'[x]] \in EntryPcs
      <3>1. x[1] # w /\ inflight'[x] = inflight[x]
        BY Zenon, <1>3, <2>1
      <3>2. PICK q \in Requests : q = inflight[x]
        BY Zenon, <2>1, <3>1 DEF TypeOK, Maybe
      <3>3. Slot(q) = x /\ pc[q] \in EntryPcs
        BY Zenon, <2>1, <3>1, <3>2 DEF KeysOwned, EntryOwned
      <3>4. Worker[q] # w
        BY ZenonT(30), <3>1, <3>3, SlotType
      <3>5. pc'[q] = pc[q]
        BY Zenon, <3>4 DEF WorkerCrash
      <3> QED
        BY Zenon, <3>1, <3>2, <3>3, <3>5
    <2> QED
      BY Zenon, <2>1 DEF EntryOwned, Slot
  <1>8. ASSUME KeysHeld PROVE KeysHeld'
    <2>1. \A q \in Requests : InFlight(q)' => InFlight(q)
      BY Zenon, <1>0, <1>1, RunningLabels DEF InFlight
    <2>2. LockHeld'
      BY Zenon, <1>0, <1>8, <2>1 DEF KeysHeld, LockHeld, Cancelled, Chat
    <2>3. OpHeld'
      BY Zenon, <1>0, <1>8, <2>1 DEF KeysHeld, OpHeld, Registered, Cancelled, Chat
    <2>4. DeletionsOK'
      BY Zenon, <1>0, <1>1, <1>8 DEF KeysHeld, DeletionsOK, DeletionOK, Deleting
    <2> QED
      BY Zenon, <2>2, <2>3, <2>4 DEF KeysHeld
  <1> QED
    BY ZenonT(30), <1>4, <1>5, <1>6, <1>7, <1>8 DEF KeysOwned

(* No key is there initially. *)
LEMMA LockInvInit ==
  ASSUME QueryAssumption, Init
  PROVE  LockInv
  <1>1. /\ \A h \in HttpSessions : lock[h] = None
        /\ \A x \in Workers \X HttpSessions : inflight[x] = None
        /\ \A s \in Chats : op[s] = None
        /\ \A q \in Requests : pc[q] = "start"
    BY Zenon DEF Init
  <1>2. "start" \notin Entered /\ "start" \notin Inside
    BY Zenon, OutsideLabels
  <1>3. KeysOwned
    BY <1>1, <1>2 DEF KeysOwned, LockOwned, EntryOwned, EntryHeld, OpOwned
  <1>4. \A q \in Requests : ~InFlight(q)
    BY Zenon, <1>1, <1>2, RunningLabels DEF InFlight
  <1>5. KeysHeld
    BY Zenon, <1>1, <1>4 DEF KeysHeld, LockHeld, OpHeld, Registered, DeletionsOK, DeletionOK, Deleting
  <1> QED
    BY Zenon, <1>3, <1>5, AttemptInvInit DEF LockInv, OwnInv

(* A stuttering step changes no key. *)
LEMMA Stutters ==
  ASSUME UNCHANGED vars
  PROVE  (KeysOwned => KeysOwned') /\ (KeysHeld => KeysHeld')
  <1>1. UNCHANGED <<lock, op, marker, inflight, sessions, pc, frame>>
    BY DEF vars, redis, database
  <1>2. KeysOwned => KeysOwned'
    BY Zenon, <1>1 DEF KeysOwned, LockOwned, EntryOwned, EntryHeld, OpOwned, Slot, Chat
  <1>3. KeysHeld => KeysHeld'
    BY Zenon, <1>1 DEF KeysHeld, LockHeld, OpHeld, DeletionsOK, DeletionOK, InFlight, Registered, Cancelled, Chat
  <1> QED
    BY Zenon, <1>2, <1>3

(* Every step keeps the ownership, under every fault ... *)
LEMMA OwnInvNext ==
  ASSUME QueryAssumption, OwnInv, [Next]_vars
  PROVE  OwnInv'
  <1>0. AttemptInv' /\ TypeOK /\ KeysOwned
    BY Zenon, AttemptInvNext DEF OwnInv, AttemptInv
  <1>1. ASSUME NEW r \in Requests, Step(r) \/ Interrupt(r) PROVE KeysOwned'
    BY Zenon, <1>0, <1>1, RequestOwns, OwnedKept
  <1>2. ASSUME Expiry PROVE KeysOwned'
    BY Zenon, <1>0, <1>2, ExpiryOwns
  <1>3. ASSUME NEW w \in Workers, WorkerCrash(w) PROVE KeysOwned'
    BY Zenon, <1>0, <1>3, CrashOwns
  <1>4. ASSUME UNCHANGED vars PROVE KeysOwned'
    BY Zenon, <1>0, <1>4, Stutters
  <1>5. KeysOwned'
    BY Zenon, <1>1, <1>2, <1>3, <1>4 DEF Next, Idle
  <1> QED
    BY Zenon, <1>0, <1>5 DEF OwnInv

(* ... and what is held, as long as no commit fails. *)
LEMMA LockInvNext ==
  ASSUME QueryAssumption, "commit" \notin Faults, LockInv, [Next]_vars
  PROVE  LockInv'
  <1>0. OwnInv /\ OwnInv' /\ TypeOK /\ KeysOwned /\ KeysHeld
    BY Zenon, OwnInvNext DEF LockInv, OwnInv, AttemptInv
  <1>1. ASSUME NEW r \in Requests, Step(r) \/ Interrupt(r) PROVE KeysHeld'
    <2>1. RequestStep(r) /\ HeldStep(r) /\ DeletionStep(r)
      BY Zenon, <1>0, <1>1, RequestOwns, RequestHolds
    <2> QED
      BY Zenon, <1>0, <2>1, HeldKept, DeletionsKept DEF KeysHeld
  <1>2. ASSUME Expiry PROVE KeysHeld'
    BY Zenon, <1>0, <1>2, ExpiryOwns
  <1>3. ASSUME NEW w \in Workers, WorkerCrash(w) PROVE KeysHeld'
    BY Zenon, <1>0, <1>3, CrashOwns
  <1>4. ASSUME UNCHANGED vars PROVE KeysHeld'
    BY Zenon, <1>0, <1>4, Stutters
  <1>5. KeysHeld'
    BY ZenonT(30), <1>1, <1>2, <1>3, <1>4 DEF Next, Idle
  <1> QED
    BY Zenon, <1>0, <1>5 DEF LockInv

-----------------------------------------------------------------------------
(***************************************************************************)
(* Whatever the environment does, every lock, operation and dictionary     *)
(* entry is that of a request of its own HTTP session, chat or slot that   *)
(* has not passed its finally clause, has crashed, or failed to reach      *)
(* Redis in that clause.                                                   *)
(***************************************************************************)
THEOREM KeysAreOwned == Spec => []OwnInv
  <1>1. Init => OwnInv
    BY Zenon, QueryAssumption, LockInvInit DEF LockInv
  <1>2. OwnInv /\ [Next]_vars => OwnInv'
    BY Zenon, QueryAssumption, OwnInvNext
  <1> QED
    BY <1>1, <1>2, PTL DEF Spec

(***************************************************************************)
(* As long as commits succeed, a query that may still answer has its lock  *)
(* and its operation, unless its chat session is marked as cancelled.      *)
(***************************************************************************)
THEOREM KeysAreHeld ==
  ASSUME "commit" \notin Faults
  PROVE  Spec => []LockInv
  <1>1. Init => LockInv
    BY Zenon, QueryAssumption, LockInvInit
  <1>2. LockInv /\ [Next]_vars => LockInv'
    BY Zenon, QueryAssumption, LockInvNext
  <1> QED
    BY <1>1, <1>2, PTL DEF Spec

(***************************************************************************)
(* Every exit of a handler returns its lock, its dictionary entry and its  *)
(* operation, and nothing but a deletion of its chat session takes the     *)
(* lock before: for any number of requests, workers, HTTP sessions and     *)
(* chats, also when keys expire and workers die.  A commit that fails lets *)
(* a deletion give up its marker, and a Redis error in the finally clause  *)
(* keeps the keys: both are left out here.                                 *)
(***************************************************************************)
THEOREM LocksAreReturned ==
  ASSUME "commit" \notin Faults, "redis" \notin Faults
  PROVE  Spec => []LockIsReturned
  <1>1. LockInv => LockIsReturned
    <2> SUFFICES ASSUME LockInv PROVE FinallyReleases /\ OverlapOnlyWhenCancelled
      BY Zenon DEF LockIsReturned
    <2>1. FinallyReleases
      <3>1. "done" \notin LockPcs /\ "done" \notin EntryPcs /\ "done" \notin OpPcs
        <4>1. "done" \notin Entered /\ "done" \notin Inside /\ "done" \notin Locked
          BY Zenon, OutsideLabels, LockLabels
        <4> QED
          BY Zenon, <4>1 DEF LockPcs, EntryPcs, OpPcs, Leaked
      <3>2. \A q \in Requests : q # None
        BY Zenon, QueryAssumption DEF QueryAssumption
      <3> QED
        BY <3>1, <3>2 DEF LockInv, OwnInv, KeysOwned, LockOwned, EntryOwned, OpOwned, FinallyReleases
    <2>2. OverlapOnlyWhenCancelled
      BY Zenon DEF LockInv, KeysHeld, LockHeld, OverlapOnlyWhenCancelled
    <2> QED
      BY Zenon, <2>1, <2>2
  <1> QED
    BY <1>1, KeysAreHeld, PTL

(***************************************************************************)
(* Two registered operations share a chat session only while it is being   *)
(* cancelled: session_operation:<s> keeps one writer per conversation, for *)
(* any number of workers and HTTP sessions, when keys expire, workers die  *)
(* and Redis fails in a finally clause.                                    *)
(***************************************************************************)
THEOREM OneWriterPerChat ==
  ASSUME "commit" \notin Faults
  PROVE  Spec => []OneOperationPerChat
  <1>1. LockInv => OneOperationPerChat
    <2> SUFFICES ASSUME LockInv, NEW r1 \in Requests, NEW r2 \in Requests, r1 # r2, Registered(r1),
                        Registered(r2), Chat(r1) = Chat(r2), ~Cancelled(r1)
                 PROVE  FALSE
      BY Zenon DEF OneOperationPerChat
    <2>1. ~Cancelled(r2)
      BY Zenon DEF Cancelled
    <2> QED
      BY Zenon, <2>1 DEF LockInv, KeysHeld, OpHeld
  <1> QED
    BY <1>1, KeysAreHeld, PTL

-----------------------------------------------------------------------------
(* The refinement of the lock protocol: the phases of the requests, before *)
(* and after a step.                                                       *)
LEMMA LabelsApart ==
  ASSUME NEW l \in Locked
  PROVE  l \notin {"start", "ready", "reserved", "done", "end", "crashed"}
  BY Zenon, OutsideLabels, OwnsNothing, LockLabels

(* Accept and delete never take the lock. *)
LEMMA NoQuery ==
  ASSUME QueryAssumption, NEW q \in Requests
  PROVE  Kind[q] \in {"accept", "delete"} <=> ~IsQuery(q)
  BY Roles DEF IsQuery, IsRetry, RequestKinds

(* The phase of a request, by its step ... *)
LEMMA PhaseOf ==
  ASSUME QueryAssumption, NEW q \in Requests
  PROVE  /\ ~IsQuery(q) \/ pc[q] \in {"start", "ready"} => LockPhase[q] = "idle"
         /\ IsQuery(q) /\ pc[q] = "reserved" => LockPhase[q] = "reserved"
         /\ IsQuery(q) /\ pc[q] \in {"done", "end", "crashed"} =>
                LockPhase[q] = IF inflight[Slot(q)] = q THEN "held" ELSE "over"
         /\ IsQuery(q) /\ pc[q] \in Locked => LockPhase[q] = "held"
  BY Zenon, NoQuery, LabelsApart DEF LockPhase

(* ... and the same after a step. *)
LEMMA PhaseAfter ==
  ASSUME QueryAssumption, NEW q \in Requests
  PROVE  /\ ~IsQuery(q) \/ pc'[q] \in {"start", "ready"} => LockPhase'[q] = "idle"
         /\ IsQuery(q) /\ pc'[q] = "reserved" => LockPhase'[q] = "reserved"
         /\ IsQuery(q) /\ pc'[q] \in {"done", "end", "crashed"} =>
                LockPhase'[q] = IF inflight'[Slot(q)] = q THEN "held" ELSE "over"
         /\ IsQuery(q) /\ pc'[q] \in Locked => LockPhase'[q] = "held"
  BY Zenon, NoQuery, LabelsApart DEF LockPhase, Slot

(* A step of request r moves its own phase only. *)
LEMMA OthersPhase ==
  ASSUME QueryAssumption, TypeOK, NEW r \in Requests, RequestStep(r), OwnStep(r)
  PROVE  LockPhase' = [LockPhase EXCEPT ![r] = LockPhase'[r]]
  <1>1. ASSUME NEW q \in Requests \ {r} PROVE LockPhase'[q] = LockPhase[q]
    <2>1. pc'[q] = pc[q]
      BY Zenon DEF RequestStep, Goes
    <2>2. inflight'[Slot(q)] = q <=> inflight[Slot(q)] = q
      BY SlotType DEF OwnStep
    <2> QED
      BY Zenon, <2>1, <2>2 DEF LockPhase, Slot
  <1>2. /\ LockPhase' = [q \in Requests |-> LockPhase'[q]]
        /\ LockPhase = [q \in Requests |-> LockPhase[q]]
    BY Zenon DEF LockPhase
  <1> QED
    BY <1>1, <1>2

(* A query is at a step of accept or delete at no time. *)
LEMMA QueryElsewhere ==
  ASSUME QueryAssumption, NEW q \in Requests, NEW l \in AcceptPc \cup DeletePc, Fits(q, l)
  PROVE  ~IsQuery(q)
  BY Zenon, Roles DEF Fits, IsQuery, SubmitLabels, RetryLabels, QueryLabels, AcceptPc, DeletePc

(* A step that keeps the keys and the phase of its request is no step of the lock. *)
LEMMA LockStutters ==
  ASSUME QueryAssumption, TypeOK, NEW r \in Requests, RequestStep(r), OwnStep(r),
         UNCHANGED <<lock, inflight>>, LockPhase'[r] = LockPhase[r]
  PROVE  UNCHANGED Lock!vars
  <1>1. LockPhase = [q \in Requests |-> LockPhase[q]]
    BY Zenon DEF LockPhase
  <1>2. LockPhase' = LockPhase
    BY <1>1, OthersPhase
  <1> QED
    BY <1>2 DEF Lock!vars

(* A step outside the lock moves no phase. *)
LEMMA QuietStutters ==
  ASSUME QueryAssumption, TypeOK, NEW r \in Requests, RequestOK(r), RequestStep(r), OwnStep(r), Quiet(r)
  PROVE  UNCHANGED Lock!vars
  <1>0. UNCHANGED <<lock, inflight>>
    BY Zenon DEF Quiet
  <1>1. LockPhase'[r] = LockPhase[r]
    <2>1. CASE ~IsQuery(r)
      BY <2>1, PhaseOf, PhaseAfter, SMTT(30)
    <2>2. CASE IsQuery(r)
      <3>1. pc[r] \notin AcceptPc \cup DeletePc /\ pc'[r] \notin AcceptPc \cup DeletePc
        BY Zenon, <2>2, QueryElsewhere DEF RequestOK, RequestStep
      <3>2. Kind[r] \notin {"accept", "delete"}
        BY Zenon, <2>2, NoQuery
      <3>3. \/ pc[r] = "start" /\ pc'[r] = "ready"
            \/ pc[r] = "end" /\ pc'[r] = "done"
        BY Zenon, <3>1, <3>2 DEF Quiet
      <3> QED
        BY Zenon, <1>0, <2>2, <3>3, PhaseOf, PhaseAfter
    <2> QED
      BY Zenon, <2>1, <2>2
  <1> QED
    BY Zenon, <1>0, <1>1, LockStutters

(* The steps under the lock, with the first of the finally clause. *)
LEMMA QueryMoveStutters ==
  ASSUME QueryAssumption, TypeOK, NEW r \in Requests, RequestOK(r), RequestStep(r), OwnStep(r),
         QueryMove(r)
  PROVE  UNCHANGED Lock!vars
  <1>0. UNCHANGED <<lock, inflight>> /\ pc[r] \in Inside /\ pc'[r] \in Inside \cup {"fin_op"}
    BY Zenon DEF QueryMove, InsideStep, Goes
  <1>1. pc[r] \in Locked /\ pc'[r] \in Locked
    BY Zenon, <1>0, LockLabels
  <1>2. IsQuery(r)
    BY <1>1, QueryOnly, ZenonT(30) DEF RequestOK
  <1>3. LockPhase'[r] = LockPhase[r]
    BY <1>1, <1>2, PhaseOf, PhaseAfter, SMTT(30)
  <1> QED
    BY Zenon, <1>0, <1>3, LockStutters

(* acquire_lock: the reservation, and the answer 409 of another entry. *)
LEMMA BeginSimulates ==
  ASSUME QueryAssumption, TypeOK, KeysOwned, NEW r \in Requests, RequestStep(r), OwnStep(r),
         AcquireLockBegin(r)
  PROVE  Lock!Next
  <1>0. UNCHANGED lock /\ pc[r] \in {"start", "ready"} /\ IsQuery(r)
    BY Zenon DEF AcquireLockBegin, redis, At, IsQuery
  <1>1. LockPhase[r] = "idle"
    BY Zenon, <1>0, PhaseOf
  <1>2. CASE inflight[Slot(r)] = None
    <2>1. inflight' = [inflight EXCEPT ![Slot(r)] = r] /\ pc' = [pc EXCEPT ![r] = "reserved"]
      BY <1>2, Zenon DEF AcquireLockBegin, Goto, AwaitThen
    <2>2. pc'[r] = "reserved"
      BY ZenonT(30), <2>1 DEF TypeOK
    <2>3. LockPhase' = [LockPhase EXCEPT ![r] = "reserved"]
      BY Zenon, <1>0, <2>2, PhaseAfter, OthersPhase
    <2>4. Lock!ReserveInflightOwner(r)
      BY ZenonT(30), <1>0, <1>1, <1>2, <2>1, <2>3 DEF Lock!ReserveInflightOwner, Lock!Slot, Slot
    <2> QED
      BY Zenon, <2>4 DEF Lock!Next
  <1>3. CASE inflight[Slot(r)] # None
    <2>1. inflight' = inflight /\ pc' = [pc EXCEPT ![r] = "done"]
      BY <1>3, Zenon DEF AcquireLockBegin, Goto, AwaitThen
    <2>2. pc'[r] = "done"
      BY Zenon, <2>1 DEF TypeOK
    <2>3. inflight[Slot(r)] # r
      <3>1. pc[r] \notin EntryPcs
        BY Zenon, <1>0, OwnsNothing
      <3> QED
        BY Zenon, <3>1, SlotType DEF KeysOwned, EntryOwned
    <2>4. LockPhase' = [LockPhase EXCEPT ![r] = "over"]
      BY ZenonT(30), <1>0, <2>1, <2>2, <2>3, PhaseAfter, OthersPhase
    <2>5. Lock!DeniedInflight(r)
      BY Zenon, <1>0, <1>1, <1>3, <2>1, <2>4 DEF Lock!DeniedInflight, Lock!Slot, Slot
    <2> QED
      BY Zenon, <2>5 DEF Lock!Next
  <1> QED
    BY Zenon, <1>2, <1>3

(* acquire_lock: SET NX EX, and its failure on the key of another owner. *)
LEMMA AcquireSimulates ==
  ASSUME QueryAssumption, TypeOK, KeysOwned, NEW r \in Requests, RequestOK(r), RequestStep(r),
         OwnStep(r), AcquireLock(r)
  PROVE  Lock!Next
  <1>0. pc[r] = "reserved" /\ Slot(r) \in Workers \X HttpSessions /\ r # None
    BY Zenon, SlotType DEF AcquireLock, At
  <1>1. IsQuery(r)
    BY <1>0, QueryOnly, ZenonT(30) DEF RequestOK
  <1>2. LockPhase[r] = "reserved" /\ inflight[Slot(r)] = r
    BY Zenon, <1>0, <1>1, PhaseOf, LockLabels DEF KeysOwned, EntryHeld
  <1>3. CASE lock[Http[r]] = None
    <2>1. /\ lock' = [lock EXCEPT ![Http[r]] = r] /\ inflight' = inflight
          /\ pc' = [pc EXCEPT ![r] = IF Kind[r] = "submit" THEN "prepare" ELSE "load_active"]
      BY <1>3, Zenon DEF AcquireLock, Goto, AwaitThen
    <2>2. pc'[r] \in Locked
      BY ZenonT(30), <2>1, LockLabels DEF TypeOK
    <2>3. LockPhase' = [LockPhase EXCEPT ![r] = "held"]
      BY Zenon, <1>1, <2>2, PhaseAfter, OthersPhase
    <2>4. Lock!AcquireLock(r)
      BY ZenonT(30), <1>2, <1>3, <2>1, <2>3 DEF Lock!AcquireLock
    <2> QED
      BY Zenon, <2>4 DEF Lock!Next
  <1>4. CASE lock[Http[r]] # None
    <2>1. /\ lock' = lock /\ inflight' = [inflight EXCEPT ![Slot(r)] = None]
          /\ pc' = [pc EXCEPT ![r] = "done"]
      BY <1>4, Zenon DEF AcquireLock, Goto, AwaitThen
    <2>2. pc'[r] = "done" /\ inflight'[Slot(r)] = None
      BY ZenonT(30), <1>0, <2>1 DEF TypeOK
    <2>3. LockPhase' = [LockPhase EXCEPT ![r] = "over"]
      BY Zenon, <1>0, <1>1, <2>2, PhaseAfter, OthersPhase
    <2>4. Lock!AcquireLockFails(r)
      BY Zenon, <1>2, <2>1, <2>3 DEF Lock!AcquireLockFails, Lock!ReleaseInflightOwner, Lock!Slot, Slot
    <2> QED
      BY Zenon, <2>4 DEF Lock!Next
  <1> QED
    BY Zenon, <1>3, <1>4

(* The finally clause. *)
LEMMA FinallySimulates ==
  ASSUME QueryAssumption, TypeOK, KeysOwned, NEW r \in Requests, RequestOK(r), RequestStep(r),
         OwnStep(r), ClearQueryOperation(r) \/ ClearQueryOperationFails(r) \/ ReleaseLockIfOwned(r)
  PROVE  Lock!Next \/ UNCHANGED Lock!vars
  <1>0. pc[r] \in {"fin_op", "fin_lock"} /\ Slot(r) \in Workers \X HttpSessions /\ r # None
    BY SlotType, Zenon DEF ClearQueryOperation, ClearQueryOperationFails, ReleaseLockIfOwned, At
  <1>1. pc[r] \in Locked /\ inflight[Slot(r)] = r
    BY Zenon, <1>0, LockLabels DEF KeysOwned, EntryHeld
  <1>2. IsQuery(r)
    BY Zenon, <1>1, QueryOnly DEF RequestOK
  <1>3. LockPhase[r] = "held"
    BY Zenon, <1>1, <1>2, PhaseOf
  <1>4. CASE ClearQueryOperation(r)
    <2>1. UNCHANGED <<lock, inflight>> /\ pc' = [pc EXCEPT ![r] = "fin_lock"]
      BY <1>4, Zenon DEF ClearQueryOperation, Goto, AwaitThen
    <2>2. pc'[r] \in Locked
      BY ZenonT(30), <2>1, LockLabels DEF TypeOK
    <2>3. LockPhase'[r] = LockPhase[r]
      BY Zenon, <1>2, <1>3, <2>2, PhaseAfter
    <2> QED
      BY Zenon, <2>1, <2>3, LockStutters
  <1>5. CASE ClearQueryOperationFails(r)
    <2>1. UNCHANGED <<lock, inflight>> /\ pc' = [pc EXCEPT ![r] = "end"]
      BY <1>5, Zenon DEF ClearQueryOperationFails, Goto, AwaitThen, redis
    <2>2. pc'[r] = "end" /\ inflight'[Slot(r)] = r
      BY ZenonT(30), <1>1, <2>1 DEF TypeOK
    <2>3. LockPhase'[r] = LockPhase[r]
      BY Zenon, <1>2, <1>3, <2>2, PhaseAfter
    <2> QED
      BY Zenon, <2>1, <2>3, LockStutters
  <1>6. CASE ReleaseLockIfOwned(r)
    <2>1. /\ lock' = [lock EXCEPT ![Http[r]] = IF @ = r THEN None ELSE @]
          /\ inflight' = [inflight EXCEPT ![Slot(r)] = IF @ = r THEN None ELSE @]
          /\ pc' = [pc EXCEPT ![r] = "end"]
      BY <1>6, Zenon DEF ReleaseLockIfOwned, Goto, AwaitThen
    <2>2. pc'[r] = "end" /\ inflight'[Slot(r)] # r
      BY ZenonT(30), <1>0, <1>1, <2>1 DEF TypeOK
    <2>3. LockPhase' = [LockPhase EXCEPT ![r] = "over"]
      BY ZenonT(30), <1>2, <2>2, PhaseAfter, OthersPhase
    <2>4. Lock!ReleaseLockIfOwned(r)
      BY Zenon, <1>3, <2>1, <2>3
         DEF Lock!ReleaseLockIfOwned, Lock!CompareDelete, Lock!ReleaseInflightOwner, Lock!Slot, Slot
    <2> QED
      BY Zenon, <2>4 DEF Lock!Next
  <1> QED
    BY Zenon, <1>4, <1>5, <1>6


(* The cleanup of a deleted session takes the lock of the operation it     *)
(* cancels, as the end of its TTL would.                                   *)
LEMMA CleanupSimulates ==
  ASSUME QueryAssumption, TypeOK, KeysOwned, NEW r \in Requests, RequestOK(r), RequestStep(r),
         OwnStep(r), CleanupCancelledSessionState(r)
  PROVE  Lock!Next \/ UNCHANGED Lock!vars
  <1>0. pc[r] = "d_clean" /\ UNCHANGED inflight
    BY Zenon DEF CleanupCancelledSessionState, At
  <1>1. ~IsQuery(r)
    BY <1>0, QueryElsewhere, OtherHas, ZenonT(30) DEF RequestOK
  <1>2. LockPhase'[r] = LockPhase[r]
    BY <1>1, PhaseOf, PhaseAfter, SMTT(30)
  <1>3. LockPhase' = LockPhase
    <2>1. LockPhase = [q \in Requests |-> LockPhase[q]]
      BY Zenon DEF LockPhase
    <2> QED
      BY ZenonT(30), <1>2, <2>1, OthersPhase
  <1>4. CASE lock' = lock
    BY ZenonT(30), <1>0, <1>2, <1>4, LockStutters
  <1>5. CASE lock' # lock
    <2>1. lock' = [h \in HttpSessions |->
                    IF op[Target[r]] # None /\ lock[h] = op[Target[r]] THEN None ELSE lock[h]]
      BY <1>5, Zenon DEF CleanupCancelledSessionState
    <2>2. PICK h \in HttpSessions : lock[h] # None /\ lock[h] = op[Target[r]]
      BY ZenonT(30), <1>5, <2>1 DEF TypeOK
    <2>3. \A k \in HttpSessions : lock[k] = lock[h] => k = h
      BY Zenon, <2>2 DEF KeysOwned, LockOwned
    <2>4. lock' = [lock EXCEPT ![h] = None]
      BY Zenon, <2>1, <2>2, <2>3 DEF TypeOK
    <2>5. Lock!LockExpires(h)
      BY ZenonT(30), <1>0, <1>3, <2>2, <2>4 DEF Lock!LockExpires
    <2> QED
      BY Zenon, <2>5 DEF Lock!Next
  <1> QED
    BY Zenon, <1>4, <1>5

(* Every step of a request is a step of the lock protocol or a stutter. *)
LEMMA RequestSimulates ==
  ASSUME QueryAssumption, OwnInv, NEW r \in Requests, Step(r) \/ Interrupt(r)
  PROVE  Lock!Next \/ UNCHANGED Lock!vars
  <1>1. TypeOK /\ RequestOK(r) /\ KeysOwned /\ RequestStep(r) /\ OwnStep(r)
    BY Zenon, RequestOwns DEF OwnInv, AttemptInv, RequestsOK
  <1>2. CASE LocalAction(r) \/ KeyAction(r)
    BY ZenonT(30), <1>1, <1>2, QueryMoves, QueryMoveStutters
  <1>3. CASE AcceptStep(r) \/ OpenAttempt(r) \/ CommitOrRollback(r)
    BY ZenonT(30), <1>1, <1>3, AcceptQuiet, HandlerQuiet, QuietStutters
  <1>4. CASE DeleteStep(r)
    BY ZenonT(30), <1>1, <1>4, DeleteQuiet, CleanupSimulates, QuietStutters
  <1> QED
    BY ZenonT(30), <1>1, <1>2, <1>3, <1>4, StepCases, BeginSimulates, AcquireSimulates, FinallySimulates
       DEF OuterAction

(* So is the end of a TTL. *)
LEMMA ExpirySimulates ==
  ASSUME Expiry
  PROVE  Lock!Next \/ UNCHANGED Lock!vars
  <1>1. UNCHANGED <<inflight, pc>>
    BY Zenon DEF Expiry, LockExpires, OperationExpires, AttemptExpires, AcceptLockExpires
  <1>2. LockPhase' = LockPhase
    BY Zenon, <1>1 DEF LockPhase, Slot
  <1>3. \/ lock' = lock
        \/ \E h \in HttpSessions : lock[h] # None /\ lock' = [lock EXCEPT ![h] = None]
    BY Zenon DEF Expiry, LockExpires, OperationExpires, AttemptExpires, AcceptLockExpires
  <1>4. CASE lock' = lock
    BY Zenon, <1>1, <1>2, <1>4 DEF Lock!vars
  <1>5. ASSUME NEW h \in HttpSessions, lock[h] # None, lock' = [lock EXCEPT ![h] = None]
        PROVE  Lock!Next
    <2>1. Lock!LockExpires(h)
      BY Zenon, <1>1, <1>2, <1>5 DEF Lock!LockExpires
    <2> QED
      BY Zenon, <2>1 DEF Lock!Next
  <1> QED
    BY Zenon, <1>3, <1>4, <1>5

(* The requests a crash ends include every one of the worker that is       *)
(* between acquire and release.                                            *)
LEMMA CrashSimulates ==
  ASSUME QueryAssumption, TypeOK, KeysOwned, NEW w \in Workers, WorkerCrash(w)
  PROVE  Lock!Next
  <1> DEFINE lost == {q \in Requests : Worker[q] = w /\ LockPhase'[q] = "over"}
  <1>1. /\ UNCHANGED lock
        /\ inflight' = [x \in Workers \X HttpSessions |-> IF x[1] = w THEN None ELSE inflight[x]]
        /\ \A q \in Requests : pc'[q] = IF Worker[q] = w /\ Alive(q) THEN "crashed" ELSE pc[q]
    BY Zenon DEF WorkerCrash, redis
  <1>2. ASSUME NEW q \in Requests, Worker[q] # w PROVE LockPhase'[q] = LockPhase[q]
    <2>1. pc'[q] = pc[q] /\ inflight'[Slot(q)] = inflight[Slot(q)]
      BY ZenonT(30), <1>1, <1>2, SlotType
    <2> QED
      BY Zenon, <2>1 DEF LockPhase, Slot
  <1>3. ASSUME NEW q \in Requests, Worker[q] = w
        PROVE  LockPhase'[q] = "over" \/ (LockPhase[q] = "idle" /\ LockPhase'[q] = "idle")
    <2>1. inflight'[Slot(q)] # q
      BY Zenon, <1>1, <1>3, SlotType
    <2>2. pc'[q] \in {"crashed", "start", "done"} /\ (pc'[q] = "start" => pc[q] = "start")
      BY Zenon, <1>1, <1>3 DEF Alive
    <2> QED
      BY ZenonT(30), <2>1, <2>2, PhaseOf, PhaseAfter
  <1>4. LockPhase' = [q \in Requests |-> IF q \in lost THEN "over" ELSE LockPhase[q]]
    <2>1. LockPhase' = [q \in Requests |-> LockPhase'[q]]
      BY Zenon DEF LockPhase
    <2>2. \A q \in Requests : LockPhase'[q] = IF q \in lost THEN "over" ELSE LockPhase[q]
      BY Zenon, <1>2, <1>3
    <2> QED
      BY Zenon, <2>1, <2>2
  <1>5. \A q \in Requests : Worker[q] = w /\ LockPhase[q] \in {"reserved", "held"} => q \in lost
    BY Zenon, <1>3
  <1>6. Lock!WorkerCrash(w)
    <2>1. lost \in SUBSET {q \in Requests : Worker[q] = w}
      BY Zenon
    <2> HIDE DEF lost
    <2> QED
      BY Zenon, <1>1, <1>4, <1>5, <2>1 DEF Lock!WorkerCrash, Lock!Running
  <1> QED
    BY Zenon, <1>6 DEF Lock!Next

-----------------------------------------------------------------------------
(***************************************************************************)
(* The query handlers implement the lock protocol: every step of submit,   *)
(* reject, regenerate, accept and delete, every expiry and every crash is  *)
(* a step of module ProcessingLock or leaves its state alone, under every  *)
(* fault.  What is proved there of acquire_lock and release_lock_if_owned  *)
(* therefore holds of the handlers that call them.                         *)
(***************************************************************************)
THEOREM HandlersImplementLock == Spec => ImplementsProcessingLock
  <1>1. Init => Lock!Init
    <2> SUFFICES ASSUME Init PROVE Lock!Init
      BY Zenon
    <2>1. LockPhase = [q \in Requests |-> "idle"]
      BY Zenon DEF LockPhase, Init
    <2> QED
      BY Zenon, <2>1 DEF Init, Lock!Init
  <1>2. OwnInv /\ [Next]_vars => [Lock!Next]_(Lock!vars)
    <2> SUFFICES ASSUME OwnInv, [Next]_vars PROVE Lock!Next \/ UNCHANGED Lock!vars
      BY Zenon
    <2>0. QueryAssumption /\ TypeOK /\ KeysOwned
      BY Zenon, QueryAssumption DEF OwnInv, AttemptInv
    <2>1. ASSUME NEW r \in Requests, Step(r) \/ Interrupt(r) PROVE Lock!Next \/ UNCHANGED Lock!vars
      BY Zenon, <2>0, <2>1, RequestSimulates
    <2>2. CASE Expiry
      BY Zenon, <2>2, ExpirySimulates
    <2>3. ASSUME NEW w \in Workers, WorkerCrash(w) PROVE Lock!Next
      BY Zenon, <2>0, <2>3, CrashSimulates
    <2>4. CASE UNCHANGED vars
      <3>1. UNCHANGED <<lock, inflight, pc>>
        BY Zenon, <2>4 DEF vars, redis
      <3>2. LockPhase' = LockPhase
        BY <3>1 DEF LockPhase, Slot
      <3> QED
        BY Zenon, <3>1, <3>2 DEF Lock!vars
    <2> QED
      BY ZenonT(30), <2>1, <2>2, <2>3, <2>4 DEF Next, Idle
  <1> QED
    BY <1>1, <1>2, KeysAreOwned, PTL DEF Spec, ImplementsProcessingLock, Lock!Spec


(***************************************************************************)
(* One query per HTTP session and worker: under every fault, two requests  *)
(* of one HTTP session are never both between acquire_lock and the release *)
(* in one process.  The entries of _inflight_owners see to it, whatever    *)
(* becomes of the Redis key.                                               *)
(***************************************************************************)
THEOREM OneQueryPerWorker == Spec => []Lock!WorkerExclusion
  <1>1. OwnInv => Lock!WorkerExclusion
    <2> SUFFICES ASSUME OwnInv, NEW q \in Requests, LockPhase[q] \in {"reserved", "held"}
                 PROVE  inflight[Slot(q)] = q
      BY ZenonT(30) DEF Lock!WorkerExclusion, Lock!Running, Lock!Slot, Slot
    <2>1. QueryAssumption /\ pc[q] \in Labels /\ KeysOwned /\ Fits(q, pc[q])
      BY Zenon, QueryAssumption DEF OwnInv, AttemptInv, TypeOK, RequestsOK, RequestOK
    <2>2. CASE pc[q] \in Entered
      BY Zenon, <2>1, <2>2 DEF KeysOwned, EntryHeld
    <2>3. CASE pc[q] \notin Entered
      <3>1. IsQuery(q) /\ pc[q] \notin {"start", "ready"} \cup AcceptPc \cup DeletePc
        BY Zenon, <2>1, PhaseOf, QueryElsewhere
      <3>2. pc[q] \in {"done", "end", "crashed"}
        BY ZenonT(30), <2>1, <2>3, <3>1 DEF Labels, Entered, Locked, Inside
      <3> QED
        BY ZenonT(30), <2>1, <3>1, <3>2, PhaseOf
    <2> QED
      BY Zenon, <2>2, <2>3
  <1> QED
    BY <1>1, KeysAreOwned, PTL
=============================================================================
