---------------------------- MODULE MCAuthSessions ----------------------------
(* Instances of AuthSessions for TLC. *)
EXTENDS AuthSessions, TLC

CONSTANTS u1, u2, s1, s2, s3, r1, r2, p, q

VARIABLE focus      \* what the behaviour varies; the rest is kept small

OneUser == {u1}
TwoUsers == {u1, u2}
OneSid == {s1}
ThreeSids == {s1, s2, s3}
OneRequest == {r1}
TwoRequests == {r1, r2}
Perms == {{}, {p}, {q}}
Clocks == {1, 2}

(* "logins": two users sign in up to and beyond the limit on workers whose  *)
(* clocks disagree, one request after another.  "races": requests of one   *)
(* user overlap, logins that evict included.  "roles": requests with one   *)
(* session overlap while its role changes.  In the last two the other user *)
(* has been deleted.                                                        *)
Focuses == {"logins", "races", "roles"}

(* users that are not deleted yet *)
SomeUsers == {u \in Users : account[u] # None}

FocusInit ==
    /\ focus \in Focuses
    /\ session = [s \in Sids |-> None] /\ owner = [s \in Sids |-> None]
    /\ index = [u \in Users |-> {}] /\ score = [s \in Sids |-> 0]
    /\ sequence = {} /\ aged = {}
    /\ cookies = {} /\ req = [r \in Requests |-> Idle]
    /\ drawn = [s \in Sids |-> 0] /\ calm = {}
    /\ account \in [Users -> PermSets \cup {None}]
    /\ IF focus = "logins" THEN None \notin {account[u] : u \in Users}
                           ELSE Cardinality(SomeUsers) = 1
    /\ focus # "roles" => \A u \in SomeUsers : account[u] = {p}

FocusNext ==
    /\ Next
    /\ focus = "logins" =>
          /\ Cardinality({r \in Requests : req'[r].pc # "idle"}) <= 1
          /\ \A u \in Users : account'[u] \in {account[u], None}
    /\ focus = "races" =>
          /\ \A s \in Sids : score'[s] <= Cardinality(Drawn')
          /\ account' = account
    /\ IF focus = "roles" THEN Cardinality(Drawn') <= 1
       ELSE \A r \in Requests : req'[r].kind # "active"
    /\ UNCHANGED focus

FocusSpec == FocusInit /\ [][FocusNext]_<<vars, focus>>

(* the answers given before this step do not matter *)
Pending ==
    <<focus, redis, account, cookies, calm, [r \in Requests |-> [req[r] EXCEPT !.answer = "none"]]>>

Fresh == Permutations(Users) \cup Permutations(Sids) \cup Permutations(Requests)
=============================================================================
