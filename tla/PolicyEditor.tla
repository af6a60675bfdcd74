----------------------------- MODULE PolicyEditor -----------------------------
(***************************************************************************)
(* PolicyEditor: the connection policies of the role that is being edited  *)
(* (see AdminRoles), one of which may be open as activePolicy.  A policy   *)
(* allows some columns of some tables of one connection, with row filters  *)
(* on tables and masks on columns.                                         *)
(*                                                                         *)
(* The tables of a policy are a function from table to columns; the order  *)
(* of the check boxes is left out, that of filters and masks is kept.  A   *)
(* filter is blank or not: its SQL is the backend's to judge.  The schema  *)
(* of a connection is what the backend introspected (useConnectionSchema). *)
(* A table is listed once: the editor lists none twice, and policies in    *)
(* which another client of the API did are left out.                       *)
(***************************************************************************)
EXTENDS Naturals, Sequences

CONSTANTS
    Connections, Tables,    \* connections; tables of their schemas
    Columns,                \* columns of every table
    NoneYet,                \* the empty option of a select; null
    InitialPolicies,        \* policies a role may be loaded with
    MaxFilters, MaxMasks    \* bounds: rows an admin adds

VARIABLES
    policies,               \* the policies of the role, as the form holds them
    activePolicy,           \* the one that is open, or NoneYet
    editingIndex,           \* its place in policies, or NoneYet when it is new
    schema,                 \* of the open policy: "none", "loading", "loaded" or "failed"
    loaded                  \* history: the policies the role was loaded with

pVars == <<policies, activePolicy, editingIndex, schema, loaded>>

(* Policies an admin may have open *)
Allowed == UNION {[T -> SUBSET Columns] : T \in SUBSET Tables}
Filter == [table : Tables \cup {NoneYet}, blank : BOOLEAN]
Mask == [table : Tables \cup {NoneYet}, columns : SUBSET Columns]
Policy == [connection : Connections \cup {NoneYet}, allowed : Allowed,
           filters : Seq(Filter), masks : Seq(Mask)]

EmptyPolicy == [connection |-> NoneYet, allowed |-> [t \in {} |-> {}],
                filters |-> <<>>, masks |-> <<>>]

-----------------------------------------------------------------------------
(* getValidationErrors: a filter without a table or without a condition *)
ValidFilters(p) ==
    \A i \in 1..Len(p.filters) : p.filters[i].table # NoneYet /\ ~p.filters[i].blank

(* What the editor lets pass (MaySave), said of a policy that was saved *)
Complete(p) ==
    /\ p.connection # NoneYet
    /\ DOMAIN p.allowed # {} /\ \A t \in DOMAIN p.allowed : p.allowed[t] # {}
    /\ \A i \in 1..Len(p.filters) : p.filters[i].table # NoneYet /\ ~p.filters[i].blank
    /\ \A i \in 1..Len(p.masks) : p.masks[i].table # NoneYet /\ p.masks[i].columns # {}

(* Tables that p filters and columns that p masks although p does not allow them *)
StrayFilters(p) == {p.filters[i].table : i \in 1..Len(p.filters)} \ DOMAIN p.allowed
StrayMasks(p) ==
    {<<t, c>> \in Tables \X Columns :
        /\ \E i \in 1..Len(p.masks) : p.masks[i].table = t /\ c \in p.masks[i].columns
        /\ t \in DOMAIN p.allowed => c \notin p.allowed[t]}

(* What the backend stores for a role: one policy for each connection, with *)
(* filters that it has parsed; what is allowed, be it nothing, and what is  *)
(* masked it takes as it comes                                              *)
Stored ==
    {s \in Seq(Policy) :
        /\ \A i \in 1..Len(s) : s[i].connection # NoneYet /\ ValidFilters(s[i])
        /\ \A i, j \in 1..Len(s) : s[i].connection = s[j].connection => i = j}

(* The empty option names neither a connection nor a table, and roles are  *)
(* loaded with what the backend stored                                     *)
ASSUME PolicyAssumption ==
    /\ NoneYet \notin Connections /\ NoneYet \notin Tables /\ NoneYet \notin Nat
    /\ NoneYet \notin Policy
    /\ InitialPolicies \subseteq Stored

-----------------------------------------------------------------------------
(* Helpers *)

(* list.splice(index, 1) *)
Without(s, i) ==
    [j \in 1..(Len(s) - 1) |-> IF j < i THEN s[j] ELSE s[j + 1]]

Flip(set, x) == IF x \in set THEN set \ {x} ELSE set \cup {x}

-----------------------------------------------------------------------------
(* What the editor offers *)

Editing == activePolicy # NoneYet

(* mutant of OffersConnection *)
ChangeWhileEditing(k) ==
    Editing /\ \A i \in 1..Len(policies) : policies[i].connection # k

(* The select: connections that no other policy has; fixed when editing *)
OffersConnection(k) ==
    /\ Editing /\ editingIndex = NoneYet
    /\ \/ k = activePolicy.connection \/ k = NoneYet
       \/ \A i \in 1..Len(policies) : policies[i].connection # k

(* The tables and, once one is allowed, filters, masks and the preview *)
OffersTables == Editing /\ activePolicy.connection # NoneYet /\ schema = "loaded"
OffersRules == OffersTables /\ DOMAIN activePolicy.allowed # {}

-----------------------------------------------------------------------------
(* Handlers *)

Set(p) == activePolicy' = p /\ UNCHANGED <<policies, editingIndex, schema, loaded>>

handleAddClick ==
    /\ ~Editing
    /\ activePolicy' = EmptyPolicy /\ editingIndex' = NoneYet /\ schema' = "none"
    /\ UNCHANGED <<policies, loaded>>

handleEditClick(i) ==
    /\ ~Editing
    /\ activePolicy' = policies[i] /\ editingIndex' = i /\ schema' = "loading"
    /\ UNCHANGED <<policies, loaded>>

handleDeleteClick(i) ==
    /\ ~Editing
    /\ policies' = Without(policies, i)
    /\ UNCHANGED <<activePolicy, editingIndex, schema, loaded>>

handleConnectionChange(k) ==
    /\ OffersConnection(k)
    /\ activePolicy' = [EmptyPolicy EXCEPT !.connection = k]
    /\ schema' = IF k = NoneYet THEN "none" ELSE "loading"
    /\ UNCHANGED <<policies, editingIndex, loaded>>

(* The schema of the open policy arrives, or cannot be loaded *)
SchemaSettles ==
    /\ schema = "loading" /\ schema' \in {"loaded", "failed"}
    /\ UNCHANGED <<policies, activePolicy, editingIndex, loaded>>

(* mutant of handleTableToggle *)
TableKeepsItsRules(t) ==
    /\ OffersTables
    /\ Set([activePolicy EXCEPT !.allowed =
               [u \in Flip(DOMAIN activePolicy.allowed, t) |->
                   IF u = t THEN Columns ELSE activePolicy.allowed[u]]])

(* A table that is no longer allowed takes its filters and masks with it *)
handleTableToggle(t) ==
    LET p == activePolicy IN
    /\ OffersTables
    /\ IF t \in DOMAIN p.allowed
       THEN Set([p EXCEPT !.allowed = [u \in DOMAIN p.allowed \ {t} |-> p.allowed[u]],
                          !.filters = SelectSeq(p.filters, LAMBDA f : f.table # t),
                          !.masks = SelectSeq(p.masks, LAMBDA m : m.table # t)])
       ELSE Set([p EXCEPT !.allowed = [u \in DOMAIN p.allowed \cup {t} |->
                                          IF u = t THEN Columns ELSE p.allowed[u]]])

ColumnKeepsItsMask(t, c) ==
    /\ OffersTables /\ t \in DOMAIN activePolicy.allowed
    /\ Set([activePolicy EXCEPT !.allowed[t] = Flip(@, c)])

(* A column that is no longer allowed leaves the masks of its table; masks *)
(* without columns go                                                      *)
handleColumnToggle(t, c) ==
    LET p == activePolicy
        cols == Flip(p.allowed[t], c)
        kept == [i \in 1..Len(p.masks) |->
                    IF p.masks[i].table = t
                    THEN [p.masks[i] EXCEPT !.columns = @ \cap cols] ELSE p.masks[i]] IN
    /\ OffersTables /\ t \in DOMAIN p.allowed
    /\ Set([p EXCEPT !.allowed[t] = cols,
                     !.masks = SelectSeq(kept, LAMBDA m : m.columns # {})])

handleAddRowFilter ==
    /\ OffersRules /\ Len(activePolicy.filters) < MaxFilters
    /\ Set([activePolicy EXCEPT !.filters = Append(@, [table |-> NoneYet, blank |-> TRUE])])

(* The select offers the allowed tables, the input changes the condition *)
handleUpdateRowFilter(i, f) ==
    /\ OffersRules
    /\ \/ f.table \in DOMAIN activePolicy.allowed \cup {NoneYet} /\ f.blank = activePolicy.filters[i].blank
       \/ f.table = activePolicy.filters[i].table
    /\ Set([activePolicy EXCEPT !.filters[i] = f])

handleRemoveRowFilter(i) ==
    OffersRules /\ Set([activePolicy EXCEPT !.filters = Without(@, i)])

handleAddColumnMask ==
    /\ OffersRules /\ Len(activePolicy.masks) < MaxMasks
    /\ Set([activePolicy EXCEPT !.masks = Append(@, [table |-> NoneYet, columns |-> {}])])

handleUpdateColumnMaskTable(i, t) ==
    /\ OffersRules /\ t \in DOMAIN activePolicy.allowed \cup {NoneYet}
    /\ Set([activePolicy EXCEPT !.masks[i] = [table |-> t, columns |-> {}]])

(* Only the allowed columns of the table of a mask have a check box *)
handleToggleColumnMask(i, c) ==
    LET m == activePolicy.masks[i] IN
    /\ OffersRules /\ m.table \in DOMAIN activePolicy.allowed
    /\ c \in activePolicy.allowed[m.table]
    /\ Set([activePolicy EXCEPT !.masks[i].columns = Flip(@, c)])

handleRemoveColumnMask(i) ==
    OffersRules /\ Set([activePolicy EXCEPT !.masks = Without(@, i)])

DuplicatesPass(p) ==
    /\ p.connection # NoneYet /\ DOMAIN p.allowed # {}
    /\ \A t \in DOMAIN p.allowed : p.allowed[t] # {}
    /\ ValidFilters(p)

(* What handleSaveActive refuses with an alert *)
MaySave(p) ==
    /\ p.connection # NoneYet
    /\ \A i \in 1..Len(policies) :
          policies[i].connection = p.connection => i = editingIndex
    /\ DOMAIN p.allowed # {} /\ \A t \in DOMAIN p.allowed : p.allowed[t] # {}
    /\ ValidFilters(p)

(* Masks without a table or without columns are left out *)
Cleaned(p) == [p EXCEPT !.masks = SelectSeq(@, LAMBDA m : m.table # NoneYet /\ m.columns # {})]

handleSaveActive ==
    /\ Editing /\ MaySave(activePolicy)
    /\ policies' = IF editingIndex = NoneYet THEN Append(policies, Cleaned(activePolicy))
                   ELSE [policies EXCEPT ![editingIndex] = Cleaned(activePolicy)]
    /\ activePolicy' = NoneYet /\ schema' = "none"
    /\ UNCHANGED <<editingIndex, loaded>>

handleCancelActive ==
    /\ Editing /\ activePolicy' = NoneYet /\ schema' = "none"
    /\ UNCHANGED <<policies, editingIndex, loaded>>

-----------------------------------------------------------------------------
PolicyInit ==
    /\ policies \in InitialPolicies /\ loaded = policies
    /\ activePolicy = NoneYet /\ editingIndex = NoneYet /\ schema = "none"

RuleSteps ==
    \/ handleAddRowFilter \/ handleAddColumnMask
    \/ \E i \in 1..Len(activePolicy.filters) :
          handleRemoveRowFilter(i) \/ \E f \in Filter : handleUpdateRowFilter(i, f)
    \/ \E i \in 1..Len(activePolicy.masks) :
          \/ handleRemoveColumnMask(i)
          \/ \E t \in Tables \cup {NoneYet} : handleUpdateColumnMaskTable(i, t)
          \/ \E c \in Columns : handleToggleColumnMask(i, c)

PolicyNext ==
    \/ handleAddClick \/ handleSaveActive \/ handleCancelActive \/ SchemaSettles
    \/ \E i \in 1..Len(policies) : handleEditClick(i) \/ handleDeleteClick(i)
    \/ \E k \in Connections \cup {NoneYet} : handleConnectionChange(k)
    \/ \E t \in Tables : handleTableToggle(t) \/ \E c \in Columns : handleColumnToggle(t, c)
    \/ Editing /\ RuleSteps

PolicySpec == PolicyInit /\ [][PolicyNext]_pVars

-----------------------------------------------------------------------------
(* Properties *)

(* Types; a place in the list that is being edited exists and still holds  *)
(* the connection of the open policy.                                      *)
PolicyTypeOK ==
    /\ policies \in Seq(Policy)
    /\ activePolicy \in Policy \cup {NoneYet}
    /\ schema \in {"none", "loading", "loaded", "failed"}
    /\ Editing /\ editingIndex # NoneYet =>
         /\ editingIndex \in 1..Len(policies)
         /\ policies[editingIndex].connection = activePolicy.connection

(* Whatever was toggled, added and removed in the open policy, the role    *)
(* holds at most one policy for a connection.  A policy is as it was       *)
(* loaded, or is complete, and the editor has not made it filter a table   *)
(* or mask a column that it does not allow: handleTableToggle and          *)
(* handleColumnToggle clean up.  A rule of that kind that the role was     *)
(* loaded with may stay, for the backend takes it and handleSaveActive     *)
(* does not look.                                                          *)
PoliciesWellFormed ==
    /\ \A i, j \in 1..Len(policies) :
          policies[i].connection = policies[j].connection => i = j
    /\ \A i \in 1..Len(policies) :
          LET p == policies[i]
              before == {loaded[j] : j \in {k \in 1..Len(loaded) : loaded[k].connection = p.connection}}
          IN  \/ p \in before
              \/ /\ Complete(p)
                 /\ StrayFilters(p) \subseteq UNION {StrayFilters(q) : q \in before}
                 /\ StrayMasks(p) \subseteq UNION {StrayMasks(q) : q \in before}
=============================================================================
