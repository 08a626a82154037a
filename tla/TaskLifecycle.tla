--------------------------- MODULE TaskLifecycle ----------------------------
(***************************************************************************)
(* What workflow-service promises about one remediation task: it moves     *)
(* along the table of allowed transitions and in no other way, and a       *)
(* recorded decision is made by somebody other than the requester while    *)
(* the task is waiting for it.  Workflow.tla implements this when requests *)
(* do not overlap.                                                         *)
(***************************************************************************)
CONSTANTS Tasks, People

VARIABLES state,      \* state[t]: "absent", a status, or "deleted"
          owner,      \* owner[t]: who requested the task
          decisions   \* decisions on live tasks: <<task, person, decision>>

vars == <<state, owner, decisions>>

Init == /\ state = [t \in Tasks |-> "absent"]
        /\ owner \in [Tasks -> People]
        /\ decisions = {}

Allowed == {<<"draft", "pending_approval">>,
            <<"pending_approval", "approved">>, <<"pending_approval", "rejected">>,
            <<"approved", "in_progress">>, <<"rejected", "draft">>,
            <<"in_progress", "completed">>}

Propose(t) == /\ state[t] = "absent"
              /\ state' = [state EXCEPT ![t] = "draft"]
              /\ \E p \in People : owner' = [owner EXCEPT ![t] = p]
              /\ UNCHANGED decisions

Advance(t) == /\ \E s \in {a[2] : a \in Allowed} :
                   <<state[t], s>> \in Allowed /\ state' = [state EXCEPT ![t] = s]
              /\ UNCHANGED <<owner, decisions>>

(* The record first; the matching transition follows, if nothing fails.     *)
Decide(t) == /\ state[t] = "pending_approval"
             /\ \E p \in People \ {owner[t]}, d \in {"approved", "rejected"} :
                   decisions' = decisions \union {<<t, p, d>>}
             /\ UNCHANGED <<state, owner>>

(* The operator's clean-up of duplicates takes the decisions along.         *)
Remove(gone) == /\ state' = [t \in Tasks |-> IF t \in gone THEN "deleted" ELSE state[t]]
                /\ decisions' = {d \in decisions : d[1] \notin gone}
                /\ UNCHANGED owner

Next == \/ \E t \in Tasks : Propose(t) \/ Advance(t) \/ Decide(t)
        \/ \E gone \in SUBSET {t \in Tasks : state[t] # "absent"} : Remove(gone)

Spec == Init /\ [][Next]_vars
=============================================================================
