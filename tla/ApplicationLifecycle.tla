------------------------ MODULE ApplicationLifecycle ------------------------
(***************************************************************************)
(* What applying promises the user of the app, without batches, runs,      *)
(* sweeps or copies of rows: an application goes from processing to one    *)
(* outcome, a finished one never goes back, only a failed one is tried     *)
(* again, an email leaves only while its application is processing, and    *)
(* nothing is shown as sent without one.                                   *)
(***************************************************************************)
CONSTANTS Jobs, External

VARIABLES
    status,  \* what the app shows for each job
    mailed   \* jobs whose company got an email for the current attempt

Init ==
    /\ status = [j \in Jobs |-> "absent"]
    /\ mailed = {}

(* One request applies to several jobs; those already applied to stay. *)
Apply(js) ==
    /\ js # {}
    /\ \A j \in js : status[j] \in {"absent", "failed"}
    /\ status' = [j \in Jobs |-> IF j \in js THEN "processing" ELSE status[j]]
    /\ mailed' = mailed \ js

Mail(j) ==
    /\ j \notin External
    /\ status[j] = "processing"
    /\ mailed' = mailed \cup {j}
    /\ UNCHANGED status

Sent(j) ==
    /\ status[j] = "processing" /\ j \in mailed
    /\ status' = [status EXCEPT ![j] = "sent"]
    /\ UNCHANGED mailed

Prepared(j) ==
    /\ status[j] = "processing" /\ j \in External
    /\ status' = [status EXCEPT ![j] = "prepared"]
    /\ UNCHANGED mailed

(* The last attempt's email may have left all the same. *)
Fails(j) ==
    /\ status[j] = "processing"
    /\ status' = [status EXCEPT ![j] = "failed"]
    /\ mailed' \in {mailed} \cup (IF j \in External THEN {} ELSE {mailed \cup {j}})

Opened(j) ==
    /\ status[j] = "prepared"
    /\ status' = [status EXCEPT ![j] = "opened"]
    /\ UNCHANGED mailed

Submitted(j) ==
    /\ status[j] \in {"prepared", "opened"}
    /\ status' = [status EXCEPT ![j] = "submitted"]
    /\ UNCHANGED mailed

Concludes(j) == Sent(j) \/ Prepared(j) \/ Fails(j)

Next ==
    \/ \E js \in SUBSET Jobs : Apply(js)
    \/ \E j \in Jobs : Mail(j) \/ Concludes(j) \/ Opened(j) \/ Submitted(j)

lvars == <<status, mailed>>

(* An attempt ends sooner or later; the user has no obligation. *)
Spec == Init /\ [][Next]_lvars /\ \A j \in Jobs : WF_lvars(Concludes(j))
=============================================================================
