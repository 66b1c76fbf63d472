---------------------------- MODULE JobLifecycle ----------------------------
(***************************************************************************)
(* What a caller who submits a source is promised about its job: it is     *)
(* accepted once, reads as pending while it is carried out, and settles    *)
(* once, as completed or as failed with a reason.                          *)
(***************************************************************************)
CONSTANT Jobs

VARIABLE answer   \* job -> what GET /jobs/{job_id} has to say of it

Says(status, error) == [status |-> status, error |-> error]

Outcomes == {Says("completed", "none"), Says("failed", "raised"),
             Says("failed", "abandoned")}

Init == answer = [j \in Jobs |-> Says("absent", "none")]

Accept(j) ==
    /\ answer[j] = Says("absent", "none")
    /\ answer' = [answer EXCEPT ![j] = Says("pending", "none")]

Settle(j) ==
    /\ answer[j] = Says("pending", "none")
    /\ \E outcome \in Outcomes : answer' = [answer EXCEPT ![j] = outcome]

Next == \E j \in Jobs : Accept(j) \/ Settle(j)

Safety == Init /\ [][Next]_answer

Spec ==
    /\ Safety
    /\ \A j \in Jobs : WF_answer(Settle(j))
=============================================================================
