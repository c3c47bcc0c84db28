------------------------------- MODULE JobLife -------------------------------
(***************************************************************************)
(* What the batch queue promises for a job: it is submitted once, starts   *)
(* at most once and ends at most once.  A submission may push another      *)
(* waiting job out of the queue.                                           *)
(***************************************************************************)
CONSTANT Job

VARIABLE status

Init == status = [j \in Job |-> "new"]

Submit(j) ==
  /\ status[j] = "new"
  /\ \E out \in SUBSET {k \in Job : status[k] = "queued"} :
       /\ \A k1, k2 \in out : k1 = k2
       /\ status' = [k \in Job |-> IF k = j THEN "queued"
                                  ELSE IF k \in out THEN "lost" ELSE status[k]]

Start(j) == status[j] = "queued" /\ status' = [status EXCEPT ![j] = "running"]
End(j) == status[j] = "running" /\ status' = [status EXCEPT ![j] = "ended"]

Next == \E j \in Job : Submit(j) \/ Start(j) \/ End(j)

Spec == Init /\ [][Next]_status
=============================================================================
