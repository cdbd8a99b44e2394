----------------------------- MODULE WriteAnswers -----------------------------
(***************************************************************************)
(* What Firestore promises the caller of a write: its completion block is  *)
(* called at most once, with success or with an error, and as long as the  *)
(* process lives an outstanding block is never forgotten.                  *)
(***************************************************************************)
CONSTANT Writes

VARIABLE status  \* what the caller of each write has seen

Status == {"unissued", "outstanding", "ok", "error", "forgotten"}

TypeOK == status \in [Writes -> Status]

Init == status = [w \in Writes |-> "unissued"]

Issue(w) ==
  /\ status[w] = "unissued"
  /\ status' = [status EXCEPT ![w] = "outstanding"]

Answer(w, result) ==
  /\ status[w] = "outstanding"
  /\ status' = [status EXCEPT ![w] = result]

\* The process dies: every outstanding block goes with it, and no other.
Die ==
  status' = [w \in Writes |->
               IF status[w] = "outstanding" THEN "forgotten" ELSE status[w]]

Next ==
  \/ \E w \in Writes : Issue(w) \/ Answer(w, "ok") \/ Answer(w, "error")
  \/ Die

Spec == Init /\ [][Next]_status

=============================================================================
