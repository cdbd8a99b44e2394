------------------------------ MODULE WishLedger ------------------------------
(***************************************************************************)
(* What the app promises about the two stores, without screens, sessions   *)
(* or failures: a document is saved on the phone once, at that moment it   *)
(* may be offered to the server under the account that saved it, an offer  *)
(* is published at most once or forgotten, and the server holds nothing    *)
(* else.                                                                   *)
(***************************************************************************)
EXTENDS Documents

VARIABLES
  saved,      \* documents in the phone's store
  pending,    \* requests made and not settled
  published   \* requests whose body the server still holds

ledger == <<saved, pending, published>>

Init ==
  /\ saved = {}
  /\ pending = {}
  /\ published = {}

Save(d) ==
  /\ d \notin saved
  /\ saved' = saved \cup {d}
  /\ pending' \in {pending, pending \cup {RequestOf(d)}}
  /\ UNCHANGED published

Publish(r) ==
  /\ r \in pending
  /\ pending' = pending \ {r}
  /\ published' = Put(published, r)
  /\ UNCHANGED saved

Forget ==
  /\ pending' \subseteq pending
  /\ UNCHANGED <<saved, published>>

Next ==
  \/ \E d \in Document : Save(d)
  \/ \E r \in pending : Publish(r)
  \/ Forget

Spec == Init /\ [][Next]_ledger

=============================================================================
