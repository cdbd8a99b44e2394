----------------------------- MODULE MessageStream -----------------------------
(***************************************************************************)
(* What GrpcStream promises to the Stream above it: messages in both       *)
(* directions in order and without a gap, cut off by one finish, of which  *)
(* the observer hears unless it asked for it.                              *)
(***************************************************************************)
EXTENDS Naturals, Sequences

VARIABLES
  phase,      \* "open", "finished" (the observer was told), "closed" (it asked)
  sent,       \* messages of the server ...
  delivered,  \* ... and those of them the observer has got
  written,    \* messages of the client ...
  accepted    \* ... and those of them the transport has taken

vars == <<phase, sent, delivered, written, accepted>>

Init ==
  /\ phase = "open"
  /\ sent = <<>> /\ delivered = <<>> /\ written = <<>> /\ accepted = <<>>

\* The next message of a sequence of all that were produced.
Produced(s) == Append(s, Len(s) + 1)

\* to gets the first element of from it has not got.
Passes(from, to) == Len(to) < Len(from) /\ to' = Append(to, from[Len(to) + 1])

ServerSends ==
  /\ sent' = Produced(sent)
  /\ UNCHANGED <<phase, delivered, written, accepted>>

Deliver ==
  /\ phase = "open" /\ Passes(sent, delivered)
  /\ UNCHANGED <<phase, sent, written, accepted>>

Write ==
  /\ phase = "open" /\ written' = Produced(written)
  /\ UNCHANGED <<phase, sent, delivered, accepted>>

Accept ==
  /\ phase = "open" /\ Passes(written, accepted)
  /\ UNCHANGED <<phase, sent, delivered, written>>

Finish ==
  /\ phase = "open" /\ phase' \in {"finished", "closed"}
  /\ UNCHANGED <<sent, delivered, written, accepted>>

Next == ServerSends \/ Deliver \/ Write \/ Accept \/ Finish

Spec == Init /\ [][Next]_vars

=============================================================================
