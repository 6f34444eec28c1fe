----------------------------- MODULE MessageFeed -----------------------------
(***************************************************************************)
(* What CloudSession promises about the messages of the cloud: within one  *)
(* session they are handled one by one, in the order they were sent.  When *)
(* the connection goes down its last messages may be lost, and the end of  *)
(* the session loses all it has not handled.  No message reaches a later   *)
(* session.                                                                *)
(***************************************************************************)
EXTENDS Naturals, Sequences

CONSTANT Messages

VARIABLES
  number,    \* of the session, counted from 1
  open,      \* it has not ended
  up,        \* its connection is up
  backlog    \* sent in this session and not yet handled

feed == <<number, open, up, backlog>>

Init == number = 0 /\ open = FALSE /\ up = FALSE /\ backlog = <<>>

Begin ==
  /\ ~open
  /\ number' = number + 1
  /\ open' = TRUE /\ up' = TRUE /\ backlog' = <<>>

Send ==
  /\ up
  /\ \E m \in Messages : backlog' = Append(backlog, m)
  /\ UNCHANGED <<number, open, up>>

Handle ==
  /\ backlog # <<>>
  /\ backlog' = Tail(backlog)
  /\ UNCHANGED <<number, open, up>>

GoDown ==
  /\ up
  /\ up' = FALSE
  /\ \E n \in 0 .. Len(backlog) : backlog' = SubSeq(backlog, 1, n)
  /\ UNCHANGED <<number, open>>

End ==
  /\ open
  /\ open' = FALSE /\ up' = FALSE /\ backlog' = <<>>
  /\ UNCHANGED number

Spec == Init /\ [][Begin \/ Send \/ Handle \/ GoDown \/ End]_feed
=============================================================================
