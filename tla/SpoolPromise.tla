----------------------------- MODULE SpoolPromise -----------------------------
(***************************************************************************)
(* What the spooler promises to those who hand it jobs, with nothing of    *)
(* the printers, the cache, the flash or the sessions in it: jobs are      *)
(* served one at a time in the order in which they were accepted, each     *)
(* gets one verdict, and the verdict is "printed" exactly if its whole     *)
(* body went to the printer.  A restart loses what is pending, nothing     *)
(* else; a job that cannot be read is discarded before it is accepted.     *)
(* PrintSpool implements this.                                             *)
(***************************************************************************)
EXTENDS Naturals, Sequences

CONSTANTS Jobs, Capacity   \* Capacity: jobs accepted and not concluded

VARIABLES pending, verdict, paper

promiseVars == <<pending, verdict, paper>>

Init ==
  /\ pending = <<>>
  /\ verdict = [j \in Jobs |-> "none"]
  /\ paper   = [j \in Jobs |-> "blank"]

IsPending(j) == \E i \in 1 .. Len(pending) : pending[i] = j

Accept(j) ==
  /\ verdict[j] = "none" /\ ~IsPending(j)
  /\ Len(pending) < Capacity
  /\ pending' = Append(pending, j)
  /\ UNCHANGED <<verdict, paper>>

Discard(j) ==
  /\ verdict[j] = "none" /\ ~IsPending(j)
  /\ verdict' = [verdict EXCEPT ![j] = "discarded"]
  /\ UNCHANGED <<pending, paper>>

\* Only the job at the head gets paper, and its body is sent once.
Serve(progress) ==
  /\ pending # <<>>
  /\ paper[Head(pending)] # "whole"
  /\ paper' = [paper EXCEPT ![Head(pending)] = progress]
  /\ UNCHANGED <<pending, verdict>>

Conclude ==
  /\ pending # <<>>
  /\ verdict' = [verdict EXCEPT ![Head(pending)] =
                   IF paper[Head(pending)] = "whole" THEN "printed" ELSE "failed"]
  /\ pending' = Tail(pending)
  /\ UNCHANGED paper

\* A restart takes the pending jobs, and those still waiting to be accepted.
LosePending ==
  /\ pending' = <<>>
  /\ \E waiting \in SUBSET {j \in Jobs : verdict[j] = "none"} :
       /\ \A i \in 1 .. Len(pending) : pending[i] \in waiting
       /\ verdict' = [j \in Jobs |-> IF j \in waiting THEN "lost" ELSE verdict[j]]
  /\ UNCHANGED paper

Next ==
  \/ \E j \in Jobs : Accept(j) \/ Discard(j)
  \/ \E progress \in {"partial", "whole"} : Serve(progress)
  \/ Conclude
  \/ LosePending

Safety == Init /\ [][Next]_promiseVars
=============================================================================
