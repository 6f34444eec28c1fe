--------------------------- MODULE PrintSpoolProofs ---------------------------
(***************************************************************************)
(* What TLAPS proves of PrintSpool, for every set of jobs, printers, logos *)
(* and messages and every capacity, delay and bound: type correctness,     *)
(* that the print path uses the printers by SendBytes alone (and so        *)
(* inherits what PrinterLinkProofs proves), how much of a flash the delays *)
(* leave to the documents that follow an upload, and of the jobs: that     *)
(* none is lost or doubled on its way, that the verdict the cloud hears is *)
(* true of the paper, that the print path implements SpoolPromise, and     *)
(* what the logo cache is worth.                                           *)
(***************************************************************************)
EXTENDS PrintSpool, PrinterLinkProofs

-----------------------------------------------------------------------------
(* Facts about data.                                                       *)

LEMMA Callers == Spooler \in Senders /\ Session \in Senders /\ Spooler # Session
BY SpoolAssumption DEF SpoolAssumption

\* What receiving from a channel, or taking the first target, leaves.
LEMMA TakeFirst ==
  ASSUME NEW S, NEW q \in Seq(S), q # <<>>
  PROVE  /\ Len(q) \in Nat /\ Len(q) > 0 /\ Len(Tail(q)) = Len(q) - 1
         /\ Head(q) \in S /\ Head(q) = q[1] /\ Tail(q) \in Seq(S)
         /\ \A i \in 1 .. Len(Tail(q)) : i + 1 \in 1 .. Len(q) /\ Tail(q)[i] = q[i + 1]
OBVIOUS

LEMMA PutLast ==
  ASSUME NEW S, NEW q \in Seq(S), NEW x \in S
  PROVE  /\ Append(q, x) \in Seq(S) /\ Len(Append(q, x)) = Len(q) + 1
         /\ \A i \in 1 .. Len(q) : Append(q, x)[i] = q[i]
         /\ Append(q, x)[Len(q) + 1] = x
OBVIOUS

\* The messages the spooler handles have an address and render to documents.
HandedIn ==
  /\ \A j \in blocked : msg[j] \in Inputs
  /\ \A i \in 1 .. Len(queue) : msg[queue[i]] \in Inputs
  /\ cur \in Jobs => msg[cur] \in Inputs
  /\ cur = NoJob <=> step = "recv"

LEMMA Documents ==
  ASSUME NEW j, msg[j] \in Inputs
  PROVE  /\ msg[j].to \in Addrs
         /\ Body(j) \in Docs
         /\ msg[j].logo \in Hashes => Prelude(j) \in Docs
<1>1. msg[j] \in Messages
  BY SpoolAssumption
<1>2. msg[j].to \in Addrs /\ msg[j].slot \in Slots
  BY <1>1 DEF Messages
<1>3. Body(j) \in Docs
  <2>1. CASE msg[j].brings \in Hashes
    BY <1>2, <2>1 DEF Body, Docs, Upload
  <2>2. CASE msg[j].brings \notin Hashes
    BY <2>2 DEF Body, Docs
  <2> QED
    BY <2>1, <2>2
<1>4. msg[j].logo \in Hashes => Prelude(j) \in Docs
  BY <1>2 DEF Prelude, Docs, Upload
<1> QED
  BY <1>2, <1>3, <1>4

\* The job at the head of the channel is a job with a message.
LEMMA HeadOfQueue ==
  ASSUME queue \in Seq(Jobs), HandedIn, queue # <<>>
  PROVE  Head(queue) \in Jobs /\ msg[Head(queue)] \in Inputs
BY TakeFirst DEF HandedIn

-----------------------------------------------------------------------------
(* The print path uses the printers by SendBytes alone.                    *)

LEMMA SessionUsesLink ==
  ASSUME TypeOK, SessionNext
  PROVE  LinkNext \/ UNCHANGED linkVars
<1>1. CASE Connect \/ Break \/ SessionEnds
  BY <1>1 DEF Connect, Break, SessionEnds
<1>2. /\ \A j \in Jobs, m \in Inputs : ReceivePrintJob(j, m) => UNCHANGED linkVars
      /\ \A j \in Jobs : DiscardPrintJob(j) => UNCHANGED linkVars
  BY DEF ReceivePrintJob, DiscardPrintJob
<1>3. ASSUME NEW ts \in TargetLists, ReceiveDirect(ts)
      PROVE  UNCHANGED linkVars
  BY <1>3 DEF ReceiveDirect
<1>4. CASE DirectSend
  <2>1. Head(targets) \in Addrs /\ Plain \in Docs
    BY <1>4, TakeFirst DEF DirectSend, TypeOK, Docs
  <2> QED
    BY <1>4, <2>1, Callers DEF DirectSend, LinkNext
<1>5. ASSUME NEW result \in {"ok", "err"}, DirectReturn(result)
      PROVE  LinkNext
  BY <1>5, Callers DEF DirectReturn, LinkNext
<1>6. CASE SessionSends
  BY <1>6, Callers DEF SessionSends, LinkNext
<1> QED
  BY <1>1, <1>2, <1>3, <1>4, <1>5, <1>6 DEF SessionNext

LEMMA SpoolerUsesLink ==
  ASSUME TypeOK, HandedIn, SpoolerNext
  PROVE  LinkNext \/ UNCHANGED linkVars
<1>0. queue \in Seq(Jobs) /\ cur \in Jobs \cup {NoJob}
  BY DEF TypeOK
<1>1. CASE TakeUnrenderable
  BY <1>1 DEF TakeUnrenderable
<1>2. CASE TakeAndUpload
  <2> DEFINE j == Head(queue)
  <2>1. j \in Jobs /\ msg[j] \in Inputs
    BY <1>0, <1>2, HeadOfQueue DEF TakeAndUpload
  <2>2. msg[j].to \in Addrs /\ Prelude(j) \in Docs
    BY <1>2, <2>1, Documents DEF TakeAndUpload, NeedsUpload
  <2> QED
    BY <1>2, <2>2, Callers DEF TakeAndUpload, LinkNext
<1>3. CASE TakeAndPrint
  <2> DEFINE j == Head(queue)
  <2>1. j \in Jobs /\ msg[j] \in Inputs
    BY <1>0, <1>3, HeadOfQueue DEF TakeAndPrint
  <2>2. msg[j].to \in Addrs /\ Body(j) \in Docs
    BY <2>1, Documents
  <2> QED
    BY <1>3, <2>2, Callers DEF TakeAndPrint, LinkNext
<1>4. CASE UploadFailed \/ UploadDone \/ BodyFailed \/ BodyDone
  BY <1>4, Callers DEF UploadFailed, UploadDone, BodyFailed, BodyDone, LinkNext
<1>5. CASE SettleOver
  <2>1. msg[cur].to \in Addrs /\ Body(cur) \in Docs
    BY <1>0, <1>5, Documents DEF SettleOver, HandedIn
  <2> QED
    BY <1>5, <2>1, Callers DEF SettleOver, LinkNext
<1>6. CASE SpoolerSends
  BY <1>6, Callers DEF SpoolerSends, LinkNext
<1> QED
  BY <1>1, <1>2, <1>3, <1>4, <1>5, <1>6 DEF SpoolerNext

LEMMA StepUsesLink ==
  ASSUME TypeOK, HandedIn, [Next]_vars
  PROVE  [LinkNext]_linkVars
<1>1. CASE SessionNext
  BY <1>1, SessionUsesLink
<1>2. CASE SpoolerNext
  BY <1>2, SpoolerUsesLink
<1>3. ASSUME NEW j \in Jobs, NEW m \in Inputs, PostPrint(j, m)
      PROVE  UNCHANGED linkVars
  BY <1>3 DEF PostPrint
<1>4. ASSUME NEW j \in Jobs, Enqueue(j)
      PROVE  UNCHANGED linkVars
  BY <1>4 DEF Enqueue
<1>5. CASE Tick
  BY <1>5 DEF Tick, LinkNext
<1>6. CASE Restart
  BY <1>6 DEF Restart, LinkNext
<1>7. CASE UNCHANGED vars
  BY <1>7 DEF vars
<1> QED
  BY <1>1, <1>2, <1>3, <1>4, <1>5, <1>6, <1>7 DEF Next

-----------------------------------------------------------------------------
(* Type correctness.  TypeOK is not inductive alone: a job taken from the  *)
(* channel must have a message, which is HandedIn.                         *)

JobTypes ==
  /\ msg     \in [Jobs -> Inputs \cup {NoMsg}]
  /\ from    \in [Jobs -> 0 .. MaxSessions]
  /\ verdict \in [Jobs -> Verdicts]
  /\ paper   \in [Jobs -> {"blank", "partial", "whole"}]
  /\ heard   \in [Jobs -> {"none", "printed", "failed"}]

ServerTypes ==
  /\ blocked \in SUBSET Jobs
  /\ queue   \in Seq(Jobs) /\ Len(queue) <= QueueCap
  /\ cur     \in Jobs \cup {NoJob}
  /\ step    \in {"recv", "prelude", "settle", "body"}
  /\ uploaded \in BOOLEAN
  /\ settle  \in 0 .. SettleTicks
  /\ cache   \in [Keys -> Hashes \cup {NoHash}]

SessionTypes ==
  /\ sess    \in 0 .. MaxSessions
  /\ live    \in BOOLEAN
  /\ act     \in {"away", "select", "enqueue", "direct"}
  /\ targets \in Seq(Addrs)
  /\ directs \in 0 .. MaxDirect
  /\ restarts \in 0 .. MaxRestarts

TypeInv == JobTypes /\ ServerTypes /\ SessionTypes /\ HandedIn

LEMMA TypeParts ==
  /\ TypeOK <=> LinkTypeOK /\ JobTypes /\ ServerTypes /\ SessionTypes
  /\ TypeOK' <=> LinkTypeOK' /\ JobTypes' /\ ServerTypes' /\ SessionTypes'
BY DEF TypeOK, JobTypes, ServerTypes, SessionTypes

LEMMA EmptyChannel ==
  ASSUME NEW S
  PROVE  <<>> \in Seq(S) /\ Len(<<>>) = 0 /\ \A i \in 1 .. Len(<<>>) : FALSE
OBVIOUS

LEMMA CountersUp ==
  ASSUME NEW n \in Nat, NEW x \in 0 .. n, x < n
  PROVE  x + 1 \in 0 .. n
OBVIOUS

LEMMA Bounds ==
  /\ MaxSessions \in Nat /\ MaxDirect \in Nat /\ MaxRestarts \in Nat
  /\ SettleTicks \in Nat /\ QueueCap \in Nat \ {0}
  /\ NoJob \notin Jobs /\ NoMsg \notin Inputs /\ Inputs \subseteq Messages
BY SpoolAssumption

\* The session goroutine and the handlers of POST /print.
LEMMA SessionKeepsTypes ==
  ASSUME TypeInv, SessionNext
  PROVE  TypeInv'
<1> USE DEF TypeInv
<1>1. CASE Connect
  <2>1. sess' \in 0 .. MaxSessions
    BY <1>1, Bounds, CountersUp DEF Connect, SessionTypes
  <2> QED
    BY <1>1, <2>1 DEF Connect, SessionTypes, JobTypes, ServerTypes, HandedIn, jobVars, spoolerVars
<1>2. CASE Break \/ SessionEnds
  BY <1>2 DEF Break, SessionEnds, SessionTypes, JobTypes, ServerTypes, HandedIn, jobVars, spoolerVars
<1>3. ASSUME NEW j \in Jobs, NEW m \in Inputs, ReceivePrintJob(j, m)
      PROVE  TypeInv'
  <2>1. JobTypes'
    BY <1>3, UpdateOne DEF ReceivePrintJob, JobTypes, SessionTypes
  <2>2. ServerTypes' /\ SessionTypes'
    BY <1>3 DEF ReceivePrintJob, ServerTypes, SessionTypes
  <2>3. msg' = [msg EXCEPT ![j] = m] /\ msg \in [Jobs -> Inputs \cup {NoMsg}]
    BY <1>3 DEF ReceivePrintJob, JobTypes
  <2>4. \A k \in Jobs : msg[k] \in Inputs => msg'[k] \in Inputs
    BY <2>3
  <2>5. queue' = queue /\ cur' = cur /\ step' = step /\ blocked' = blocked \cup {j}
    BY <1>3 DEF ReceivePrintJob
  <2>6. queue \in Seq(Jobs) /\ blocked \in SUBSET Jobs
    BY DEF ServerTypes
  <2>7. \A i \in 1 .. Len(queue) : queue[i] \in Jobs
    BY <2>6
  <2>8. HandedIn'
    BY <2>3, <2>4, <2>5, <2>6, <2>7 DEF HandedIn
  <2> QED
    BY <2>1, <2>2, <2>8
<1>d. ASSUME NEW j \in Jobs, DiscardPrintJob(j)
      PROVE  TypeInv'
  <2>1. JobTypes'
    BY <1>d, UpdateOne DEF DiscardPrintJob, JobTypes, SessionTypes, Verdicts
  <2>2. ServerTypes' /\ SessionTypes'
    BY <1>d DEF DiscardPrintJob, ServerTypes, SessionTypes, spoolerVars, sessionVars
  <2>3. HandedIn'
    BY <1>d DEF DiscardPrintJob, HandedIn, spoolerVars
  <2> QED
    BY <2>1, <2>2, <2>3
<1>4. ASSUME NEW ts \in TargetLists, ReceiveDirect(ts)
      PROVE  TypeInv'
  <2>1. ts \in Seq(Addrs)
    <3>1. PICK n \in 1 .. MaxTargets : ts \in [1 .. n -> Addrs]
      BY DEF TargetLists
    <3>2. n \in Nat
      BY <3>1, SpoolAssumption
    <3> QED
      BY <3>1, <3>2
  <2>2. directs' \in 0 .. MaxDirect
    BY <1>4, Bounds, CountersUp DEF ReceiveDirect, SessionTypes
  <2> QED
    BY <1>4, <2>1, <2>2 DEF ReceiveDirect, SessionTypes, JobTypes, ServerTypes, HandedIn, jobVars, spoolerVars
<1>5. CASE DirectSend
  <2>1. targets' \in Seq(Addrs)
    BY <1>5, TakeFirst DEF DirectSend, SessionTypes
  <2> QED
    BY <1>5, <2>1 DEF DirectSend, SessionTypes, JobTypes, ServerTypes, HandedIn, jobVars, spoolerVars
<1>6. ASSUME NEW result \in {"ok", "err"}, DirectReturn(result)
      PROVE  TypeInv'
  BY <1>6 DEF DirectReturn, SessionTypes, JobTypes, ServerTypes, HandedIn, jobVars, spoolerVars
<1>7. CASE SessionSends
  BY <1>7 DEF SessionSends, SessionTypes, JobTypes, ServerTypes, HandedIn, jobVars, spoolerVars, sessionVars
<1> QED
  BY <1>1, <1>2, <1>3, <1>4, <1>5, <1>6, <1>7, <1>d DEF SessionNext

\* The end of handle.
LEMMA FinishKeepsTypes ==
  ASSUME JobTypes, NEW j \in Jobs, NEW v \in {"printed", "failed"}, Finish(j, v),
         UNCHANGED <<msg, from, paper>>
  PROVE  /\ JobTypes' /\ cur' = NoJob /\ step' = "recv" /\ uploaded' \in BOOLEAN
<1>1. verdict' \in [Jobs -> Verdicts]
  BY UpdateOne DEF Finish, JobTypes, Verdicts
<1>2. heard' \in [Jobs -> {"none", "printed", "failed"}]
  BY UpdateOne DEF Finish, SendAck, JobTypes
<1> QED
  BY <1>1, <1>2 DEF Finish, JobTypes
\* What is left of the channel when its first job is taken.
LEMMA RestOfQueue ==
  ASSUME ServerTypes, HandedIn, queue # <<>>
  PROVE  /\ Tail(queue) \in Seq(Jobs) /\ Len(Tail(queue)) <= QueueCap
         /\ Head(queue) \in Jobs /\ msg[Head(queue)] \in Inputs
         /\ \A i \in 1 .. Len(Tail(queue)) : msg[Tail(queue)[i]] \in Inputs
<1>1. queue \in Seq(Jobs) /\ Len(queue) <= QueueCap /\ QueueCap \in Nat
  BY Bounds DEF ServerTypes
<1>2. Head(queue) \in Jobs /\ msg[Head(queue)] \in Inputs
  BY <1>1, HeadOfQueue
<1>3. Tail(queue) \in Seq(Jobs) /\ Len(Tail(queue)) <= QueueCap
  BY <1>1, TakeFirst
<1>4. \A i \in 1 .. Len(Tail(queue)) : msg[Tail(queue)[i]] \in Inputs
  BY <1>1, TakeFirst DEF HandedIn
<1> QED
  BY <1>2, <1>3, <1>4

\* The spooler goroutine.
LEMMA SpoolerKeepsTypes ==
  ASSUME TypeInv, SpoolerNext
  PROVE  TypeInv'
<1> USE DEF TypeInv
<1>1. CASE TakeUnrenderable
  <2>1. queue # <<>> /\ queue' = Tail(queue) /\ Finish(Head(queue), "failed")
        /\ UNCHANGED <<msg, from, paper, blocked, settle, cache>> /\ UNCHANGED sessionVars
    BY <1>1 DEF TakeUnrenderable
  <2>2. /\ Tail(queue) \in Seq(Jobs) /\ Len(Tail(queue)) <= QueueCap
        /\ Head(queue) \in Jobs
        /\ \A i \in 1 .. Len(Tail(queue)) : msg[Tail(queue)[i]] \in Inputs
    BY <2>1, RestOfQueue
  <2>3. JobTypes' /\ cur' = NoJob /\ step' = "recv" /\ uploaded' \in BOOLEAN
    BY <2>1, <2>2, FinishKeepsTypes
  <2>4. ServerTypes'
    BY <2>1, <2>2, <2>3 DEF ServerTypes
  <2>5. SessionTypes'
    BY <2>1 DEF SessionTypes, sessionVars
  <2>6. HandedIn'
    BY <2>1, <2>2, <2>3, Bounds DEF HandedIn
  <2> QED
    BY <2>3, <2>4, <2>5, <2>6
<1>2. CASE TakeAndUpload \/ TakeAndPrint
  <2>1. /\ queue # <<>> /\ queue' = Tail(queue) /\ cur' = Head(queue)
        /\ step' \in {"prelude", "body"} /\ uploaded' \in BOOLEAN
        /\ UNCHANGED jobVars /\ UNCHANGED <<blocked, settle, cache>> /\ UNCHANGED sessionVars
    BY <1>2 DEF TakeAndUpload, TakeAndPrint
  <2>2. /\ Tail(queue) \in Seq(Jobs) /\ Len(Tail(queue)) <= QueueCap
        /\ Head(queue) \in Jobs /\ msg[Head(queue)] \in Inputs
        /\ \A i \in 1 .. Len(Tail(queue)) : msg[Tail(queue)[i]] \in Inputs
    BY <2>1, RestOfQueue
  <2>3. ServerTypes'
    BY <2>1, <2>2 DEF ServerTypes
  <2>4. SessionTypes' /\ JobTypes'
    BY <2>1 DEF SessionTypes, JobTypes, sessionVars, jobVars
  <2>5. HandedIn'
    BY <2>1, <2>2, Bounds DEF HandedIn, jobVars
  <2> QED
    BY <2>3, <2>4, <2>5
<1>3. CASE UploadFailed \/ BodyFailed \/ BodyDone
  <2>1. PICK v \in {"printed", "failed"} : Finish(cur, v)
    BY <1>3 DEF UploadFailed, BodyFailed, BodyDone
  <2>2. /\ step # "recv"
        /\ UNCHANGED <<msg, from, paper, blocked, queue, settle>> /\ UNCHANGED sessionVars
    BY <1>3 DEF UploadFailed, BodyFailed, BodyDone
  <2>3. cur \in Jobs /\ msg[cur] \in Inputs
    BY <2>2 DEF HandedIn, ServerTypes
  <2>4. JobTypes' /\ cur' = NoJob /\ step' = "recv" /\ uploaded' \in BOOLEAN
    BY <2>1, <2>2, <2>3, FinishKeepsTypes
  <2>5. cache' \in [Keys -> Hashes \cup {NoHash}]
    <3>1. CASE UNCHANGED cache
      BY <3>1 DEF ServerTypes
    <3>2. CASE cache' = [cache EXCEPT ![KeyOf(cur)] = msg[cur].logo]
      <4>1. msg[cur].logo \in Hashes \cup {NoHash}
        BY <2>3, Bounds DEF Messages
      <4> QED
        BY <3>2, <4>1, UpdateOne DEF ServerTypes
    <3> QED
      BY <1>3, <3>1, <3>2 DEF UploadFailed, BodyFailed, BodyDone
  <2>6. ServerTypes'
    BY <2>2, <2>4, <2>5 DEF ServerTypes
  <2>7. SessionTypes'
    BY <2>2 DEF SessionTypes, sessionVars
  <2>8. HandedIn'
    BY <2>2, <2>4, Bounds DEF HandedIn
  <2> QED
    BY <2>4, <2>6, <2>7, <2>8
<1>4. CASE UploadDone
  <2>1. settle' \in 0 .. SettleTicks
    BY <1>4, RangeEnds, Bounds DEF UploadDone
  <2> QED
    BY <1>4, <2>1 DEF UploadDone, ServerTypes, SessionTypes, JobTypes, HandedIn, sessionVars, jobVars
<1>5. CASE SettleOver
  BY <1>5 DEF SettleOver, ServerTypes, SessionTypes, JobTypes, HandedIn, sessionVars, jobVars
<1>6. CASE SpoolerSends
  <2>1. paper' \in [Jobs -> {"blank", "partial", "whole"}]
    <3>1. CASE UNCHANGED paper
      BY <3>1 DEF JobTypes
    <3>2. CASE \E w \in {"partial", "whole"} : paper' = [paper EXCEPT ![cur] = w]
      BY <3>2, UpdateOne DEF JobTypes
    <3> QED
      BY <1>6, <3>1, <3>2 DEF SpoolerSends, Paper
  <2> QED
    BY <1>6, <2>1 DEF SpoolerSends, ServerTypes, SessionTypes, JobTypes, HandedIn, sessionVars, spoolerVars
<1> QED
  BY <1>1, <1>2, <1>3, <1>4, <1>5, <1>6 DEF SpoolerNext

\* No step leaves the types or loses a message.
LEMMA TypesKept ==
  ASSUME TypeOK, HandedIn, [Next]_vars
  PROVE  TypeOK' /\ HandedIn'
<1>0. LinkTypeOK /\ TypeInv
  BY TypeParts DEF TypeInv
<1>1. LinkTypeOK'
  BY <1>0, StepUsesLink, LinkTypesKept
<1>2. TypeInv'
  <2> USE <1>0 DEF TypeInv
  <2>1. CASE SessionNext
    BY <2>1, SessionKeepsTypes
  <2>2. CASE SpoolerNext
    BY <2>2, SpoolerKeepsTypes
  <2>3. ASSUME NEW j \in Jobs, NEW m \in Inputs, PostPrint(j, m)
        PROVE  TypeInv'
    <3>1. msg' = [msg EXCEPT ![j] = m] /\ msg \in [Jobs -> Inputs \cup {NoMsg}]
      BY <2>3 DEF PostPrint, JobTypes
    <3>2. \A k \in Jobs : msg[k] \in Inputs => msg'[k] \in Inputs
      BY <3>1
    <3>3. queue' = queue /\ cur' = cur /\ step' = step /\ blocked' = blocked \cup {j}
      BY <2>3 DEF PostPrint
    <3>4. queue \in Seq(Jobs) /\ blocked \in SUBSET Jobs
      BY DEF ServerTypes
    <3>5. \A i \in 1 .. Len(queue) : queue[i] \in Jobs
      BY <3>4
    <3>6. HandedIn'
      BY <3>1, <3>2, <3>3, <3>4, <3>5 DEF HandedIn
    <3>7. JobTypes'
      BY <2>3, UpdateOne DEF PostPrint, JobTypes
    <3>8. ServerTypes' /\ SessionTypes'
      BY <2>3 DEF PostPrint, ServerTypes, SessionTypes, sessionVars
    <3> QED
      BY <3>6, <3>7, <3>8
  <2>4. ASSUME NEW j \in Jobs, Enqueue(j)
        PROVE  TypeInv'
    <3>1. queue \in Seq(Jobs) /\ Len(queue) < QueueCap /\ queue' = Append(queue, j)
          /\ msg[j] \in Inputs /\ QueueCap \in Nat
      BY <2>4, Bounds DEF Enqueue, ServerTypes, HandedIn
    <3>2. queue' \in Seq(Jobs) /\ Len(queue') <= QueueCap
      BY <3>1, PutLast
    <3>3. \A i \in 1 .. Len(queue') : msg[queue'[i]] \in Inputs
      <4>1. Len(queue') = Len(queue) + 1 /\ Len(queue) \in Nat
        BY <3>1, PutLast
      <4>2. \A i \in 1 .. Len(queue) : queue'[i] = queue[i]
        BY <3>1, PutLast
      <4>3. queue'[Len(queue) + 1] = j
        BY <3>1, PutLast
      <4> QED
        BY <3>1, <4>1, <4>2, <4>3 DEF HandedIn
    <3> QED
      BY <2>4, <3>2, <3>3 DEF Enqueue, ServerTypes, SessionTypes, JobTypes, HandedIn, jobVars
  <2>5. CASE Tick
    <3>1. settle' \in 0 .. SettleTicks
      BY <2>5, Bounds, DownRange DEF Tick, ServerTypes
    <3> QED
      BY <2>5, <3>1 DEF Tick, ServerTypes, SessionTypes, JobTypes, HandedIn, jobVars, sessionVars
  <2>6. CASE Restart
    <3>1. restarts' \in 0 .. MaxRestarts
      BY <2>6, Bounds, CountersUp DEF Restart, SessionTypes
    <3>2. JobTypes'
      BY <2>6 DEF Restart, JobTypes, Verdicts
    <3>3. ServerTypes'
      <4>1. 0 \in 0 .. SettleTicks /\ <<>> \in Seq(Jobs) /\ Len(<<>>) <= QueueCap
        BY Bounds, RangeEnds, EmptyChannel
      <4>2. cache' \in [Keys -> Hashes \cup {NoHash}]
        BY <2>6 DEF Restart
      <4> QED
        BY <2>6, <4>1, <4>2 DEF Restart, ServerTypes
    <3>4. SessionTypes'
      BY <2>6, <3>1, EmptyChannel DEF Restart, SessionTypes
    <3>5. HandedIn'
      BY <2>6, Bounds DEF Restart, HandedIn
    <3> QED
      BY <3>2, <3>3, <3>4, <3>5
  <2>7. CASE UNCHANGED vars
    BY <2>7 DEF vars, jobVars, spoolerVars, sessionVars, ServerTypes, SessionTypes, JobTypes, HandedIn
  <2> QED
    BY <2>1, <2>2, <2>3, <2>4, <2>5, <2>6, <2>7 DEF Next
<1> QED
  BY <1>1, <1>2, TypeParts DEF TypeInv

LEMMA TypesAtStart == Init => TypeOK /\ HandedIn
<1> SUFFICES ASSUME Init PROVE TypeOK /\ HandedIn
  OBVIOUS
<1>1. LinkTypeOK
  BY LinkAssumption DEF Init, LinkInit, LinkTypeOK, LinkPCs, Addrs, Docs, Logos
<1>2. JobTypes
  BY Bounds DEF Init, JobTypes, Verdicts
<1>3. ServerTypes
  <2>1. 0 \in 0 .. SettleTicks /\ <<>> \in Seq(Jobs) /\ Len(<<>>) <= QueueCap
    BY Bounds, RangeEnds, EmptyChannel
  <2>2. cache \in [Keys -> Hashes \cup {NoHash}]
    BY DEF Init
  <2> QED
    BY <2>1, <2>2 DEF Init, ServerTypes
<1>4. SessionTypes
  <2>1. /\ 0 \in 0 .. MaxSessions /\ 0 \in 0 .. MaxDirect /\ 0 \in 0 .. MaxRestarts
        /\ <<>> \in Seq(Addrs)
    BY Bounds, RangeEnds, EmptyChannel
  <2> QED
    BY <2>1 DEF Init, SessionTypes
<1>5. HandedIn
  BY Bounds DEF Init, HandedIn
<1> QED
  BY <1>1, <1>2, <1>3, <1>4, <1>5, TypeParts

\* Spooler, session and printers stay inside their types, and the spooler
\* never handles a job that was not handed in.
THEOREM SpoolTypeCorrect == Safety => [](TypeOK /\ HandedIn)
BY TypesAtStart, TypesKept, PTL DEF Safety

\* Spooler and session goroutine use the printers by SendBytes alone: the
\* print path implements PrinterLink.
THEOREM SpoolUsesLink == Safety => ImplementsLink
<1>1. Init => LinkInit
  BY DEF Init
<1> QED
  BY <1>1, StepUsesLink, SpoolTypeCorrect, PTL DEF Safety, ImplementsLink, LinkSafety

\* So no two documents, queued or direct, ever interleave on a printer, and no
\* outcome of a job leaves an endpoint locked.
THEOREM SpoolSerializes == Safety => [](Exclusive /\ NoLeakedLock)
BY SpoolUsesLink, SendsExclusive, LocksReturned, PTL DEF ImplementsLink
-----------------------------------------------------------------------------
(* The wait for the flash.  FlashBounded looks at the moment of writing    *)
(* only; inductive is how much of the flash is left while the spooler is   *)
(* in its waits, for as long as the wait still to come is added.           *)

PauseOver(p)  == flash[p] + InterJobTicks <= FlashTicks
SettleDone(p) == flash[p] + InterJobTicks + SettleTicks <= FlashTicks

\* interJobDelay is over, or is passing in the call that made the upload.
Paused(p) ==
  \/ PauseOver(p)
  \/ pc[Spooler] = "pause" /\ dest[Spooler] = p /\ flash[p] + InterJobTicks <= FlashTicks + timer[Spooler]

\* Both waits are over, or the spooler is in one of them.
Settled(p) ==
  \/ SettleDone(p)
  \/ step = "prelude" /\ pc[Spooler] = "pause" /\ flash[p] + InterJobTicks <= FlashTicks + timer[Spooler]
  \/ step = "prelude" /\ pc[Spooler] = "ok" /\ PauseOver(p)
  \/ step = "settle" /\ flash[p] + InterJobTicks + SettleTicks <= FlashTicks + settle

Flashes(p, kinds) == flash[p] > 0 /\ flashBy[p] \in kinds

FlashWaited ==
  \A p \in Printers :
    /\ Flashes(p, {"prelude", "provision"}) => Paused(p)
    /\ Flashes(p, {"prelude"}) => Settled(p)

\* Nothing is left to wait for.
WaitedOut ==
  \A p \in Printers :
    /\ Flashes(p, {"prelude", "provision"}) => PauseOver(p)
    /\ Flashes(p, {"prelude"}) => SettleDone(p)

SettleInv ==
  /\ doc[Session] = Plain
  /\ doc[Spooler].by = "prelude" => step = "prelude"
  /\ pc[Spooler] # "idle" => step \in {"prelude", "body"}
  /\ FlashWaited

\* The types these steps need.
ClockTypes ==
  /\ pc    \in [Senders -> LinkPCs]
  /\ dest  \in [Senders -> Addrs]
  /\ doc   \in [Senders -> Docs]
  /\ timer \in [Senders -> Nat]
  /\ flash \in [Printers -> Nat]
  /\ flashBy \in [Printers -> {"none", "prelude", "provision", "earlier run"}]
  /\ settle \in Nat
  /\ SettleTicks \in Nat /\ InterJobTicks \in Nat /\ FlashTicks \in Nat
  /\ Spooler \in Senders /\ Session \in Senders /\ Spooler # Session

LEMMA ClockTypesHold == TypeOK => ClockTypes
<1> SUFFICES ASSUME TypeOK PROVE ClockTypes
  OBVIOUS
<1>1. SettleTicks \in Nat /\ InterJobTicks \in Nat /\ FlashTicks \in Nat
  BY LinkAssumption, SpoolAssumption
<1>2. /\ timer \in [Senders -> 0 .. InterJobTicks]
      /\ flash \in [Printers -> 0 .. FlashTicks]
      /\ settle \in 0 .. SettleTicks
  BY DEF TypeOK, LinkTypeOK
<1>3. timer \in [Senders -> Nat] /\ flash \in [Printers -> Nat] /\ settle \in Nat
  BY <1>1, <1>2
<1> QED
  BY <1>1, <1>3, Callers DEF TypeOK, LinkTypeOK, ClockTypes

\* Nothing of the spooler, of its call or of the flashes moves.
LEMMA SettleUntouched ==
  ASSUME SettleInv, ClockTypes, pc'[Spooler] = pc[Spooler], doc'[Spooler] = doc[Spooler],
         dest'[Spooler] = dest[Spooler], timer'[Spooler] = timer[Spooler], doc'[Session] = Plain,
         UNCHANGED <<flash, flashBy, step, settle>>
  PROVE  SettleInv'
<1>1. FlashWaited'
  BY DEF SettleInv, FlashWaited, Flashes, Paused, Settled, PauseOver, SettleDone
<1> QED
  BY <1>1 DEF SettleInv

\* The session goroutine prints plain documents only.
LEMMA SessionKeepsSettle ==
  ASSUME ClockTypes, SettleInv, SessionNext
  PROVE  SettleInv'
<1>0. doc[Session] = Plain /\ Spooler \in Senders /\ Session \in Senders /\ Spooler # Session
  BY DEF ClockTypes, SettleInv
<1>1. CASE Connect \/ Break \/ SessionEnds
  BY <1>0, <1>1, SettleUntouched DEF Connect, Break, SessionEnds, linkVars, spoolerVars
<1>2. ASSUME NEW j \in Jobs, NEW m \in Inputs, ReceivePrintJob(j, m)
      PROVE  SettleInv'
  BY <1>0, <1>2, SettleUntouched DEF ReceivePrintJob, linkVars
<1>d. ASSUME NEW j \in Jobs, DiscardPrintJob(j)
      PROVE  SettleInv'
  BY <1>0, <1>d, SettleUntouched DEF DiscardPrintJob, linkVars, spoolerVars
<1>3. ASSUME NEW ts \in TargetLists, ReceiveDirect(ts)
      PROVE  SettleInv'
  BY <1>0, <1>3, SettleUntouched DEF ReceiveDirect, linkVars, spoolerVars
<1>4. CASE DirectSend
  <2>1. /\ pc'[Spooler] = pc[Spooler] /\ doc'[Spooler] = doc[Spooler] /\ doc'[Session] = Plain
        /\ dest'[Spooler] = dest[Spooler] /\ UNCHANGED <<timer, flash, flashBy, step, settle>>
    BY <1>0, <1>4 DEF DirectSend, SendBytes, spoolerVars, ClockTypes
  <2> QED
    BY <2>1, SettleUntouched
<1>5. ASSUME NEW result \in {"ok", "err"}, DirectReturn(result)
      PROVE  SettleInv'
  <2>1. /\ pc'[Spooler] = pc[Spooler] /\ doc'[Spooler] = doc[Spooler] /\ doc'[Session] = Plain
        /\ dest'[Spooler] = dest[Spooler] /\ UNCHANGED <<timer, flash, flashBy, step, settle>>
    BY <1>0, <1>5 DEF DirectReturn, Return, spoolerVars, ClockTypes
  <2> QED
    BY <2>1, SettleUntouched
<1>6. CASE SessionSends
  <2>1. Plain \notin Upload
    BY DEF Plain, Upload
  <2>2. LinkStep(Session) /\ UNCHANGED <<step, settle>>
    BY <1>6 DEF SessionSends, spoolerVars
  <2>3. /\ pc'[Spooler] = pc[Spooler] /\ UNCHANGED <<dest, doc>>
        /\ timer'[Spooler] = timer[Spooler] /\ UNCHANGED <<flash, flashBy>>
    <3>1. CASE TakeLock(Session)
      BY <1>0, <3>1 DEF TakeLock, ClockTypes
    <3>2. CASE DialOk(Session)
      BY <1>0, <3>2 DEF DialOk, ClockTypes
    <3>3. CASE DialFail(Session)
      BY <1>0, <3>3 DEF DialFail, ClockTypes
    <3>4. CASE WriteChunk(Session)
      BY <1>0, <3>4 DEF WriteChunk, ClockTypes
    <3>5. CASE WriteLast(Session)
      BY <1>0, <2>1, <3>5 DEF WriteLast, Receive, ClockTypes
    <3>6. CASE WriteFail(Session)
      BY <1>0, <3>6 DEF WriteFail, ClockTypes
    <3>7. CASE EndPause(Session)
      BY <1>0, <3>7 DEF EndPause, ClockTypes
    <3> QED
      BY <2>2, <3>1, <3>2, <3>3, <3>4, <3>5, <3>6, <3>7 DEF LinkStep
  <2> QED
    BY <1>0, <2>2, <2>3, SettleUntouched
<1> QED
  BY <1>1, <1>2, <1>3, <1>4, <1>5, <1>6, <1>d DEF SessionNext
\* Outside the waits there is nothing left to wait for.
LEMMA OutsideWaits ==
  ASSUME SettleInv, pc[Spooler] # "pause", ~(step = "prelude" /\ pc[Spooler] = "ok"), step # "settle"
  PROVE  WaitedOut
BY DEF SettleInv, FlashWaited, WaitedOut, Paused, Settled

\* The spooler calls SendBytes, moves inside it or goes back to its select
\* while there is nothing left to wait for.
LEMMA QuietStep ==
  ASSUME WaitedOut, UNCHANGED <<flash, flashBy>>, doc'[Session] = Plain,
         doc'[Spooler].by = "prelude" => step' = "prelude",
         pc'[Spooler] # "idle" => step' \in {"prelude", "body"}
  PROVE  SettleInv'
<1>1. FlashWaited'
  BY DEF WaitedOut, FlashWaited, Flashes, Paused, Settled, PauseOver, SettleDone
<1> QED
  BY <1>1 DEF SettleInv

\* When the spooler calls SendBytes for a body, both waits are over.
LEMMA SettleEnds ==
  ASSUME ClockTypes, SettleInv, step = "settle", settle = 0
  PROVE  WaitedOut
<1>1. pc[Spooler] = "idle"
  BY DEF SettleInv
<1>2. ASSUME NEW p \in Printers, Flashes(p, {"prelude"})
      PROVE  SettleDone(p)
  <2>1. SettleDone(p) \/ flash[p] + InterJobTicks + SettleTicks <= FlashTicks + settle
    BY <1>1, <1>2 DEF SettleInv, FlashWaited, Settled
  <2>2. FlashTicks \in Nat
    BY DEF ClockTypes
  <2> QED
    BY <2>1, <2>2 DEF SettleDone
<1> QED
  BY <1>1, <1>2 DEF SettleInv, FlashWaited, WaitedOut, Paused

LEMMA HandleKeepsSettle ==
  ASSUME ClockTypes, SettleInv,
         \/ TakeUnrenderable \/ TakeAndUpload \/ TakeAndPrint
         \/ UploadFailed \/ UploadDone \/ SettleOver \/ BodyFailed \/ BodyDone
  PROVE  SettleInv'
<1>0. doc[Session] = Plain /\ Spooler \in Senders /\ Session \in Senders /\ Spooler # Session
  BY DEF ClockTypes, SettleInv
<1>b. \A j : Body(j).by # "prelude" /\ Prelude(j).by = "prelude" /\ Plain.by = "plain"
  BY DEF Body, Prelude, Plain
<1>r. step = "recv" => WaitedOut
  BY OutsideWaits DEF SettleInv
<1>1. CASE TakeUnrenderable
  <2>1. UNCHANGED linkVars /\ step = "recv" /\ step' = "recv"
    BY <1>1 DEF TakeUnrenderable, Finish
  <2> QED
    BY <1>0, <1>r, <2>1, QuietStep DEF linkVars, SettleInv
<1>2. CASE TakeAndUpload
  <2>1. /\ step = "recv" /\ step' = "prelude"
        /\ SendBytes(Spooler, msg[Head(queue)].to, Prelude(Head(queue)))
    BY <1>2 DEF TakeAndUpload
  <2>2. doc'[Session] = Plain /\ UNCHANGED <<flash, flashBy>>
    BY <1>0, <2>1 DEF SendBytes, ClockTypes
  <2> QED
    BY <1>r, <2>1, <2>2, QuietStep
<1>3. CASE TakeAndPrint \/ SettleOver
  <2>1. PICK j, a : SendBytes(Spooler, a, Body(j))
    BY <1>3 DEF TakeAndPrint, SettleOver
  <2>2. step' = "body" /\ WaitedOut
    BY <1>3, <1>r, SettleEnds DEF TakeAndPrint, SettleOver
  <2>3. doc' = [doc EXCEPT ![Spooler] = Body(j)] /\ UNCHANGED <<flash, flashBy>>
    BY <2>1 DEF SendBytes
  <2>4. doc'[Session] = Plain /\ doc'[Spooler].by # "prelude"
    BY <1>0, <1>b, <2>3 DEF ClockTypes
  <2> QED
    BY <2>2, <2>3, <2>4, QuietStep
<1>4. CASE UploadFailed \/ BodyFailed \/ BodyDone
  <2>1. /\ Return(Spooler, "err") \/ (Return(Spooler, "ok") /\ step = "body")
        /\ step # "settle" /\ step' = "recv"
    BY <1>4 DEF UploadFailed, BodyFailed, BodyDone, Finish
  <2>2. pc[Spooler] = "err" \/ (pc[Spooler] = "ok" /\ step = "body")
    BY <2>1 DEF Return
  <2>3. WaitedOut
    BY <2>1, <2>2, OutsideWaits
  <2>4. doc' = [doc EXCEPT ![Spooler] = Plain] /\ pc' = [pc EXCEPT ![Spooler] = "idle"]
        /\ UNCHANGED <<flash, flashBy>>
    BY <2>1 DEF Return
  <2>5. doc'[Session] = Plain /\ doc'[Spooler].by # "prelude" /\ pc'[Spooler] = "idle"
    BY <1>0, <1>b, <2>4 DEF ClockTypes
  <2> QED
    BY <2>3, <2>4, <2>5, QuietStep
<1>5. CASE UploadDone
  <2>1. /\ step = "prelude" /\ Return(Spooler, "ok") /\ step' = "settle" /\ settle' = SettleTicks
    BY <1>5 DEF UploadDone
  <2>2. doc' = [doc EXCEPT ![Spooler] = Plain] /\ pc' = [pc EXCEPT ![Spooler] = "idle"]
        /\ UNCHANGED <<flash, flashBy>> /\ pc[Spooler] = "ok"
    BY <2>1 DEF Return
  <2>3. doc'[Session] = Plain /\ doc'[Spooler].by # "prelude" /\ pc'[Spooler] = "idle"
    BY <1>0, <1>b, <2>2 DEF ClockTypes
  <2>4. ASSUME NEW p \in Printers, Flashes(p, {"prelude", "provision"})'
        PROVE  PauseOver(p)'
    BY <2>2, <2>4 DEF SettleInv, FlashWaited, Flashes, Paused, PauseOver
  <2>5. ASSUME NEW p \in Printers, Flashes(p, {"prelude"})'
        PROVE  Settled(p)'
    <3>1. PauseOver(p)'
      BY <2>4, <2>5 DEF Flashes
    <3>2. /\ flash'[p] \in Nat /\ InterJobTicks \in Nat /\ SettleTicks \in Nat /\ FlashTicks \in Nat
          /\ flash'[p] + InterJobTicks <= FlashTicks
      BY <2>2, <3>1 DEF ClockTypes, PauseOver
    <3>3. flash'[p] + InterJobTicks + SettleTicks <= FlashTicks + SettleTicks
      BY <3>2
    <3> QED
      BY <2>1, <3>3 DEF Settled
  <2>6. FlashWaited'
    BY <2>4, <2>5 DEF FlashWaited, Paused
  <2> QED
    BY <2>3, <2>6 DEF SettleInv
<1> QED
  BY <1>1, <1>2, <1>3, <1>4, <1>5

\* Inside a call of the spooler: the last chunk of an upload starts the flash
\* and interJobDelay together.
LEMMA SpoolerSendsKeepsSettle ==
  ASSUME ClockTypes, SettleInv, SpoolerSends
  PROVE  SettleInv'
<1>0. doc[Session] = Plain /\ Spooler \in Senders /\ Session \in Senders /\ Spooler # Session
  BY DEF ClockTypes, SettleInv
<1>1. LinkStep(Spooler) /\ UNCHANGED <<step, settle>>
  BY DEF SpoolerSends, spoolerVars
<1>c. pc[Spooler] \in {"lock", "dial", "write"} => WaitedOut
  BY OutsideWaits DEF SettleInv
<1>2. CASE TakeLock(Spooler) \/ DialOk(Spooler) \/ WriteChunk(Spooler)
  <2>1. /\ pc[Spooler] \in {"lock", "dial", "write"} /\ UNCHANGED <<doc, flash, flashBy>>
    BY <1>2 DEF TakeLock, DialOk, WriteChunk
  <2> QED
    BY <1>0, <1>1, <1>c, <2>1, QuietStep DEF SettleInv
<1>3. CASE DialFail(Spooler) \/ WriteFail(Spooler)
  <2>1. /\ pc[Spooler] \in {"dial", "write"} /\ UNCHANGED <<doc, flash, flashBy>>
    BY <1>3 DEF DialFail, WriteFail
  <2> QED
    BY <1>0, <1>1, <1>c, <2>1, QuietStep DEF SettleInv
<1>4. CASE WriteLast(Spooler)
  <2>1. /\ pc[Spooler] = "write" /\ UNCHANGED <<dest, doc>> /\ Receive(dest[Spooler], doc[Spooler])
        /\ pc' = [pc EXCEPT ![Spooler] = "pause"]
        /\ timer' = [timer EXCEPT ![Spooler] = InterJobTicks]
    BY <1>4 DEF WriteLast
  <2>2. pc'[Spooler] = "pause" /\ timer'[Spooler] = InterJobTicks
    BY <2>1 DEF ClockTypes
  <2>3. WaitedOut
    BY <1>c, <2>1
  <2>4. step \in {"prelude", "body"} /\ (doc[Spooler].by = "prelude" => step = "prelude")
    BY <2>1 DEF SettleInv
  <2>5. FlashWaited'
    <3>1. CASE doc[Spooler] \in Upload
      <4>1. /\ flash'   = [flash EXCEPT ![dest[Spooler]] = FlashTicks]
            /\ flashBy' = [flashBy EXCEPT ![dest[Spooler]] = doc[Spooler].by]
        BY <2>1, <3>1 DEF Receive
      <4>2. ASSUME NEW p \in Printers, p # dest[Spooler]
            PROVE  /\ Flashes(p, {"prelude", "provision"})' => Paused(p)'
                   /\ Flashes(p, {"prelude"})' => Settled(p)'
        <5>1. flash'[p] = flash[p] /\ flashBy'[p] = flashBy[p]
          BY <4>1, <4>2 DEF ClockTypes
        <5> QED
          BY <2>3, <5>1 DEF WaitedOut, Flashes, Paused, Settled, PauseOver, SettleDone
      <4>3. ASSUME NEW p \in Printers, p = dest[Spooler]
            PROVE  /\ Flashes(p, {"prelude", "provision"})' => Paused(p)'
                   /\ Flashes(p, {"prelude"})' => Settled(p)'
        <5>1. flash'[p] = FlashTicks /\ flashBy'[p] = doc[Spooler].by
          BY <4>1, <4>3 DEF ClockTypes
        <5>t. FlashTicks \in Nat /\ InterJobTicks \in Nat
          BY DEF ClockTypes
        <5>2. flash'[p] + InterJobTicks <= FlashTicks + timer'[Spooler]
          BY <2>2, <5>1, <5>t
        <5>3. dest'[Spooler] = p
          BY <2>1, <4>3
        <5> QED
          BY <1>1, <2>2, <2>4, <5>1, <5>2, <5>3 DEF Flashes, Paused, Settled
      <4> QED
        BY <4>2, <4>3 DEF FlashWaited
    <3>2. CASE doc[Spooler] \notin Upload
      <4>1. UNCHANGED <<flash, flashBy>>
        BY <2>1, <3>2 DEF Receive
      <4> QED
        BY <2>3, <4>1 DEF WaitedOut, FlashWaited, Flashes, Paused, Settled, PauseOver, SettleDone
    <3> QED
      BY <3>1, <3>2
  <2> QED
    BY <1>0, <1>1, <2>1, <2>4, <2>5 DEF SettleInv
<1>5. CASE EndPause(Spooler)
  <2>1. /\ pc[Spooler] = "pause" /\ timer[Spooler] = 0 /\ pc' = [pc EXCEPT ![Spooler] = "ok"]
        /\ UNCHANGED <<doc, flash, flashBy>>
    BY <1>5 DEF EndPause
  <2>2. pc'[Spooler] = "ok" /\ step \in {"prelude", "body"} /\ FlashTicks \in Nat
    BY <2>1 DEF ClockTypes, SettleInv
  <2>3. \A p \in Printers : flash[p] + InterJobTicks <= FlashTicks + timer[Spooler] => PauseOver(p)
    BY <2>1, <2>2 DEF PauseOver
  <2>4. ASSUME NEW p \in Printers
        PROVE  /\ Flashes(p, {"prelude", "provision"}) => PauseOver(p)
               /\ Flashes(p, {"prelude"}) => SettleDone(p) \/ step = "prelude"
    BY <2>2, <2>3 DEF SettleInv, FlashWaited, Paused, Settled
  <2>5. FlashWaited'
    <3>1. \A p \in Printers : Flashes(p, {"prelude"}) => Flashes(p, {"prelude", "provision"})
      BY DEF Flashes
    <3>2. /\ \A p \in Printers : PauseOver(p)' = PauseOver(p) /\ SettleDone(p)' = SettleDone(p)
          /\ \A p \in Printers, kinds \in {{"prelude"}, {"prelude", "provision"}} :
               Flashes(p, kinds)' = Flashes(p, kinds)
      BY <2>1 DEF PauseOver, SettleDone, Flashes
    <3> QED
      BY <1>1, <2>2, <2>4, <3>1, <3>2 DEF FlashWaited, Paused, Settled
  <2> QED
    BY <1>0, <1>1, <2>1, <2>2, <2>5 DEF SettleInv
<1> QED
  BY <1>1, <1>2, <1>3, <1>4, <1>5 DEF LinkStep

\* Time passes for the flash and for the waits alike.
LEMMA TickKeepsSettle ==
  ASSUME ClockTypes, SettleInv, Tick
  PROVE  SettleInv'
<1>1. /\ UNCHANGED <<pc, dest, doc, step>> /\ settle' = Down(settle)
      /\ timer' = [s \in Senders |-> Down(timer[s])]
      /\ flash' = [p \in Printers |-> Down(flash[p])]
      /\ flashBy' = [p \in Printers |-> IF flash[p] > 1 THEN flashBy[p] ELSE "none"]
  BY DEF Tick, Elapse
<1>2. /\ timer'[Spooler] = Down(timer[Spooler]) /\ timer[Spooler] \in Nat /\ settle \in Nat
      /\ SettleTicks \in Nat /\ InterJobTicks \in Nat /\ FlashTicks \in Nat
  BY <1>1 DEF ClockTypes
<1>3. ASSUME NEW p \in Printers, NEW kinds \in {{"prelude"}, {"prelude", "provision"}},
             Flashes(p, kinds)'
      PROVE  Flashes(p, kinds) /\ flash'[p] = flash[p] - 1 /\ flash[p] \in Nat
  <2>1. flash[p] \in Nat /\ flash'[p] = Down(flash[p])
    BY <1>1 DEF ClockTypes
  <2>2. flashBy'[p] = IF flash[p] > 1 THEN flashBy[p] ELSE "none"
    BY <1>1
  <2>3. flash[p] > 1 /\ flashBy[p] \in kinds
    BY <1>3, <2>2 DEF Flashes
  <2> QED
    BY <2>1, <2>3 DEF Down, Flashes
<1>5. ASSUME NEW p \in Printers, Flashes(p, {"prelude", "provision"})'
      PROVE  Paused(p)'
  <2>1. Paused(p) /\ flash'[p] = flash[p] - 1 /\ flash[p] \in Nat /\ flash[p] > 0
    BY <1>3, <1>5 DEF SettleInv, FlashWaited, Flashes
  <2>2. CASE PauseOver(p)
    <3>1. flash'[p] + InterJobTicks <= FlashTicks
      BY <1>2, <2>1, <2>2 DEF PauseOver
    <3> QED
      BY <3>1 DEF Paused, PauseOver
  <2>3. CASE ~PauseOver(p)
    <3>1. /\ pc[Spooler] = "pause" /\ dest[Spooler] = p
          /\ flash[p] + InterJobTicks <= FlashTicks + timer[Spooler]
      BY <2>1, <2>3 DEF Paused
    <3>2. timer[Spooler] > 0
      BY <1>2, <2>3, <3>1 DEF PauseOver
    <3>3. flash'[p] + InterJobTicks <= FlashTicks + timer'[Spooler]
      BY <1>2, <2>1, <3>1, <3>2 DEF Down
    <3> QED
      BY <1>1, <3>1, <3>3 DEF Paused
  <2> QED
    BY <2>2, <2>3
<1>6. ASSUME NEW p \in Printers, Flashes(p, {"prelude"})'
      PROVE  Settled(p)'
  <2>1. Settled(p) /\ flash'[p] = flash[p] - 1 /\ flash[p] \in Nat /\ flash[p] > 0
    BY <1>3, <1>6 DEF SettleInv, FlashWaited, Flashes
  <2>2. CASE SettleDone(p)
    <3>1. flash'[p] + InterJobTicks + SettleTicks <= FlashTicks
      BY <1>2, <2>1, <2>2 DEF SettleDone
    <3> QED
      BY <3>1 DEF Settled, SettleDone
  <2>3. CASE /\ step = "prelude" /\ pc[Spooler] = "pause"
             /\ flash[p] + InterJobTicks <= FlashTicks + timer[Spooler]
    <3>1. flash'[p] + InterJobTicks <= FlashTicks + timer'[Spooler]
      BY <1>2, <2>1, <2>3 DEF Down
    <3> QED
      BY <1>1, <2>3, <3>1 DEF Settled
  <2>4. CASE step = "prelude" /\ pc[Spooler] = "ok" /\ PauseOver(p)
    <3>1. flash'[p] + InterJobTicks <= FlashTicks
      BY <1>2, <2>1, <2>4 DEF PauseOver
    <3> QED
      BY <1>1, <2>4, <3>1 DEF Settled, PauseOver
  <2>5. CASE step = "settle" /\ flash[p] + InterJobTicks + SettleTicks <= FlashTicks + settle
    <3>1. flash'[p] + InterJobTicks + SettleTicks <= FlashTicks + settle'
      BY <1>1, <1>2, <2>1, <2>5 DEF Down
    <3> QED
      BY <1>1, <2>5, <3>1 DEF Settled
  <2> QED
    BY <2>1, <2>2, <2>3, <2>4, <2>5 DEF Settled
<1> QED
  BY <1>1, <1>5, <1>6 DEF SettleInv, FlashWaited

LEMMA SettleKept ==
  ASSUME TypeOK, SettleInv, [Next]_vars
  PROVE  SettleInv'
<1>0. ClockTypes
  BY ClockTypesHold
<1>1. CASE SessionNext
  BY <1>0, <1>1, SessionKeepsSettle
<1>2. CASE SpoolerNext
  BY <1>0, <1>2, HandleKeepsSettle, SpoolerSendsKeepsSettle DEF SpoolerNext
<1>3. ASSUME NEW j \in Jobs, NEW m \in Inputs, PostPrint(j, m)
      PROVE  SettleInv'
  BY <1>0, <1>3, SettleUntouched DEF PostPrint, linkVars, SettleInv
<1>4. ASSUME NEW j \in Jobs, Enqueue(j)
      PROVE  SettleInv'
  BY <1>0, <1>4, SettleUntouched DEF Enqueue, linkVars, SettleInv
<1>5. CASE Tick
  BY <1>0, <1>5, TickKeepsSettle
<1>6. CASE Restart
  <2>1. /\ doc' = [s \in Senders |-> Plain] /\ pc' = [s \in Senders |-> "idle"]
        /\ flashBy' = [p \in Printers |-> IF flash[p] > 0 THEN "earlier run" ELSE "none"]
    BY <1>6 DEF Restart, Abort
  <2>2. Plain.by # "prelude"
    BY DEF Plain
  <2>3. FlashWaited'
    BY <2>1 DEF FlashWaited, Flashes
  <2> QED
    BY <2>1, <2>2, <2>3, Callers DEF SettleInv
<1>7. CASE UNCHANGED vars
  BY <1>0, <1>7, SettleUntouched DEF vars, linkVars, spoolerVars, SettleInv
<1> QED
  BY <1>1, <1>2, <1>3, <1>4, <1>5, <1>6, <1>7 DEF Next

\* However long the flash takes and however short the delays are, a document
\* meets no more of the flash of an upload than what outlasts the waits before
\* it: the session's documents because interJobDelay passes under the mutex,
\* the spooler's because it waits nvFlashSettleDelay as well.
THEOREM FlashesBounded == Safety => []FlashBounded
<1>1. Init => SettleInv
  BY Callers DEF Init, LinkInit, SettleInv, FlashWaited, Flashes, Plain
<1>2. TypeOK /\ SettleInv /\ [Next]_vars => SettleInv'
  BY SettleKept
<1>3. TypeOK /\ LockInv /\ Exclusive /\ SettleInv => FlashBounded
  <2> SUFFICES ASSUME TypeOK, LockInv, Exclusive, SettleInv, NEW s \in Senders, pc[s] = "write",
                      flash[dest[s]] > 0, flashBy[dest[s]] \in {"prelude", "provision"}
               PROVE  flash[dest[s]] + Waited(s, dest[s]) <= FlashTicks
    BY DEF FlashBounded
  <2> DEFINE p == dest[s]
  <2>1. p \in Printers /\ Flashes(p, {"prelude", "provision"})
    BY DEF LockInv, Holding, Flashes
  <2>t. flash[p] \in Nat /\ InterJobTicks \in Nat /\ SettleTicks \in Nat
    BY <2>1, ClockTypesHold DEF ClockTypes
  <2>2. CASE s = Spooler
    <3>1. WaitedOut
      BY <2>2, OutsideWaits DEF SettleInv
    <3>2. PauseOver(p) /\ (flashBy[p] = "prelude" => SettleDone(p))
      BY <2>1, <3>1 DEF WaitedOut, Flashes
    <3> QED
      BY <2>t, <2>2, <3>2 DEF Waited, PauseOver, SettleDone
  <2>3. CASE s # Spooler
    <3>1. ~(pc[Spooler] = "pause" /\ dest[Spooler] = p)
      BY <2>3, Callers DEF Exclusive, Holding
    <3>2. PauseOver(p)
      BY <2>1, <3>1 DEF SettleInv, FlashWaited, Paused
    <3> QED
      BY <2>t, <2>3, <3>2 DEF Waited, PauseOver
  <2> QED
    BY <2>2, <2>3
<1> QED
  BY <1>1, <1>2, <1>3, SpoolTypeCorrect, SpoolUsesLink, SpoolSerializes, LockInvariant, PTL
     DEF Safety, ImplementsLink
-----------------------------------------------------------------------------
(* What a step may do to the jobs.  Every proof below goes through these   *)
(* moves and not through the actions of PrintSpool.                        *)

jobState == <<msg, verdict, paper, heard, blocked, queue, cur, step>>

Arrives(j, m) ==
  /\ msg[j] = NoMsg /\ verdict[j] = "none" /\ msg' = [msg EXCEPT ![j] = m]
  /\ blocked' = blocked \cup {j}
  /\ UNCHANGED <<verdict, paper, heard, queue, cur, step>>
  /\ pc'[Spooler] = pc[Spooler]

Enters(j) ==
  /\ j \in blocked /\ blocked' = blocked \ {j}
  /\ Len(queue) < QueueCap /\ queue' = Append(queue, j)
  /\ UNCHANGED <<msg, verdict, paper, heard, cur, step>>
  /\ pc'[Spooler] = pc[Spooler]

\* A message that cannot be read.
Discards(j) ==
  /\ msg[j] = NoMsg /\ verdict[j] = "none" /\ verdict' = [verdict EXCEPT ![j] = "discarded"]
  /\ UNCHANGED <<msg, paper, heard, blocked, queue, cur, step>>
  /\ pc'[Spooler] = pc[Spooler]

\* The job at the head of the channel goes to handle, and its first call begins.
Begins ==
  /\ step = "recv" /\ step' \in {"prelude", "body"}
  /\ queue # <<>> /\ queue' = Tail(queue) /\ cur' = Head(queue)
  /\ UNCHANGED <<msg, verdict, paper, heard, blocked>>
  /\ pc'[Spooler] \in {"lock", "err"}

\* The job in handle goes on to the wait, and to its body.
GoesOn ==
  /\ step \in {"prelude", "settle"}
  /\ step' = "body" => pc'[Spooler] \in {"lock", "err"}
  /\ step' \in {"settle", "body"}
  /\ UNCHANGED <<msg, verdict, paper, heard, blocked, queue, cur>>

Concluded(j, v) ==
  /\ verdict' = [verdict EXCEPT ![j] = v]
  /\ heard' = heard \/ heard' = [heard EXCEPT ![j] = v]
  /\ cur' = NoJob /\ step' = "recv"
  /\ UNCHANGED <<msg, paper, blocked>>

Refused ==
  /\ step = "recv" /\ queue # <<>> /\ queue' = Tail(queue)
  /\ Concluded(Head(queue), "failed")

Finished(v) ==
  /\ step # "recv" /\ UNCHANGED queue
  /\ IF v = "printed" THEN step = "body" /\ pc[Spooler] = "ok"
                      ELSE v = "failed" /\ pc[Spooler] = "err"
  /\ Concluded(cur, v)

Lost ==
  /\ verdict' = [j \in Jobs |-> IF msg[j] # NoMsg /\ verdict[j] = "none" THEN "lost" ELSE verdict[j]]
  /\ blocked' = {} /\ queue' = <<>> /\ cur' = NoJob /\ step' = "recv"
  /\ UNCHANGED <<msg, paper, heard>>

Still == UNCHANGED jobState /\ pc'[Spooler] = pc[Spooler]

\* Inside a call of the spooler.
Sends ==
  /\ LinkStep(Spooler) /\ Paper
  /\ UNCHANGED <<msg, verdict, heard, blocked, queue, cur, step>>

JobMove ==
  \/ \E j \in Jobs, m \in Inputs : Arrives(j, m)
  \/ \E j \in Jobs : Enters(j) \/ Discards(j)
  \/ Begins \/ GoesOn \/ Refused
  \/ \E v \in {"printed", "failed"} : Finished(v)
  \/ Sends \/ Lost \/ Still

\* A step of the session goroutine's call leaves the spooler's call alone.
LEMMA OtherCall ==
  ASSUME pc \in [Senders -> LinkPCs],
         \/ LinkStep(Session)
         \/ \E a, d : SendBytes(Session, a, d)
         \/ \E result : Return(Session, result)
  PROVE  pc'[Spooler] = pc[Spooler]
BY Callers DEF LinkStep, TakeLock, DialOk, DialFail, WriteChunk, WriteLast, WriteFail, EndPause,
               SendBytes, Return

LEMMA SpoolerMoves ==
  ASSUME TypeOK, HandedIn, SpoolerNext
  PROVE  JobMove
<1>0. pc \in [Senders -> LinkPCs] /\ Spooler \in Senders
  BY Callers DEF TypeOK, LinkTypeOK
<1>1. CASE TakeUnrenderable
  BY <1>1 DEF TakeUnrenderable, Finish, SendAck, JobMove, Refused, Concluded
<1>2. CASE TakeAndUpload \/ TakeAndPrint
  <2>1. pc'[Spooler] \in {"lock", "err"}
    BY <1>0, <1>2 DEF TakeAndUpload, TakeAndPrint, SendBytes
  <2> QED
    BY <1>2, <2>1 DEF TakeAndUpload, TakeAndPrint, jobVars, JobMove, Begins
<1>3. CASE UploadDone
  BY <1>3 DEF UploadDone, jobVars, JobMove, GoesOn
<1>4. CASE SettleOver
  <2>1. pc'[Spooler] \in {"lock", "err"}
    BY <1>0, <1>4 DEF SettleOver, SendBytes
  <2> QED
    BY <1>4, <2>1 DEF SettleOver, jobVars, JobMove, GoesOn
<1>5. CASE UploadFailed \/ BodyFailed
  <2>1. Finished("failed")
    BY <1>5 DEF UploadFailed, BodyFailed, Finish, SendAck, Return, Finished, Concluded
  <2> QED
    BY <2>1 DEF JobMove
<1>6. CASE BodyDone
  <2>1. Finished("printed")
    BY <1>6 DEF BodyDone, Finish, SendAck, Return, Finished, Concluded
  <2> QED
    BY <2>1 DEF JobMove
<1>7. CASE SpoolerSends
  BY <1>7 DEF SpoolerSends, spoolerVars, JobMove, Sends
<1> QED
  BY <1>1, <1>2, <1>3, <1>4, <1>5, <1>6, <1>7 DEF SpoolerNext

LEMMA StepMovesJobs ==
  ASSUME TypeOK, HandedIn, [Next]_vars
  PROVE  JobMove
<1>0. pc \in [Senders -> LinkPCs]
  BY DEF TypeOK, LinkTypeOK
<1>1. CASE SessionNext
  <2>1. CASE Connect \/ Break \/ SessionEnds
    BY <2>1 DEF Connect, Break, SessionEnds, linkVars, jobVars, spoolerVars, JobMove, Still, jobState
  <2>2. ASSUME NEW j \in Jobs, NEW m \in Inputs, ReceivePrintJob(j, m)
        PROVE  Arrives(j, m)
    BY <2>2 DEF ReceivePrintJob, linkVars, Arrives
  <2>d. ASSUME NEW j \in Jobs, DiscardPrintJob(j)
        PROVE  Discards(j)
    BY <2>d DEF DiscardPrintJob, linkVars, spoolerVars, Discards
  <2>3. ASSUME NEW ts \in TargetLists, ReceiveDirect(ts)
        PROVE  Still
    BY <2>3 DEF ReceiveDirect, linkVars, jobVars, spoolerVars, Still, jobState
  <2>4. CASE DirectSend
    BY <1>0, <2>4, OtherCall DEF DirectSend, jobVars, spoolerVars, JobMove, Still, jobState
  <2>5. ASSUME NEW result \in {"ok", "err"}, DirectReturn(result)
        PROVE  Still
    BY <1>0, <2>5, OtherCall DEF DirectReturn, jobVars, spoolerVars, Still, jobState
  <2>6. CASE SessionSends
    BY <1>0, <2>6, OtherCall DEF SessionSends, jobVars, spoolerVars, JobMove, Still, jobState
  <2> QED
    BY <1>1, <2>1, <2>2, <2>3, <2>4, <2>5, <2>6, <2>d DEF SessionNext, JobMove
<1>2. CASE SpoolerNext
  BY <1>2, SpoolerMoves
<1>3. ASSUME NEW j \in Jobs, NEW m \in Inputs, PostPrint(j, m)
      PROVE  Arrives(j, m)
  BY <1>3 DEF PostPrint, linkVars, Arrives
<1>4. ASSUME NEW j \in Jobs, Enqueue(j)
      PROVE  Enters(j)
  BY <1>4 DEF Enqueue, linkVars, jobVars, Enters
<1>5. CASE Tick
  BY <1>5 DEF Tick, Elapse, jobVars, JobMove, Still, jobState
<1>6. CASE Restart
  BY <1>6 DEF Restart, JobMove, Lost
<1>7. CASE UNCHANGED vars
  BY <1>7 DEF vars, linkVars, jobVars, spoolerVars, JobMove, Still, jobState
<1> QED
  BY <1>1, <1>2, <1>3, <1>4, <1>5, <1>6, <1>7 DEF Next, JobMove

-----------------------------------------------------------------------------
(* A job is in one place.  JobsConserved is inductive together with the    *)
(* fact that a job without a message has no verdict, or was discarded.     *)

Fresh == \A j \in Jobs : msg[j] = NoMsg => verdict[j] \in {"none", "discarded"}

Placed == JobsConserved /\ Fresh

\* Where a job is.
Somewhere(j) == j \in blocked \/ InQueue(j) \/ j = cur

OnePlace(j) ==
  /\ msg[j] # NoMsg /\ verdict[j] = "none" <=> Somewhere(j)
  /\ ~(j \in blocked /\ InQueue(j)) /\ ~(j = cur /\ (j \in blocked \/ InQueue(j)))

\* The channel holds no job twice.
Once == \A i, k \in 1 .. Len(queue) : queue[i] = queue[k] => i = k

\* The types these steps need.
PlaceTypes ==
  /\ msg \in [Jobs -> Inputs \cup {NoMsg}]
  /\ verdict \in [Jobs -> Verdicts]
  /\ heard \in [Jobs -> {"none", "printed", "failed"}]
  /\ queue \in Seq(Jobs)
  /\ blocked \in SUBSET Jobs
  /\ cur \in Jobs \cup {NoJob} /\ (cur = NoJob <=> step = "recv")

LEMMA PlaceTypesHold ==
  /\ TypeOK /\ HandedIn => PlaceTypes
  /\ (TypeOK /\ HandedIn)' => PlaceTypes'
BY DEF TypeOK, HandedIn, PlaceTypes

LEMMA ConservedParts ==
  ASSUME queue \in Seq(Jobs)
  PROVE  JobsConserved <=> Once /\ \A j \in Jobs : OnePlace(j)
<1>1. \A i \in 1 .. Len(queue) : queue[i] \in Jobs
  OBVIOUS
<1>2. Once <=> \A j \in Jobs : \A i, k \in 1 .. Len(queue) : queue[i] = j /\ queue[k] = j => i = k
  BY <1>1 DEF Once
<1> QED
  BY <1>2 DEF JobsConserved, OnePlace, Somewhere

LEMMA ChannelGrows ==
  ASSUME queue \in Seq(Jobs), Once, NEW j \in Jobs, ~InQueue(j), queue' = Append(queue, j)
  PROVE  Once' /\ \A k \in Jobs : InQueue(k)' <=> InQueue(k) \/ k = j
<1>1. Len(queue) \in Nat /\ Len(queue') = Len(queue) + 1
  BY PutLast
<1>2. /\ \A i \in 1 .. Len(queue) : queue'[i] = queue[i] /\ queue[i] # j
      /\ queue'[Len(queue) + 1] = j
  BY PutLast DEF InQueue
<1>3. 1 .. Len(queue') = 1 .. Len(queue) \cup {Len(queue) + 1}
  BY <1>1
<1>4. Once'
  BY <1>2, <1>3 DEF Once
<1>5. \A k \in Jobs : InQueue(k)' <=> InQueue(k) \/ k = j
  BY <1>2, <1>3 DEF InQueue
<1> QED
  BY <1>4, <1>5

LEMMA ChannelShrinks ==
  ASSUME queue \in Seq(Jobs), Once, queue # <<>>, queue' = Tail(queue)
  PROVE  /\ Once' /\ Head(queue) \in Jobs /\ InQueue(Head(queue))
         /\ \A k \in Jobs : InQueue(k)' <=> InQueue(k) /\ k # Head(queue)
<1>1. /\ Len(queue) \in Nat /\ Len(queue) > 0 /\ Len(queue') = Len(queue) - 1
      /\ Head(queue) = queue[1] /\ Head(queue) \in Jobs
      /\ \A i \in 1 .. Len(queue') : i + 1 \in 1 .. Len(queue) /\ queue'[i] = queue[i + 1]
  BY TakeFirst
<1>2. Once'
  <2> SUFFICES ASSUME NEW i \in 1 .. Len(queue'), NEW k \in 1 .. Len(queue'), queue'[i] = queue'[k]
               PROVE  i = k
    BY DEF Once
  <2>1. i + 1 = k + 1
    BY <1>1 DEF Once
  <2> QED
    BY <1>1, <2>1
<1>3. InQueue(Head(queue))
  BY <1>1 DEF InQueue
<1>4. ASSUME NEW k \in Jobs
      PROVE  InQueue(k)' <=> InQueue(k) /\ k # Head(queue)
  <2>1. ASSUME InQueue(k)' PROVE InQueue(k) /\ k # Head(queue)
    <3>1. PICK i \in 1 .. Len(queue') : queue'[i] = k
      BY <2>1 DEF InQueue
    <3>2. i + 1 \in 1 .. Len(queue) /\ queue[i + 1] = k /\ 1 \in 1 .. Len(queue) /\ i + 1 # 1
      BY <1>1, <3>1
    <3> QED
      BY <1>1, <3>2 DEF Once, InQueue
  <2>2. ASSUME InQueue(k), k # Head(queue) PROVE InQueue(k)'
    <3>1. PICK i \in 1 .. Len(queue) : queue[i] = k
      BY <2>2 DEF InQueue
    <3>2. i # 1
      BY <1>1, <2>2, <3>1
    <3>3. i - 1 \in 1 .. Len(queue') /\ (i - 1) + 1 = i
      BY <1>1, <3>1, <3>2
    <3>4. queue'[i - 1] = k
      BY <1>1, <3>1, <3>3
    <3> QED
      BY <3>3, <3>4 DEF InQueue
  <2> QED
    BY <2>1, <2>2
<1> QED
  BY <1>1, <1>2, <1>3, <1>4

\* A verdict changes what is said of one job.
LEMMA VerdictGiven ==
  ASSUME PlaceTypes, NEW j \in Jobs, NEW v \in Verdicts \ {"none"},
         verdict' = [verdict EXCEPT ![j] = v]
  PROVE  \A k \in Jobs : verdict'[k] = (IF k = j THEN v ELSE verdict[k])
BY DEF PlaceTypes

LEMMA PlacedKept ==
  ASSUME PlaceTypes, PlaceTypes', Placed, JobMove
  PROVE  Placed'
<1>0. queue \in Seq(Jobs) /\ queue' \in Seq(Jobs) /\ Once /\ \A j \in Jobs : OnePlace(j)
  BY ConservedParts DEF Placed, PlaceTypes
<1>g. SUFFICES Once' /\ (\A j \in Jobs : OnePlace(j)') /\ Fresh'
  <2>1. JobsConserved' <=> (Once' /\ \A j \in Jobs : OnePlace(j)')
    <3>1. \A i \in 1 .. Len(queue') : queue'[i] \in Jobs
      BY <1>0
    <3>2. Once' <=> \A j \in Jobs : \A i, k \in 1 .. Len(queue') : queue'[i] = j /\ queue'[k] = j => i = k
      BY <3>1 DEF Once
    <3> QED
      BY <3>2 DEF JobsConserved, OnePlace, Somewhere
  <2> QED
    BY <2>1 DEF Placed
<1>1. ASSUME NEW j \in Jobs, NEW m \in Inputs, Arrives(j, m)
      PROVE  Once' /\ (\A k \in Jobs : OnePlace(k)') /\ Fresh'
  <2>1. /\ msg[j] = NoMsg /\ m # NoMsg
        /\ \A k \in Jobs : msg'[k] = IF k = j THEN m ELSE msg[k]
    BY <1>1, Bounds DEF Arrives, PlaceTypes
  <2>2. \A k \in Jobs : InQueue(k)' <=> InQueue(k)
    BY <1>1 DEF Arrives, InQueue
  <2>3. Once'
    BY <1>0, <1>1 DEF Arrives, Once
  <2>4. \A k \in Jobs : OnePlace(k)'
    BY <1>0, <1>1, <2>1, <2>2 DEF Arrives, OnePlace, Somewhere, Placed, Fresh
  <2>5. Fresh'
    BY <1>1, <2>1 DEF Placed, Fresh, Arrives
  <2> QED
    BY <2>3, <2>4, <2>5
<1>2. ASSUME NEW j \in Jobs, Enters(j)
      PROVE  Once' /\ (\A k \in Jobs : OnePlace(k)') /\ Fresh'
  <2>1. ~InQueue(j)
    BY <1>0, <1>2 DEF Enters, OnePlace
  <2>2. Once' /\ \A k \in Jobs : InQueue(k)' <=> InQueue(k) \/ k = j
    BY <1>0, <1>2, <2>1, ChannelGrows DEF Enters
  <2>3. \A k \in Jobs : OnePlace(k)'
    BY <1>0, <1>2, <2>2 DEF Enters, OnePlace, Somewhere
  <2> QED
    BY <1>2, <2>2, <2>3 DEF Placed, Fresh, Enters
<1>3. CASE Begins
  <2>1. Once' /\ Head(queue) \in Jobs /\ InQueue(Head(queue))
        /\ \A k \in Jobs : InQueue(k)' <=> InQueue(k) /\ k # Head(queue)
    BY <1>0, <1>3, ChannelShrinks DEF Begins
  <2>2. cur = NoJob /\ NoJob \notin Jobs
    BY <1>3, Bounds DEF Begins, PlaceTypes
  <2>3. \A k \in Jobs : OnePlace(k)'
    BY <1>0, <1>3, <2>1, <2>2 DEF Begins, OnePlace, Somewhere
  <2> QED
    BY <1>3, <2>1, <2>3 DEF Placed, Fresh, Begins
<1>4. CASE GoesOn \/ Sends \/ Still
  <2>1. UNCHANGED <<msg, verdict, blocked, queue, cur>>
    BY <1>4 DEF GoesOn, Sends, Still, jobState
  <2> QED
    BY <1>0, <2>1 DEF Placed, Fresh, Once, OnePlace, Somewhere, InQueue
<1>5. CASE Refused
  <2>1. Once' /\ Head(queue) \in Jobs /\ InQueue(Head(queue))
        /\ \A k \in Jobs : InQueue(k)' <=> InQueue(k) /\ k # Head(queue)
    BY <1>0, <1>5, ChannelShrinks DEF Refused
  <2>2. cur = NoJob /\ NoJob \notin Jobs /\ cur' = NoJob
    BY <1>5, Bounds DEF Refused, Concluded, PlaceTypes
  <2>3. \A k \in Jobs : verdict'[k] = IF k = Head(queue) THEN "failed" ELSE verdict[k]
    BY <1>5, <2>1, VerdictGiven DEF Refused, Concluded, Verdicts
  <2>4. msg[Head(queue)] # NoMsg
    BY <1>0, <2>1 DEF OnePlace, Somewhere
  <2>5. \A k \in Jobs : OnePlace(k)'
    BY <1>0, <1>5, <2>1, <2>2, <2>3 DEF Refused, Concluded, OnePlace, Somewhere
  <2> QED
    BY <1>5, <2>1, <2>3, <2>4, <2>5 DEF Placed, Fresh, Refused, Concluded
<1>6. ASSUME NEW v \in {"printed", "failed"}, Finished(v)
      PROVE  Once' /\ (\A k \in Jobs : OnePlace(k)') /\ Fresh'
  <2>1. cur \in Jobs /\ NoJob \notin Jobs /\ cur' = NoJob
    BY <1>6, Bounds DEF Finished, Concluded, PlaceTypes
  <2>2. \A k \in Jobs : verdict'[k] = IF k = cur THEN v ELSE verdict[k]
    <3>1. verdict' = [verdict EXCEPT ![cur] = v] /\ v \in Verdicts \ {"none"}
      BY <1>6 DEF Finished, Concluded, Verdicts
    <3> QED
      BY <2>1, <3>1, VerdictGiven
  <2>3. \A k \in Jobs : InQueue(k)' <=> InQueue(k)
    BY <1>6 DEF Finished, InQueue
  <2>4. \A k \in Jobs : OnePlace(k)'
    BY <1>0, <1>6, <2>1, <2>2, <2>3 DEF Finished, Concluded, OnePlace, Somewhere
  <2>5. Fresh'
    BY <1>0, <1>6, <2>1, <2>2 DEF Finished, Concluded, Placed, Fresh, OnePlace, Somewhere
  <2> QED
    BY <1>0, <1>6, <2>4, <2>5 DEF Once, Finished
<1>7. CASE Lost
  <2>1. Once' /\ \A k \in Jobs : ~InQueue(k)'
    BY <1>7, EmptyChannel DEF Lost, Once, InQueue
  <2>2. \A k \in Jobs : OnePlace(k)'
    BY <1>7, <2>1, Bounds DEF Lost, OnePlace, Somewhere
  <2>3. Fresh'
    BY <1>7 DEF Lost, Placed, Fresh
  <2> QED
    BY <2>1, <2>2, <2>3
<1>8. ASSUME NEW j \in Jobs, Discards(j)
      PROVE  Once' /\ (\A k \in Jobs : OnePlace(k)') /\ Fresh'
  <2>1. \A k \in Jobs : verdict'[k] = IF k = j THEN "discarded" ELSE verdict[k]
    BY <1>8, VerdictGiven DEF Discards, Verdicts
  <2>2. \A k \in Jobs : InQueue(k)' <=> InQueue(k)
    BY <1>8 DEF Discards, InQueue
  <2>3. \A k \in Jobs : OnePlace(k)'
    BY <1>0, <1>8, <2>1, <2>2 DEF Discards, OnePlace, Somewhere
  <2>4. Fresh'
    BY <1>8, <2>1 DEF Discards, Placed, Fresh
  <2> QED
    BY <1>0, <1>8, <2>3, <2>4 DEF Once, Discards
<1> QED
  BY <1>1, <1>2, <1>3, <1>4, <1>5, <1>6, <1>7, <1>8 DEF JobMove

LEMMA PlacedAtStart == Init => Placed
<1> SUFFICES ASSUME Init PROVE Placed
  OBVIOUS
<1>1. \A j \in Jobs : ~InQueue(j) /\ ~Somewhere(j) /\ msg[j] = NoMsg /\ verdict[j] = "none"
  BY Bounds, EmptyChannel DEF Init, InQueue, Somewhere
<1>2. \A i, k \in 1 .. Len(queue) : FALSE
  BY EmptyChannel DEF Init
<1> QED
  BY <1>1, <1>2 DEF Placed, Fresh, JobsConserved, Somewhere

-----------------------------------------------------------------------------
(* What the cloud hears is true.  AckTruthful says nothing of a job before *)
(* its answer; inductive is what the paper looks like on the whole way.    *)

VerdictTrue ==
  \A j \in Jobs :
    /\ heard[j] # "none" => heard[j] = verdict[j]
    /\ verdict[j] = "printed" => paper[j] = "whole"
    /\ verdict[j] = "failed" => paper[j] # "whole"
    /\ verdict[j] = "none" /\ j # cur => paper[j] = "blank"

PaperInHandle ==
  cur \in Jobs =>
    /\ step = "body" => (paper[cur] = "whole" <=> pc[Spooler] \in {"pause", "ok"})
    /\ step # "body" => paper[cur] # "whole"

PaperInv == VerdictTrue /\ PaperInHandle

\* The types the writing needs.
WriteTypes ==
  /\ pc \in [Senders -> LinkPCs]
  /\ left \in [Senders -> 0 .. Chunks] /\ Chunks \in Nat
  /\ paper \in [Jobs -> {"blank", "partial", "whole"}]
  /\ cur \in Jobs \cup {NoJob}

LEMMA WriteTypesHold == TypeOK => WriteTypes
BY LinkAssumption DEF TypeOK, LinkTypeOK, WriteTypes

\* What the printer has of a document is the whole when the last chunk is out,
\* and nothing is added to it by a call that fails.
LEMMA PaperGrows ==
  ASSUME WriteTypes, LinkStep(Spooler), Paper, step = "body"
  PROVE  \/ /\ paper' = [paper EXCEPT ![cur] = "whole"]
            /\ pc[Spooler] = "write" /\ pc'[Spooler] = "pause"
         \/ /\ paper' = [paper EXCEPT ![cur] = "partial"]
            /\ pc[Spooler] = "write" /\ pc'[Spooler] = "write"
         \/ /\ paper' = paper
            /\ pc[Spooler] \in {"pause", "ok"} <=> pc'[Spooler] \in {"pause", "ok"}
<1>0. /\ Spooler \in Senders /\ pc \in [Senders -> LinkPCs]
      /\ left \in [Senders -> 0 .. Chunks] /\ left[Spooler] \in 0 .. Chunks /\ Chunks \in Nat
  BY Callers DEF WriteTypes
<1>1. CASE TakeLock(Spooler) \/ EndPause(Spooler)
  BY <1>0, <1>1 DEF TakeLock, EndPause, Paper
<1>2. CASE DialOk(Spooler)
  <2>1. left'[Spooler] = Chunks /\ pc[Spooler] = "dial" /\ pc'[Spooler] = "write"
    BY <1>0, <1>2 DEF DialOk
  <2>2. ~(left'[Spooler] < left[Spooler])
    BY <1>0, <2>1
  <2>3. paper' = paper
    BY <2>2 DEF Paper
  <2> QED
    BY <2>1, <2>3
<1>3. CASE DialFail(Spooler) \/ WriteFail(Spooler)
  BY <1>0, <1>3 DEF DialFail, WriteFail, Paper
<1>4. CASE WriteChunk(Spooler)
  <2>1. /\ left'[Spooler] = left[Spooler] - 1 /\ left[Spooler] > 1
        /\ pc[Spooler] = "write" /\ pc'[Spooler] = "write"
    BY <1>0, <1>4 DEF WriteChunk
  <2>2. left'[Spooler] < left[Spooler] /\ left'[Spooler] # 0
    BY <1>0, <2>1
  <2>3. paper' = [paper EXCEPT ![cur] = "partial"]
    BY <2>1, <2>2 DEF Paper
  <2> QED
    BY <2>1, <2>3
<1>5. CASE WriteLast(Spooler)
  <2>1. left'[Spooler] = 0 /\ left[Spooler] = 1 /\ pc[Spooler] = "write" /\ pc'[Spooler] = "pause"
    BY <1>0, <1>5 DEF WriteLast
  <2> QED
    BY <2>1 DEF Paper
<1> QED
  BY <1>1, <1>2, <1>3, <1>4, <1>5 DEF LinkStep

\* A job at the head of the channel has a message, no verdict and no paper.
LEMMA NextJob ==
  ASSUME PlaceTypes, Placed, VerdictTrue, step = "recv", queue # <<>>
  PROVE  Head(queue) \in Jobs /\ verdict[Head(queue)] = "none" /\ paper[Head(queue)] = "blank"
         /\ cur = NoJob /\ NoJob \notin Jobs
<1>1. Head(queue) = queue[1] /\ Head(queue) \in Jobs /\ 1 \in 1 .. Len(queue)
  BY TakeFirst DEF PlaceTypes
<1>2. cur = NoJob /\ NoJob \notin Jobs
  BY Bounds DEF PlaceTypes
<1>3. verdict[Head(queue)] = "none"
  BY <1>1 DEF Placed, JobsConserved, InQueue
<1> QED
  BY <1>1, <1>2, <1>3 DEF VerdictTrue

\* The job in handle has no verdict.
LEMMA JobInHandle ==
  ASSUME PlaceTypes, Placed, step # "recv"
  PROVE  cur \in Jobs /\ cur # NoJob /\ verdict[cur] = "none"
BY DEF PlaceTypes, Placed, JobsConserved

\* A verdict that agrees with the paper.
LEMMA TrueVerdict ==
  ASSUME PlaceTypes, VerdictTrue, NEW j \in Jobs, NEW v \in {"printed", "failed"},
         verdict[j] = "none", v = "printed" <=> paper[j] = "whole",
         verdict' = [verdict EXCEPT ![j] = v], heard' = heard \/ heard' = [heard EXCEPT ![j] = v],
         UNCHANGED paper, cur \in {NoJob, j}, NoJob \notin Jobs
  PROVE  VerdictTrue'
<1>1. /\ \A k \in Jobs : verdict'[k] = IF k = j THEN v ELSE verdict[k]
      /\ \A k \in Jobs : k # j => heard'[k] = heard[k]
      /\ heard'[j] \in {heard[j], v}
  BY DEF PlaceTypes
<1>2. heard[j] = "none"
  BY DEF VerdictTrue
<1> QED
  BY <1>1, <1>2 DEF VerdictTrue

LEMMA PaperInvKept ==
  ASSUME PlaceTypes, PlaceTypes', WriteTypes, Placed, PaperInv, JobMove
  PROVE  PaperInv'
<1>0. VerdictTrue /\ PaperInHandle /\ NoJob \notin Jobs
  BY Bounds DEF PaperInv
<1>1. ASSUME NEW j \in Jobs, NEW m \in Inputs, Arrives(j, m)
      PROVE  PaperInv'
  BY <1>1 DEF Arrives, PaperInv, VerdictTrue, PaperInHandle
<1>2. ASSUME NEW j \in Jobs, Enters(j)
      PROVE  PaperInv'
  BY <1>2 DEF Enters, PaperInv, VerdictTrue, PaperInHandle
<1>3. CASE Begins
  <2>1. Head(queue) \in Jobs /\ paper[Head(queue)] = "blank" /\ cur = NoJob
    BY <1>0, <1>3, NextJob DEF Begins
  <2> QED
    BY <1>0, <1>3, <2>1 DEF Begins, PaperInv, VerdictTrue, PaperInHandle
<1>4. CASE GoesOn
  BY <1>4 DEF GoesOn, PaperInv, VerdictTrue, PaperInHandle
<1>5. CASE Refused
  <2>1. /\ Head(queue) \in Jobs /\ paper[Head(queue)] = "blank" /\ cur = NoJob
        /\ verdict[Head(queue)] = "none"
    BY <1>0, <1>5, NextJob DEF Refused
  <2>2. VerdictTrue'
    BY <1>0, <1>5, <2>1, TrueVerdict DEF Refused, Concluded
  <2> QED
    BY <1>0, <1>5, <2>2 DEF Refused, Concluded, PaperInv, PaperInHandle
<1>6. ASSUME NEW v \in {"printed", "failed"}, Finished(v)
      PROVE  PaperInv'
  <2>1. cur \in Jobs /\ verdict[cur] = "none"
    BY <1>6, JobInHandle DEF Finished
  <2>2. v = "printed" <=> paper[cur] = "whole"
    BY <1>0, <1>6, <2>1 DEF Finished, PaperInHandle
  <2>3. /\ verdict' = [verdict EXCEPT ![cur] = v] /\ UNCHANGED paper /\ cur' = NoJob
        /\ heard' = heard \/ heard' = [heard EXCEPT ![cur] = v]
    BY <1>6 DEF Finished, Concluded
  <2>4. VerdictTrue'
    BY <1>0, <2>1, <2>2, <2>3, TrueVerdict
  <2> QED
    BY <1>0, <2>3, <2>4 DEF PaperInv, PaperInHandle
<1>7. CASE Sends
  <2>1. UNCHANGED <<verdict, heard, cur, step>> /\ LinkStep(Spooler) /\ Paper
    BY <1>7 DEF Sends
  <2>2. CASE step # "body"
    BY <1>0, <2>1, <2>2 DEF Paper, PaperInv, VerdictTrue, PaperInHandle
  <2>3. CASE step = "body"
    <3>1. cur \in Jobs /\ verdict[cur] = "none"
      BY <2>3, JobInHandle
    <3>2. \A k \in Jobs : k # cur => paper'[k] = paper[k]
      BY <2>1, <2>3, <3>1, PaperGrows DEF WriteTypes
    <3>3. PaperInHandle'
      BY <1>0, <2>1, <2>3, <3>1, PaperGrows DEF WriteTypes, PaperInHandle
    <3>4. VerdictTrue'
      BY <1>0, <2>1, <3>1, <3>2 DEF VerdictTrue
    <3> QED
      BY <3>3, <3>4 DEF PaperInv
  <2> QED
    BY <2>2, <2>3
<1>8. CASE Lost
  <2>1. \A j \in Jobs : verdict'[j] = (IF msg[j] # NoMsg /\ verdict[j] = "none" THEN "lost" ELSE verdict[j])
    BY <1>8 DEF Lost
  <2>2. \A j \in Jobs : verdict'[j] = "none" => verdict[j] = "none" /\ j # cur
    <3> SUFFICES ASSUME NEW j \in Jobs, verdict'[j] = "none"
                 PROVE  verdict[j] = "none" /\ j # cur
      OBVIOUS
    <3>1. msg[j] = NoMsg /\ verdict[j] = "none"
      BY <2>1
    <3> QED
      BY <3>1 DEF Placed, JobsConserved
  <2>3. VerdictTrue'
    BY <1>0, <1>8, <2>1, <2>2 DEF Lost, VerdictTrue
  <2> QED
    BY <1>0, <1>8, <2>3 DEF Lost, PaperInv, PaperInHandle
<1>9. CASE Still
  BY <1>9 DEF Still, jobState, PaperInv, VerdictTrue, PaperInHandle
<1>d. ASSUME NEW j \in Jobs, Discards(j)
      PROVE  PaperInv'
  <2>1. \A k \in Jobs : verdict'[k] = IF k = j THEN "discarded" ELSE verdict[k]
    BY <1>d, VerdictGiven DEF Discards, Verdicts
  <2>2. VerdictTrue'
    BY <1>0, <1>d, <2>1 DEF Discards, VerdictTrue
  <2>3. PaperInHandle'
    BY <1>0, <1>d DEF Discards, PaperInHandle
  <2> QED
    BY <2>2, <2>3 DEF PaperInv
<1> QED
  BY <1>1, <1>2, <1>3, <1>4, <1>5, <1>6, <1>7, <1>8, <1>9, <1>d DEF JobMove

\* The two together, for the theorems that need both.
JobsInv == Placed /\ PaperInv

LEMMA JobsInvHolds == Safety => []JobsInv
<1>1. Init => JobsInv
  BY Bounds, PlacedAtStart DEF Init, JobsInv, PaperInv, VerdictTrue, PaperInHandle
<1>2. TypeOK /\ HandedIn /\ (TypeOK /\ HandedIn)' /\ JobsInv /\ [Next]_vars => JobsInv'
  BY StepMovesJobs, PlaceTypesHold, WriteTypesHold, PlacedKept, PaperInvKept DEF JobsInv
<1> QED
  BY <1>1, <1>2, SpoolTypeCorrect, PTL DEF Safety

\* No job is lost or doubled: from Enqueue to its verdict it is in one place,
\* a blocked call, the channel or handle, whatever sessions and restarts do.
THEOREM JobsNeverLost == Safety => []JobsConserved
<1>1. JobsInv => JobsConserved
  BY DEF JobsInv, Placed
<1> QED
  BY <1>1, JobsInvHolds, PTL

\* A print_ack the cloud receives carries the verdict, and says "printed" if
\* and only if the whole body went out, for every length of document.
THEOREM AcksTruthful == Safety => []AckTruthful
<1>1. TypeOK /\ JobsInv => AckTruthful
  BY DEF JobsInv, PaperInv, VerdictTrue, AckTruthful, TypeOK
<1> QED
  BY <1>1, JobsInvHolds, SpoolTypeCorrect, PTL

-----------------------------------------------------------------------------
(* The refinement of SpoolPromise: the pending jobs of the promise are the *)
(* job in handle, if there is one, followed by the channel.                *)

Pending == IF cur = NoJob THEN queue ELSE <<cur>> \o queue

LEMMA PromiseSteps ==
  /\ \A j : Promise!Accept(j) <=>
       /\ verdict[j] = "none" /\ ~ \E i \in 1 .. Len(Pending) : Pending[i] = j
       /\ Len(Pending) < QueueCap + 1 /\ Pending' = Append(Pending, j)
       /\ UNCHANGED <<verdict, paper>>
  /\ \A j : Promise!Discard(j) <=>
       /\ verdict[j] = "none" /\ ~ \E i \in 1 .. Len(Pending) : Pending[i] = j
       /\ verdict' = [verdict EXCEPT ![j] = "discarded"] /\ UNCHANGED <<Pending, paper>>
  /\ \A progress : Promise!Serve(progress) <=>
       /\ Pending # <<>> /\ paper[Head(Pending)] # "whole"
       /\ paper' = [paper EXCEPT ![Head(Pending)] = progress]
       /\ UNCHANGED <<Pending, verdict>>
  /\ Promise!Conclude <=>
       /\ Pending # <<>> /\ Pending' = Tail(Pending) /\ UNCHANGED paper
       /\ verdict' = [verdict EXCEPT ![Head(Pending)] =
                        IF paper[Head(Pending)] = "whole" THEN "printed" ELSE "failed"]
  /\ Promise!LosePending <=>
       /\ Pending' = <<>> /\ UNCHANGED paper
       /\ \E waiting \in SUBSET {j \in Jobs : verdict[j] = "none"} :
            /\ \A i \in 1 .. Len(Pending) : Pending[i] \in waiting
            /\ verdict' = [j \in Jobs |-> IF j \in waiting THEN "lost" ELSE verdict[j]]
  /\ UNCHANGED Promise!promiseVars <=> UNCHANGED <<Pending, verdict, paper>>
BY Zenon DEF Promise!Accept, Promise!Discard, Promise!IsPending, Promise!Serve, Promise!Conclude,
             Promise!LosePending, Promise!promiseVars, Pending

PromiseStep ==
  \/ \E j \in Jobs : Promise!Accept(j) \/ Promise!Discard(j)
  \/ \E progress \in {"partial", "whole"} : Promise!Serve(progress)
  \/ Promise!Conclude \/ Promise!LosePending
  \/ UNCHANGED Promise!promiseVars

\* The job in handle, put before the channel.
LEMMA InFront ==
  ASSUME NEW S, NEW q \in Seq(S), NEW x \in S
  PROVE  /\ <<x>> \o q \in Seq(S) /\ <<x>> \o q # <<>> /\ Len(<<x>> \o q) = Len(q) + 1
         /\ Head(<<x>> \o q) = x /\ Tail(<<x>> \o q) = q
         /\ \A y \in S : Append(<<x>> \o q, y) = <<x>> \o Append(q, y)
         /\ \A i \in 1 .. Len(<<x>> \o q) :
              (<<x>> \o q)[i] = x \/ \E k \in 1 .. Len(q) : (<<x>> \o q)[i] = q[k]
OBVIOUS

LEMMA HeadInFront ==
  ASSUME NEW S, NEW q \in Seq(S), q # <<>>
  PROVE  <<Head(q)>> \o Tail(q) = q
OBVIOUS

\* Only jobs that wait in the channel or are in handle are pending.
LEMMA PendingJobs ==
  ASSUME PlaceTypes
  PROVE  /\ Pending \in Seq(Jobs)
         /\ \A i \in 1 .. Len(Pending) : InQueue(Pending[i]) \/ (Pending[i] = cur /\ cur \in Jobs)
<1>1. queue \in Seq(Jobs) /\ cur \in Jobs \cup {NoJob}
  BY DEF PlaceTypes
<1>2. CASE cur = NoJob
  BY <1>1, <1>2 DEF Pending, InQueue
<1>3. CASE cur # NoJob
  <2>1. cur \in Jobs
    BY <1>1, <1>3
  <2>2. /\ <<cur>> \o queue \in Seq(Jobs)
        /\ \A i \in 1 .. Len(<<cur>> \o queue) :
             (<<cur>> \o queue)[i] = cur \/ \E k \in 1 .. Len(queue) : (<<cur>> \o queue)[i] = queue[k]
    BY <1>1, <2>1, InFront
  <2>3. Pending = <<cur>> \o queue
    BY <1>3 DEF Pending
  <2> QED
    BY <2>1, <2>2, <2>3 DEF InQueue
<1> QED
  BY <1>2, <1>3

LEMMA MoveKeepsPromise ==
  ASSUME PlaceTypes, PlaceTypes', WriteTypes, JobsInv, JobMove
  PROVE  PromiseStep
<1>0. /\ queue \in Seq(Jobs) /\ NoJob \notin Jobs /\ cur \in Jobs \cup {NoJob}
      /\ QueueCap \in Nat /\ Len(queue) \in Nat
      /\ Placed /\ VerdictTrue /\ PaperInHandle
  BY Bounds DEF PlaceTypes, JobsInv, PaperInv
<1>1. ASSUME NEW j \in Jobs, NEW m \in Inputs, Arrives(j, m)
      PROVE  PromiseStep
  BY <1>1, PromiseSteps DEF Arrives, Pending, PromiseStep
<1>2. ASSUME NEW j \in Jobs, Enters(j)
      PROVE  Promise!Accept(j)
  <2>1. verdict[j] = "none" /\ ~InQueue(j) /\ j # cur
    BY <1>0, <1>2 DEF Enters, Placed, JobsConserved
  <2>2. ~ \E i \in 1 .. Len(Pending) : Pending[i] = j
    BY <2>1, PendingJobs
  <2>3. Len(Pending) < QueueCap + 1 /\ Pending' = Append(Pending, j)
    <3>1. CASE cur = NoJob
      BY <1>0, <1>2, <3>1 DEF Enters, Pending
    <3>2. CASE cur # NoJob
      <4>1. Pending = <<cur>> \o queue /\ Pending' = <<cur>> \o Append(queue, j) /\ cur \in Jobs
        BY <1>0, <1>2, <3>2 DEF Enters, Pending
      <4>2. /\ Len(<<cur>> \o queue) = Len(queue) + 1
            /\ Append(<<cur>> \o queue, j) = <<cur>> \o Append(queue, j)
        <5>1. queue \in Seq(Jobs) /\ cur \in Jobs /\ j \in Jobs
          BY <1>0, <4>1
        <5> QED
          BY <5>1, InFront
      <4>3. Len(queue) < QueueCap
        BY <1>2 DEF Enters
      <4> QED
        BY <1>0, <4>1, <4>2, <4>3
    <3> QED
      BY <3>1, <3>2
  <2> QED
    BY <1>2, <2>1, <2>2, <2>3, PromiseSteps DEF Enters
<1>3. CASE Begins
  <2>1. cur = NoJob /\ cur' = Head(queue) /\ Head(queue) \in Jobs
    BY <1>0, <1>3, NextJob DEF Begins
  <2>2. Pending = queue /\ Pending' = <<Head(queue)>> \o Tail(queue)
    BY <1>0, <1>3, <2>1 DEF Begins, Pending
  <2>3. UNCHANGED <<Pending, verdict, paper>>
    BY <1>0, <1>3, <2>2, HeadInFront DEF Begins
  <2> QED
    BY <2>3, PromiseSteps DEF PromiseStep
<1>4. CASE GoesOn \/ Still
  BY <1>4, PromiseSteps DEF GoesOn, Still, jobState, Pending, PromiseStep
<1>5. CASE Refused
  <2>1. /\ Head(queue) \in Jobs /\ paper[Head(queue)] = "blank" /\ cur = NoJob /\ cur' = NoJob
        /\ queue # <<>> /\ queue' = Tail(queue)
        /\ verdict' = [verdict EXCEPT ![Head(queue)] = "failed"] /\ UNCHANGED paper
    BY <1>0, <1>5, NextJob DEF Refused, Concluded
  <2>2. Pending = queue /\ Pending' = Tail(queue)
    BY <2>1 DEF Pending
  <2>3. Promise!Conclude
    BY <2>1, <2>2, PromiseSteps
  <2> QED
    BY <2>3 DEF PromiseStep
<1>6. ASSUME NEW v \in {"printed", "failed"}, Finished(v)
      PROVE  Promise!Conclude
  <2>1. cur \in Jobs /\ cur # NoJob
    BY <1>0, <1>6, JobInHandle DEF Finished
  <2>2. v = IF paper[cur] = "whole" THEN "printed" ELSE "failed"
    BY <1>0, <1>6, <2>1 DEF Finished, PaperInHandle
  <2>3. /\ verdict' = [verdict EXCEPT ![cur] = v] /\ UNCHANGED <<paper, queue>> /\ cur' = NoJob
    BY <1>6 DEF Finished, Concluded
  <2>4. Pending = <<cur>> \o queue /\ Pending' = queue
    BY <2>1, <2>3 DEF Pending
  <2>5. Pending # <<>> /\ Head(Pending) = cur /\ Tail(Pending) = queue
    BY <1>0, <2>1, <2>4, InFront
  <2> QED
    BY <2>2, <2>3, <2>4, <2>5, PromiseSteps
<1>7. CASE Sends
  <2>1. UNCHANGED <<Pending, verdict>>
    BY <1>7 DEF Sends, Pending
  <2>2. CASE UNCHANGED paper
    BY <2>1, <2>2, PromiseSteps DEF PromiseStep
  <2>3. CASE paper' # paper
    <3>1. step = "body" /\ LinkStep(Spooler) /\ Paper
      BY <1>7, <2>3 DEF Sends, Paper
    <3>2. cur \in Jobs /\ cur # NoJob
      BY <1>0, <3>1, JobInHandle
    <3>3. PICK progress \in {"partial", "whole"} : paper' = [paper EXCEPT ![cur] = progress]
      BY <2>3, <3>1, PaperGrows
    <3>4. paper[cur] # "whole"
      BY <1>0, <2>3, <3>1, <3>2, PaperGrows DEF PaperInHandle
    <3>5. Pending # <<>> /\ Head(Pending) = cur
      BY <1>0, <3>2, InFront DEF Pending
    <3>6. Promise!Serve(progress)
      BY <2>1, <3>3, <3>4, <3>5, PromiseSteps
    <3> QED
      BY <3>6 DEF PromiseStep
  <2> QED
    BY <2>2, <2>3
<1>8. CASE Lost
  <2> DEFINE waiting == {j \in Jobs : msg[j] # NoMsg /\ verdict[j] = "none"}
  <2>1. \A i \in 1 .. Len(Pending) : Pending[i] \in waiting
    <3> SUFFICES ASSUME NEW i \in 1 .. Len(Pending) PROVE Pending[i] \in waiting
      OBVIOUS
    <3>1. Pending[i] \in Jobs /\ (InQueue(Pending[i]) \/ Pending[i] = cur)
      BY PendingJobs
    <3> QED
      BY <1>0, <3>1 DEF Placed, JobsConserved
  <2>2. verdict' = [j \in Jobs |-> IF j \in waiting THEN "lost" ELSE verdict[j]]
    BY <1>8 DEF Lost
  <2>3. Pending' = <<>> /\ UNCHANGED paper
    BY <1>8 DEF Lost, Pending
  <2>4. waiting \in SUBSET {j \in Jobs : verdict[j] = "none"}
    OBVIOUS
  <2>5. Promise!LosePending
    BY <2>1, <2>2, <2>3, <2>4, PromiseSteps
  <2> QED
    BY <2>5 DEF PromiseStep
<1>9. ASSUME NEW j \in Jobs, Discards(j)
      PROVE  Promise!Discard(j)
  <2>1. verdict[j] = "none" /\ ~InQueue(j) /\ j # cur
    BY <1>0, <1>9 DEF Discards, Placed, JobsConserved
  <2>2. ~ \E i \in 1 .. Len(Pending) : Pending[i] = j
    BY <2>1, PendingJobs
  <2>3. UNCHANGED <<Pending, paper>>
    BY <1>9 DEF Discards, Pending
  <2> QED
    BY <1>9, <2>1, <2>2, <2>3, PromiseSteps DEF Discards
<1> QED
  BY <1>1, <1>2, <1>3, <1>4, <1>5, <1>6, <1>7, <1>8, <1>9 DEF JobMove, PromiseStep

\* The print path, with its mutexes, uploads, waits, sessions and restarts,
\* keeps the promise of SpoolPromise: a FIFO server with one true verdict for
\* every job, that loses in a restart what is pending and nothing else.
THEOREM PromiseKept == Safety => ImplementsPromise
<1>1. Init => Promise!Init
  BY DEF Init, Promise!Init
<1>2. TypeOK /\ HandedIn /\ (TypeOK /\ HandedIn)' /\ JobsInv /\ [Next]_vars
        => [Promise!Next]_(Promise!promiseVars)
  BY StepMovesJobs, PlaceTypesHold, WriteTypesHold, MoveKeepsPromise DEF PromiseStep, Promise!Next
<1> QED
  BY <1>1, <1>2, SpoolTypeCorrect, JobsInvHolds, PTL DEF Safety, ImplementsPromise, Promise!Safety

-----------------------------------------------------------------------------
(* What the logo cache is worth.  LogoOnReceipt looks at one moment of one *)
(* job, StaleEntryExplained at the moments between jobs; inductive is what *)
(* the slot of the job in handle holds at every moment.                    *)

\* The call of the spooler is about the job in handle.
CallOfJob ==
  /\ doc[Session] = Plain
  /\ pc[Spooler] # "idle" =>
       /\ step \in {"prelude", "body"}
       /\ dest[Spooler] = msg[cur].to
       /\ doc[Spooler] = IF step = "prelude" THEN Prelude(cur) ELSE Body(cur)
       /\ pc[Spooler] # "err" => msg[cur].to \in Printers

UploadingJob == step \in {"prelude", "settle"} \/ (step = "body" /\ uploaded)

UploadDue ==
  UploadingJob =>
    /\ uploaded
    /\ msg[cur].logo \in Hashes /\ msg[cur].image
    /\ msg[cur].to \in Printers => cache[KeyOf(cur)] # msg[cur].logo

\* From the last byte of the upload to the end of a body that is not itself
\* an upload.
Provided ==
  \/ step = "prelude" /\ pc[Spooler] \in {"pause", "ok"}
  \/ step = "settle"
  \/ step = "body" /\ uploaded /\ msg[cur].brings \notin Hashes

LogoThere == Provided => msg[cur].to \in Printers /\ nv[msg[cur].to][msg[cur].slot] = msg[cur].logo

Explained(k, j) ==
  /\ msg[j] # NoMsg /\ KeyOf(j) = k
  /\ \/ verdict[j] = "failed" /\ msg[j].image /\ msg[j].logo \notin {NoHash, cache[k]}
     \/ verdict[j] # "none" /\ msg[j].brings \in Hashes

BeingChanged(k) == cur \in Jobs /\ KeyOf(cur) = k /\ (UploadingJob \/ msg[cur].brings \in Hashes)

Stale(k) == cache[k] # NoHash /\ nv[k[1]][k[2]] # cache[k]

StaleInv == \A k \in Keys : Stale(k) => BeingChanged(k) \/ \E j \in Jobs : Explained(k, j)

CacheInv == CallOfJob /\ UploadDue /\ LogoThere /\ StaleInv

\* The types these steps need.
CacheTypes ==
  /\ pc    \in [Senders -> LinkPCs]
  /\ dest  \in [Senders -> Addrs]
  /\ doc   \in [Senders -> Docs]
  /\ nv    \in [Printers -> [Slots -> Logos]]
  /\ cache \in [Keys -> Hashes \cup {NoHash}]
  /\ step  \in {"recv", "prelude", "settle", "body"}
  /\ cur   \in Jobs \cup {NoJob} /\ (cur = NoJob <=> step = "recv")
  /\ cur \in Jobs => msg[cur] \in Inputs
  /\ queue \in Seq(Jobs) /\ (queue # <<>> => msg[Head(queue)] \in Inputs)
  /\ NoHash \notin Hashes /\ NoMsg \notin Inputs /\ NoJob \notin Jobs
  /\ Spooler \in Senders /\ Session \in Senders /\ Spooler # Session

LEMMA CacheTypesHold == TypeOK /\ HandedIn => CacheTypes
<1> SUFFICES ASSUME TypeOK, HandedIn PROVE CacheTypes
  OBVIOUS
<1>1. queue \in Seq(Jobs) /\ (queue # <<>> => msg[Head(queue)] \in Inputs)
  BY HeadOfQueue DEF TypeOK
<1>2. NoHash \notin Hashes
  BY LinkAssumption
<1> QED
  BY <1>1, <1>2, Callers, Bounds DEF TypeOK, LinkTypeOK, HandedIn, CacheTypes

\* A message in handle is one of Messages.
LEMMA MessageInHandle ==
  ASSUME NEW j, msg[j] \in Inputs
  PROVE  /\ msg[j] \in Messages /\ msg[j] # NoMsg /\ msg[j].slot \in Slots
         /\ msg[j].logo \in Hashes \cup {NoHash}
BY Bounds DEF Messages

LEMMA DocumentKinds ==
  /\ Plain \notin Upload
  /\ \A j : Body(j) \in Upload => msg[j].brings \in Hashes
  /\ \A j : msg[j].brings \notin Hashes => Body(j) = Plain
  /\ \A j : Prelude(j).slot = msg[j].slot /\ Prelude(j).hash = msg[j].logo
  /\ \A j : msg[j].brings \in Hashes => Body(j).slot = msg[j].slot
<1>1. Plain \notin Upload
  BY DEF Plain, Upload
<1> QED
  BY <1>1 DEF Body, Prelude

\* An entry that was explained stays explained.
LEMMA StillExplained ==
  ASSUME NEW k \in Keys, NEW j \in Jobs, Explained(k, j), msg'[j] = msg[j],
         verdict'[j] = verdict[j], cache'[k] = cache[k]
  PROVE  Explained(k, j)'
BY DEF Explained, KeyOf

\* Steps that leave the job in handle, its call, the slots and the cache alone.
LEMMA CacheUntouched ==
  ASSUME CacheTypes, CacheInv, UNCHANGED <<cur, step, uploaded, cache, nv>>,
         pc'[Spooler] = pc[Spooler], dest'[Spooler] = dest[Spooler], doc'[Spooler] = doc[Spooler],
         doc'[Session] = Plain,
         \A j \in Jobs : msg[j] # NoMsg => msg'[j] = msg[j] /\ verdict'[j] = verdict[j]
  PROVE  CacheInv'
<1>1. cur \in Jobs => msg'[cur] = msg[cur]
  BY DEF CacheTypes
<1>2. step # "recv" => cur \in Jobs
  BY DEF CacheTypes
<1>3. CallOfJob'
  BY <1>1, <1>2 DEF CacheInv, CallOfJob, Prelude, Body
<1>4. UploadDue'
  BY <1>1, <1>2 DEF CacheInv, UploadDue, UploadingJob, KeyOf
<1>5. LogoThere'
  BY <1>1, <1>2 DEF CacheInv, LogoThere, Provided
<1>6. StaleInv'
  <2> SUFFICES ASSUME NEW k \in Keys, Stale(k)'
               PROVE  BeingChanged(k)' \/ \E j \in Jobs : Explained(k, j)'
    BY DEF StaleInv
  <2>1. Stale(k)
    BY DEF Stale
  <2>2. CASE BeingChanged(k)
    BY <1>1, <2>2 DEF BeingChanged, KeyOf, UploadingJob
  <2>3. ASSUME NEW j \in Jobs, Explained(k, j) PROVE Explained(k, j)'
    BY <2>3, StillExplained DEF Explained
  <2> QED
    BY <2>1, <2>2, <2>3 DEF CacheInv, StaleInv
<1> QED
  BY <1>3, <1>4, <1>5, <1>6 DEF CacheInv

\* The session goroutine writes plain documents, which change no slot.
LEMMA SessionLeavesCache ==
  ASSUME CacheTypes, CacheInv, SessionNext
  PROVE  CacheInv'
<1>0. doc[Session] = Plain /\ Plain \notin Upload
  BY DocumentKinds DEF CacheInv, CallOfJob
<1>1. CASE Connect \/ Break \/ SessionEnds
  BY <1>0, <1>1, CacheUntouched DEF Connect, Break, SessionEnds, linkVars, jobVars, spoolerVars
<1>2. ASSUME NEW j \in Jobs, NEW m \in Inputs, ReceivePrintJob(j, m)
      PROVE  CacheInv'
  BY <1>0, <1>2, CacheUntouched DEF ReceivePrintJob, linkVars
<1>d. ASSUME NEW j \in Jobs, DiscardPrintJob(j)
      PROVE  CacheInv'
  BY <1>0, <1>d, CacheUntouched DEF DiscardPrintJob, linkVars, spoolerVars
<1>3. ASSUME NEW ts \in TargetLists, ReceiveDirect(ts)
      PROVE  CacheInv'
  BY <1>0, <1>3, CacheUntouched DEF ReceiveDirect, linkVars, jobVars, spoolerVars
<1>4. CASE DirectSend
  <2>1. /\ pc'[Spooler] = pc[Spooler] /\ dest'[Spooler] = dest[Spooler]
        /\ doc'[Spooler] = doc[Spooler] /\ doc'[Session] = Plain /\ UNCHANGED nv
    BY <1>0, <1>4 DEF DirectSend, SendBytes, CacheTypes
  <2> QED
    BY <1>4, <2>1, CacheUntouched DEF DirectSend, jobVars, spoolerVars
<1>5. ASSUME NEW result \in {"ok", "err"}, DirectReturn(result)
      PROVE  CacheInv'
  <2>1. /\ pc'[Spooler] = pc[Spooler] /\ dest'[Spooler] = dest[Spooler]
        /\ doc'[Spooler] = doc[Spooler] /\ doc'[Session] = Plain /\ UNCHANGED nv
    BY <1>0, <1>5 DEF DirectReturn, Return, CacheTypes
  <2> QED
    BY <1>5, <2>1, CacheUntouched DEF DirectReturn, jobVars, spoolerVars
<1>6. CASE SessionSends
  <2>1. LinkStep(Session) /\ UNCHANGED <<jobVars, spoolerVars>>
    BY <1>6 DEF SessionSends
  <2>2. pc'[Spooler] = pc[Spooler] /\ UNCHANGED <<dest, doc>>
    BY <2>1 DEF LinkStep, TakeLock, DialOk, DialFail, WriteChunk, WriteLast, WriteFail, EndPause,
                CacheTypes
  <2>3. UNCHANGED nv
    BY <1>0, <2>1 DEF LinkStep, TakeLock, DialOk, DialFail, WriteChunk, WriteLast, WriteFail,
                      EndPause, Receive, CutOff
  <2> QED
    BY <1>0, <2>1, <2>2, <2>3, CacheUntouched DEF jobVars, spoolerVars
<1> QED
  BY <1>1, <1>2, <1>3, <1>4, <1>5, <1>6, <1>d DEF SessionNext

\* What a step inside the spooler's call does to the slots.
LEMMA SlotWritten ==
  ASSUME CacheTypes, LinkStep(Spooler)
  PROVE  /\ UNCHANGED <<dest, doc>> /\ pc[Spooler] \notin {"idle", "err", "ok"}
         /\ pc'[Spooler] \in {"dial", "write", "pause", "ok", "err"}
         /\ pc'[Spooler] = "ok" <=> pc[Spooler] = "pause"
         /\ \/ nv' = nv /\ (pc'[Spooler] = "pause" => doc[Spooler] \notin Upload)
            \/ /\ pc[Spooler] = "write" /\ pc'[Spooler] \in {"pause", "err"}
               /\ doc[Spooler] \in Upload
               /\ \E h \in Logos :
                    /\ nv' = [nv EXCEPT ![dest[Spooler]][doc[Spooler].slot] = h]
                    /\ pc'[Spooler] = "pause" => h = doc[Spooler].hash
<1>0. Spooler \in Senders /\ pc \in [Senders -> LinkPCs] /\ doc[Spooler] \in Docs
  BY DEF CacheTypes
<1>1. CASE TakeLock(Spooler) \/ DialOk(Spooler) \/ DialFail(Spooler) \/ EndPause(Spooler)
  BY <1>0, <1>1 DEF TakeLock, DialOk, DialFail, EndPause
<1>2. CASE WriteChunk(Spooler)
  BY <1>0, <1>2 DEF WriteChunk
<1>3. CASE WriteLast(Spooler)
  <2>1. /\ pc[Spooler] = "write" /\ pc'[Spooler] = "pause" /\ UNCHANGED <<dest, doc>>
        /\ Receive(dest[Spooler], doc[Spooler])
    BY <1>0, <1>3 DEF WriteLast
  <2>2. CASE doc[Spooler] \in Upload
    <3>1. nv' = [nv EXCEPT ![dest[Spooler]][doc[Spooler].slot] = doc[Spooler].hash]
      BY <2>1, <2>2 DEF Receive
    <3>2. doc[Spooler].hash \in Logos
      BY <2>2 DEF Upload, Logos
    <3> QED
      BY <2>1, <2>2, <3>1, <3>2
  <2>3. CASE doc[Spooler] \notin Upload
    BY <2>1, <2>3 DEF Receive
  <2> QED
    BY <2>2, <2>3
<1>4. CASE WriteFail(Spooler)
  <2>1. /\ pc[Spooler] = "write" /\ pc'[Spooler] = "err" /\ UNCHANGED <<dest, doc>>
        /\ CutOff(dest[Spooler], doc[Spooler])
    BY <1>0, <1>4 DEF WriteFail
  <2>2. Garbled \in Logos
    BY DEF Logos
  <2> QED
    BY <2>1, <2>2 DEF CutOff
<1> QED
  BY <1>1, <1>2, <1>3, <1>4 DEF LinkStep

\* While a job uploads, the entry of its slot may be stale: BeingChanged.
LEMMA SendsKeepCache ==
  ASSUME CacheTypes, CacheInv, SpoolerSends
  PROVE  CacheInv'
<1>0. /\ LinkStep(Spooler) /\ UNCHANGED <<msg, verdict, cur, step, uploaded, cache>>
      /\ doc[Session] = Plain /\ Plain \notin Upload
  BY DocumentKinds DEF SpoolerSends, spoolerVars, CacheInv, CallOfJob
<1>1. /\ UNCHANGED <<dest, doc>> /\ pc[Spooler] \notin {"idle", "err", "ok"}
      /\ pc'[Spooler] \in {"dial", "write", "pause", "ok", "err"}
      /\ pc'[Spooler] = "ok" <=> pc[Spooler] = "pause"
  BY <1>0, SlotWritten
<1>2. /\ step \in {"prelude", "body"} /\ dest[Spooler] = msg[cur].to /\ msg[cur].to \in Printers
      /\ doc[Spooler] = IF step = "prelude" THEN Prelude(cur) ELSE Body(cur)
      /\ cur \in Jobs /\ msg[cur] \in Inputs
  BY <1>1 DEF CacheInv, CallOfJob, CacheTypes
<1>3. msg[cur].slot \in Slots
  BY <1>2, MessageInHandle
<1>4. CallOfJob'
  BY <1>0, <1>1, <1>2 DEF CallOfJob, Prelude, Body
<1>5. UploadDue'
  BY <1>0 DEF CacheInv, UploadDue, UploadingJob, KeyOf
<1>6. CASE nv' = nv /\ (pc'[Spooler] = "pause" => doc[Spooler] \notin Upload)
  <2>1. step = "prelude" => doc[Spooler] \in Upload
    <3>1. step = "prelude" => msg[cur].logo \in Hashes
      BY DEF CacheInv, UploadDue, UploadingJob
    <3> QED
      BY <1>2, <1>3, <3>1 DEF Prelude, Upload
  <2>2. LogoThere'
    BY <1>0, <1>1, <1>2, <1>6, <2>1 DEF CacheInv, LogoThere, Provided
  <2>3. StaleInv'
    BY <1>0, <1>6 DEF CacheInv, StaleInv, Stale, BeingChanged, UploadingJob, Explained, KeyOf
  <2> QED
    BY <1>4, <1>5, <2>2, <2>3 DEF CacheInv
<1>7. CASE /\ pc'[Spooler] \in {"pause", "err"} /\ doc[Spooler] \in Upload
           /\ \E h \in Logos :
                /\ nv' = [nv EXCEPT ![dest[Spooler]][doc[Spooler].slot] = h]
                /\ pc'[Spooler] = "pause" => h = doc[Spooler].hash
  <2>1. step = "prelude" \/ (step = "body" /\ msg[cur].brings \in Hashes)
    BY <1>0, <1>2, <1>7, DocumentKinds
  <2>2. doc[Spooler].slot = msg[cur].slot /\ (step = "prelude" => doc[Spooler].hash = msg[cur].logo)
    BY <1>2, <2>1, DocumentKinds
  <2>3. PICK h \in Logos : /\ nv' = [nv EXCEPT ![msg[cur].to][msg[cur].slot] = h]
                           /\ pc'[Spooler] = "pause" => h = doc[Spooler].hash
    BY <1>2, <1>7, <2>2
  <2>4. nv'[msg[cur].to][msg[cur].slot] = h
    BY <1>2, <1>3, <2>3 DEF CacheTypes
  <2>5. \A k \in Keys : k # KeyOf(cur) => nv'[k[1]][k[2]] = nv[k[1]][k[2]]
    <3>1. ASSUME NEW p \in Printers, NEW x \in Slots, p # msg[cur].to \/ x # msg[cur].slot
          PROVE  nv'[p][x] = nv[p][x]
      BY <1>2, <1>3, <2>3, <3>1 DEF CacheTypes
    <3> QED
      BY <3>1 DEF Keys, KeyOf
  <2>6. LogoThere'
    <3>1. CASE step = "prelude"
      <4>1. pc'[Spooler] = "pause" => nv'[msg[cur].to][msg[cur].slot] = msg[cur].logo
        BY <2>2, <2>3, <2>4, <3>1
      <4> QED
        BY <1>0, <1>2, <1>7, <3>1, <4>1 DEF LogoThere, Provided
    <3>2. CASE step = "body" /\ msg[cur].brings \in Hashes
      BY <1>0, <3>2 DEF LogoThere, Provided
    <3> QED
      BY <2>1, <3>1, <3>2
  <2>7. StaleInv'
    <3> SUFFICES ASSUME NEW k \in Keys, Stale(k)'
                 PROVE  BeingChanged(k)' \/ \E j \in Jobs : Explained(k, j)'
      BY DEF StaleInv
    <3>1. CASE k = KeyOf(cur)
      BY <1>0, <1>2, <2>1, <3>1 DEF BeingChanged, UploadingJob, KeyOf
    <3>2. CASE k # KeyOf(cur)
      <4>1. Stale(k)
        BY <1>0, <2>5, <3>2 DEF Stale
      <4>2. PICK j \in Jobs : Explained(k, j)
        BY <3>2, <4>1 DEF CacheInv, StaleInv, BeingChanged
      <4> QED
        BY <1>0, <4>2, StillExplained
    <3> QED
      BY <3>1, <3>2
  <2> QED
    BY <1>4, <1>5, <2>6, <2>7 DEF CacheInv
<1> QED
  BY <1>0, <1>6, <1>7, SlotWritten

\* A first verdict takes no explanation away.
LEMMA ExplainedAfterVerdict ==
  ASSUME PlaceTypes, NEW j \in Jobs, NEW v, verdict[j] = "none",
         verdict' = [verdict EXCEPT ![j] = v], UNCHANGED msg,
         NEW k \in Keys, cache'[k] = cache[k], NEW i \in Jobs, Explained(k, i)
  PROVE  Explained(k, i)'
<1>1. i # j /\ verdict'[i] = verdict[i]
  BY DEF Explained, PlaceTypes
<1> QED
  BY <1>1, StillExplained

\* The spooler takes a job from the channel, or refuses it.
LEMMA TakingKeepsCache ==
  ASSUME CacheTypes, CacheInv, PlaceTypes, JobsInv,
         TakeUnrenderable \/ TakeAndUpload \/ TakeAndPrint
  PROVE  CacheInv'
<1> DEFINE j == Head(queue)
<1>0. /\ step = "recv" /\ queue # <<>> /\ j \in Jobs /\ verdict[j] = "none" /\ msg[j] \in Inputs
      /\ cur = NoJob /\ NoJob \notin Jobs /\ pc[Spooler] = "idle" /\ doc[Session] = Plain
      /\ Spooler \in Senders /\ Session # Spooler
  <2>1. step = "recv" /\ queue # <<>>
    BY DEF TakeUnrenderable, TakeAndUpload, TakeAndPrint
  <2> QED
    BY <2>1, NextJob DEF JobsInv, PaperInv, CacheTypes, CacheInv, CallOfJob
<1>1. \A k \in Keys : Stale(k) => \E i \in Jobs : Explained(k, i)
  BY <1>0 DEF CacheInv, StaleInv, BeingChanged
<1>2. CASE TakeUnrenderable
  <2>1. /\ UNCHANGED linkVars /\ UNCHANGED <<msg, cache>> /\ cur' = NoJob /\ step' = "recv"
        /\ verdict' = [verdict EXCEPT ![j] = "failed"]
    BY <1>2 DEF TakeUnrenderable, Finish
  <2>2. CallOfJob'
    BY <1>0, <2>1 DEF CallOfJob, linkVars
  <2>3. UploadDue' /\ LogoThere'
    BY <2>1 DEF UploadDue, UploadingJob, LogoThere, Provided
  <2>4. StaleInv'
    <3> SUFFICES ASSUME NEW k \in Keys, Stale(k)' PROVE \E i \in Jobs : Explained(k, i)'
      BY DEF StaleInv
    <3>1. PICK i \in Jobs : Explained(k, i)
      BY <1>1, <2>1 DEF Stale, linkVars
    <3> QED
      BY <1>0, <2>1, <3>1, ExplainedAfterVerdict
  <2> QED
    BY <2>2, <2>3, <2>4 DEF CacheInv
<1>3. CASE TakeAndUpload \/ TakeAndPrint
  <2>1. /\ UNCHANGED <<msg, verdict, cache, nv>> /\ cur' = j
        /\ step' = (IF TakeAndUpload THEN "prelude" ELSE "body")
        /\ uploaded' = (IF TakeAndUpload THEN TRUE ELSE FALSE)
        /\ SendBytes(Spooler, msg[j].to, IF TakeAndUpload THEN Prelude(j) ELSE Body(j))
    BY <1>3 DEF TakeAndUpload, TakeAndPrint, SendBytes, jobVars
  <2>2. /\ pc'[Spooler] = (IF msg[j].to \in Printers THEN "lock" ELSE "err")
        /\ dest'[Spooler] = msg[j].to /\ doc'[Session] = Plain
        /\ doc'[Spooler] = (IF TakeAndUpload THEN Prelude(j) ELSE Body(j))
    BY <1>0, <2>1 DEF SendBytes, CacheTypes
  <2>3. CallOfJob'
    BY <2>1, <2>2 DEF CallOfJob, Prelude, Body
  <2>4. UploadDue'
    BY <1>3, <2>1 DEF UploadDue, UploadingJob, TakeAndUpload, NeedsUpload, KeyOf
  <2>5. LogoThere'
    BY <2>1, <2>2 DEF LogoThere, Provided
  <2>6. StaleInv'
    <3> SUFFICES ASSUME NEW k \in Keys, Stale(k)' PROVE \E i \in Jobs : Explained(k, i)'
      BY DEF StaleInv
    <3>1. PICK i \in Jobs : Explained(k, i)
      BY <1>1, <2>1 DEF Stale
    <3> QED
      BY <2>1, <3>1, StillExplained
  <2> QED
    BY <2>3, <2>4, <2>5, <2>6 DEF CacheInv
<1> QED
  BY <1>2, <1>3

\* The upload is done, or the wait after it.
LEMMA WaitingKeepsCache ==
  ASSUME CacheTypes, CacheInv, UploadDone \/ SettleOver
  PROVE  CacheInv'
<1>0. /\ UNCHANGED <<msg, verdict, cur, cache, uploaded, nv>> /\ cur \in Jobs
      /\ doc[Session] = Plain /\ Spooler \in Senders /\ Session # Spooler
  BY DEF UploadDone, SettleOver, SendBytes, Return, jobVars, CacheTypes, CacheInv, CallOfJob
<1>1. /\ uploaded /\ msg[cur].logo \in Hashes /\ msg[cur].image
      /\ msg[cur].to \in Printers => cache[KeyOf(cur)] # msg[cur].logo
  BY DEF UploadDone, SettleOver, CacheInv, UploadDue, UploadingJob
<1>2. msg[cur].to \in Printers /\ nv[msg[cur].to][msg[cur].slot] = msg[cur].logo
  BY DEF UploadDone, SettleOver, Return, CacheInv, LogoThere, Provided
<1>3. CallOfJob'
  <2>1. CASE UploadDone
    BY <1>0, <2>1 DEF UploadDone, Return, CallOfJob, CacheTypes
  <2>2. CASE SettleOver
    <3>1. /\ pc'[Spooler] = "lock" /\ dest'[Spooler] = msg[cur].to
          /\ doc'[Spooler] = Body(cur) /\ doc'[Session] = Plain /\ step' = "body"
      BY <1>0, <1>2, <2>2 DEF SettleOver, SendBytes, CacheTypes
    <3> QED
      BY <1>0, <1>2, <3>1 DEF CallOfJob, Body
  <2> QED
    BY <2>1, <2>2
<1>4. UploadDue' /\ LogoThere'
  BY <1>0, <1>1, <1>2 DEF UploadDue, LogoThere, UploadingJob, KeyOf
<1>5. StaleInv'
  <2>1. \A k \in Keys : BeingChanged(k) => BeingChanged(k)'
    BY <1>0, <1>1 DEF BeingChanged, UploadingJob, KeyOf, UploadDone, SettleOver
  <2> QED
    BY <1>0, <2>1, StillExplained DEF CacheInv, StaleInv, Stale
<1> QED
  BY <1>3, <1>4, <1>5 DEF CacheInv

\* The end of handle: what the job may have done to its slot is from now on
\* explained by its verdict, or the entry is right.
LEMMA FinishKeepsCache ==
  ASSUME CacheTypes, CacheInv, PlaceTypes, JobsInv, UploadFailed \/ BodyFailed \/ BodyDone
  PROVE  CacheInv'
<1>0. /\ step \in {"prelude", "body"} /\ UNCHANGED <<msg, nv>> /\ cur' = NoJob /\ step' = "recv"
      /\ pc' = [pc EXCEPT ![Spooler] = "idle"] /\ doc' = [doc EXCEPT ![Spooler] = Plain]
  BY DEF UploadFailed, BodyFailed, BodyDone, Finish, Return
<1>1. cur \in Jobs /\ verdict[cur] = "none" /\ msg[cur] \in Inputs /\ msg[cur] # NoMsg
  BY <1>0, JobInHandle DEF JobsInv, CacheTypes
<1>c. PICK c \in Jobs : c = cur
  BY <1>1
<1>2. CallOfJob'
  BY <1>0 DEF CacheInv, CallOfJob, CacheTypes
<1>3. UploadDue' /\ LogoThere'
  BY <1>0 DEF UploadDue, UploadingJob, LogoThere, Provided
<1>4. CASE UploadFailed \/ BodyFailed
  <2>1. verdict' = [verdict EXCEPT ![cur] = "failed"] /\ UNCHANGED cache
    BY <1>4 DEF UploadFailed, BodyFailed, Finish
  <2>2. verdict'[c] = "failed"
    BY <1>1, <1>c, <2>1 DEF PlaceTypes
  <2>3. StaleInv'
    <3> SUFFICES ASSUME NEW k \in Keys, Stale(k)' PROVE \E i \in Jobs : Explained(k, i)'
      BY DEF StaleInv
    <3>1. Stale(k)
      BY <1>0, <2>1 DEF Stale
    <3>2. CASE BeingChanged(k)
      <4>1. KeyOf(cur) = k /\ msg[cur].to \in Printers /\ NoHash \notin Hashes
        BY <3>2 DEF BeingChanged, KeyOf, Keys, CacheTypes
      <4>2. Explained(k, c)'
        BY <1>0, <1>1, <1>c, <2>1, <2>2, <3>2, <4>1
           DEF CacheInv, UploadDue, BeingChanged, Explained, KeyOf
      <4> QED
        BY <4>2
    <3>3. ASSUME NEW i \in Jobs, Explained(k, i) PROVE Explained(k, i)'
      BY <1>0, <1>1, <2>1, <3>3, ExplainedAfterVerdict
    <3> QED
      BY <3>1, <3>2, <3>3 DEF CacheInv, StaleInv
  <2> QED
    BY <1>2, <1>3, <2>3 DEF CacheInv
<1>5. CASE BodyDone
  <2>1. /\ verdict' = [verdict EXCEPT ![cur] = "printed"] /\ step = "body" /\ pc[Spooler] = "ok"
        /\ cache' = IF uploaded THEN [cache EXCEPT ![KeyOf(cur)] = msg[cur].logo] ELSE cache
    BY <1>5 DEF BodyDone, Finish, Return
  <2>2. verdict'[c] = "printed"
    BY <1>1, <1>c, <2>1 DEF PlaceTypes
  <2>3. KeyOf(cur) \in Keys
    BY <1>1, <2>1, MessageInHandle DEF CacheInv, CallOfJob, KeyOf, Keys
  <2>4. StaleInv'
    <3> SUFFICES ASSUME NEW k \in Keys, Stale(k)' PROVE \E i \in Jobs : Explained(k, i)'
      BY DEF StaleInv
    <3>1. CASE k = KeyOf(cur) /\ msg[cur].brings \in Hashes
      <4>1. Explained(k, c)'
        BY <1>0, <1>1, <1>c, <2>2, <3>1 DEF Explained, KeyOf
      <4> QED
        BY <4>1
    <3>2. CASE k = KeyOf(cur) /\ msg[cur].brings \notin Hashes /\ uploaded
      <4>1. cache'[k] = msg[cur].logo
        BY <2>1, <2>3, <3>2 DEF CacheTypes
      <4>2. nv[msg[cur].to][msg[cur].slot] = msg[cur].logo
        BY <2>1, <3>2 DEF CacheInv, LogoThere, Provided
      <4>3. k[1] = msg[cur].to /\ k[2] = msg[cur].slot
        BY <3>2 DEF KeyOf
      <4> QED
        BY <1>0, <4>1, <4>2, <4>3 DEF Stale
    <3>3. CASE ~(k = KeyOf(cur) /\ (msg[cur].brings \in Hashes \/ uploaded))
      <4>1. cache'[k] = cache[k]
        BY <2>1, <3>3 DEF CacheTypes
      <4>2. Stale(k) /\ ~BeingChanged(k)
        BY <1>0, <2>1, <3>3, <4>1 DEF Stale, BeingChanged, UploadingJob
      <4>3. PICK i \in Jobs : Explained(k, i)
        BY <4>2 DEF CacheInv, StaleInv
      <4> QED
        BY <1>0, <1>1, <2>1, <4>1, <4>3, ExplainedAfterVerdict
    <3> QED
      BY <3>1, <3>2, <3>3
  <2> QED
    BY <1>2, <1>3, <2>4 DEF CacheInv
<1> QED
  BY <1>4, <1>5

LEMMA CacheInvKept ==
  ASSUME TypeOK, HandedIn, JobsInv, CacheInv, [Next]_vars
  PROVE  CacheInv'
<1>0. CacheTypes /\ PlaceTypes /\ doc[Session] = Plain
  BY CacheTypesHold, PlaceTypesHold DEF CacheInv, CallOfJob
<1>1. CASE SessionNext
  BY <1>0, <1>1, SessionLeavesCache
<1>2. CASE SpoolerNext
  BY <1>0, <1>2, TakingKeepsCache, WaitingKeepsCache, FinishKeepsCache, SendsKeepCache
     DEF SpoolerNext
<1>3. ASSUME NEW j \in Jobs, NEW m \in Inputs, PostPrint(j, m)
      PROVE  CacheInv'
  BY <1>0, <1>3, CacheUntouched DEF PostPrint, linkVars
<1>4. ASSUME NEW j \in Jobs, Enqueue(j)
      PROVE  CacheInv'
  BY <1>0, <1>4, CacheUntouched DEF Enqueue, linkVars, jobVars
<1>5. CASE Tick
  BY <1>0, <1>5, CacheUntouched DEF Tick, Elapse, jobVars
<1>6. CASE Restart
  <2>1. /\ pc' = [s \in Senders |-> "idle"] /\ doc' = [s \in Senders |-> Plain]
        /\ step' = "recv" /\ cache' = [k \in Keys |-> NoHash]
    BY <1>6 DEF Restart, Abort
  <2>2. CallOfJob' /\ UploadDue' /\ LogoThere'
    BY <2>1, Callers DEF CallOfJob, UploadDue, UploadingJob, LogoThere, Provided
  <2>3. StaleInv'
    BY <2>1 DEF StaleInv, Stale
  <2> QED
    BY <2>2, <2>3 DEF CacheInv
<1>7. CASE UNCHANGED vars
  BY <1>0, <1>7, CacheUntouched DEF vars, linkVars, jobVars, spoolerVars
<1> QED
  BY <1>1, <1>2, <1>3, <1>4, <1>5, <1>6, <1>7 DEF Next

LEMMA CacheInvHolds == Safety => []CacheInv
<1>1. Init => CacheInv
  BY Callers DEF Init, LinkInit, CacheInv, CallOfJob, UploadDue, UploadingJob, LogoThere, Provided,
                 StaleInv, Stale
<1>2. TypeOK /\ HandedIn /\ JobsInv /\ CacheInv /\ [Next]_vars => CacheInv'
  BY CacheInvKept
<1> QED
  BY <1>1, <1>2, SpoolTypeCorrect, JobsInvHolds, PTL DEF Safety

\* A receipt that brought its own logo is printed while its slot holds that
\* logo: between the upload and the last byte of the body nobody changes it.
THEOREM LogoPrinted == Safety => []LogoOnReceipt
<1>1. TypeOK /\ HandedIn /\ CacheInv => LogoOnReceipt
  <2> SUFFICES ASSUME CacheInv, step = "body", uploaded, pc[Spooler] = "write",
                      doc[Spooler] = Plain
               PROVE  nv[dest[Spooler]][msg[cur].slot] = msg[cur].logo
    BY DEF LogoOnReceipt
  <2>1. dest[Spooler] = msg[cur].to /\ doc[Spooler] = Body(cur)
    BY DEF CacheInv, CallOfJob
  <2>2. msg[cur].brings \notin Hashes
    BY <2>1 DEF Body, Plain
  <2> QED
    BY <2>1, <2>2 DEF CacheInv, LogoThere, Provided
<1> QED
  BY <1>1, CacheInvHolds, SpoolTypeCorrect, PTL

\* Between jobs a cache entry that does not match its slot has a cause: a job
\* of the same slot that failed after its upload, or a logo_provision body.
THEOREM StaleEntries == Safety => []StaleEntryExplained
<1>1. TypeOK /\ HandedIn /\ CacheInv => StaleEntryExplained
  BY Bounds DEF HandedIn, CacheInv, StaleInv, Stale, BeingChanged, Explained, StaleEntryExplained
<1> QED
  BY <1>1, CacheInvHolds, SpoolTypeCorrect, PTL

=============================================================================
