------------------------------ MODULE PrintSpool ------------------------------
(***************************************************************************)
(* The print path of the bridge: the spooler (internal/spooler), the       *)
(* callers that fill its queue, and the session goroutine's own prints,    *)
(* all of them on top of PrinterLink.                                      *)
(*                                                                         *)
(*  - print_job messages of the cloud and POST /print of the LAN are       *)
(*    enqueued on a buffered channel; Enqueue blocks when it is full.      *)
(*  - One spooler goroutine takes the jobs in order.  It uploads the logo  *)
(*    first if its cache says that the printer lacks it, waits for the     *)
(*    flash, prints, updates the cache and calls SendAck.                  *)
(*  - print_order, print_service_call and print_test are printed by the    *)
(*    session goroutine itself, which bypasses the queue and meets the     *)
(*    spooler only at the mutex of an endpoint.                            *)
(*  - The websocket may break and be dialled again, and the process may    *)
(*    end and start again, at any moment.                                  *)
(***************************************************************************)
EXTENDS PrinterLink, Sequences, FiniteSets

CONSTANTS
  Spooler, Session,   \* the two callers of SendBytes
  Jobs,               \* job instances: one per print_job message or POST /print
  NoJob, NoMsg,
  Inputs,             \* the messages the cloud and the LAN may send
  QueueCap,           \* capacity of the spooler's channel
  SettleTicks,        \* nvFlashSettleDelay
  MaxSessions,        \* bound: websocket sessions
  MaxRestarts,        \* bound: restarts of the process
  MaxDirect,          \* bound: messages printed by the session goroutine
  MaxTargets          \* bound: printers such a message is sent to

\* What the spooler reads of a wire.PrintJobFromCloud: the address, whether
\* escpos.Render succeeds, logo_ref (hash, slot, a usable image_b64) and, for
\* a logo_provision job, the logo its body loads.
Messages == [to : Addrs, renders : BOOLEAN, logo : Hashes \cup {NoHash},
             slot : Slots, image : BOOLEAN, brings : Hashes \cup {NoHash}]

ASSUME SpoolAssumption ==
  /\ Senders = {Spooler, Session} /\ Spooler # Session
  /\ NoJob \notin Jobs
  /\ Inputs \subseteq Messages /\ NoMsg \notin Messages
  /\ QueueCap \in Nat \ {0}
  /\ SettleTicks \in Nat
  /\ MaxSessions \in Nat /\ MaxRestarts \in Nat
  /\ MaxDirect \in Nat /\ MaxTargets \in Nat

VARIABLES
  \* jobs, as the bridge, the paper and the cloud see them
  msg,        \* [Jobs -> message of the job, NoMsg while there is none]
  from,       \* [Jobs -> session that brought the job, 0 for the LAN]
  verdict,    \* [Jobs -> outcome the spooler came to, "lost" at a restart,
              \*  "discarded" if its message could not be read]
  paper,      \* [Jobs -> how much of the job's body the printer has]
  heard,      \* [Jobs -> status of the print_ack the cloud has received]
  \* the spooler
  blocked,    \* jobs whose goroutine is inside Enqueue
  queue,      \* the channel
  cur, step,  \* the job in handle and where handle is
  uploaded,   \* willUpdate of the job in handle
  settle,     \* ticks left of the wait for the flash
  cache,      \* logoCache
  \* the session goroutine
  sess,       \* number of the current, or the last, session
  live,       \* its connection is up
  act,        \* what the goroutine is doing
  targets,    \* printers the message in hand is still to be sent to
  directs, restarts   \* counters for the bounds

jobVars     == <<msg, from, verdict, paper, heard>>
spoolerVars == <<blocked, queue, cur, step, uploaded, settle, cache>>
sessionVars == <<sess, live, act, targets, directs, restarts>>
vars        == <<linkVars, jobVars, spoolerVars, sessionVars>>

Keys     == Printers \X Slots
Verdicts == {"none", "printed", "failed", "lost", "discarded"}

TypeOK ==
  /\ LinkTypeOK
  /\ msg     \in [Jobs -> Inputs \cup {NoMsg}]
  /\ from    \in [Jobs -> 0 .. MaxSessions]
  /\ verdict \in [Jobs -> Verdicts]
  /\ paper   \in [Jobs -> {"blank", "partial", "whole"}]
  /\ heard   \in [Jobs -> {"none", "printed", "failed"}]
  /\ blocked \in SUBSET Jobs
  /\ queue   \in Seq(Jobs) /\ Len(queue) <= QueueCap
  /\ cur     \in Jobs \cup {NoJob}
  /\ step    \in {"recv", "prelude", "settle", "body"}
  /\ uploaded \in BOOLEAN
  /\ settle  \in 0 .. SettleTicks
  /\ cache   \in [Keys -> Hashes \cup {NoHash}]
  /\ sess    \in 0 .. MaxSessions
  /\ live    \in BOOLEAN
  /\ act     \in {"away", "select", "enqueue", "direct"}
  /\ targets \in Seq(Addrs)
  /\ directs \in 0 .. MaxDirect
  /\ restarts \in 0 .. MaxRestarts

Init ==
  /\ LinkInit
  /\ msg      = [j \in Jobs |-> NoMsg]
  /\ from     = [j \in Jobs |-> 0]
  /\ verdict  = [j \in Jobs |-> "none"]
  /\ paper    = [j \in Jobs |-> "blank"]
  /\ heard    = [j \in Jobs |-> "none"]
  /\ blocked  = {}
  /\ queue    = <<>>
  /\ cur      = NoJob
  /\ step     = "recv"
  /\ uploaded = FALSE
  /\ settle   = 0
  /\ cache    = [k \in Keys |-> NoHash]
  /\ sess     = 0
  /\ live     = FALSE
  /\ act      = "away"
  /\ targets  = <<>>
  /\ directs  = 0
  /\ restarts = 0

-----------------------------------------------------------------------------
(* The websocket session.                                                  *)

Connect ==
  /\ act = "away" /\ sess < MaxSessions
  /\ sess' = sess + 1
  /\ live' = TRUE
  /\ act'  = "select"
  /\ UNCHANGED <<linkVars, jobVars, spoolerVars, targets, directs, restarts>>

\* The connection breaks; the session goroutine may be anywhere.
Break ==
  /\ live
  /\ live' = FALSE
  /\ UNCHANGED <<linkVars, jobVars, spoolerVars, sess, act, targets, directs, restarts>>

\* The select loop returns, on errCh or on an "unpaired" message; Run closes
\* the connection.
SessionEnds ==
  /\ act = "select"
  /\ act'  = "away"
  /\ live' = FALSE
  /\ UNCHANGED <<linkVars, jobVars, spoolerVars, sess, targets, directs, restarts>>

\* A print_job message.  It may have been buffered in recvLoop before the
\* connection broke, so live is not a condition.
ReceivePrintJob(j, m) ==
  /\ act = "select"
  /\ msg[j] = NoMsg /\ verdict[j] = "none"
  /\ msg'     = [msg EXCEPT ![j] = m]
  /\ from'    = [from EXCEPT ![j] = sess]
  /\ blocked' = blocked \cup {j}
  /\ act'     = "enqueue"
  /\ UNCHANGED <<linkVars, verdict, paper, heard, queue, cur, step, uploaded,
                 settle, cache, sess, live, targets, directs, restarts>>

\* A print_job that does not unmarshal, for a field of another type: the handler
\* returns, nothing is enqueued and nothing is acknowledged.
DiscardPrintJob(j) ==
  /\ act = "select"
  /\ msg[j] = NoMsg /\ verdict[j] = "none"
  /\ from'    = [from EXCEPT ![j] = sess]
  /\ verdict' = [verdict EXCEPT ![j] = "discarded"]
  /\ UNCHANGED <<linkVars, msg, paper, heard, spoolerVars, sessionVars>>

\* POST /print, each request in a goroutine of its own and without SendAck.
PostPrint(j, m) ==
  /\ msg[j] = NoMsg /\ verdict[j] = "none"
  /\ msg'     = [msg EXCEPT ![j] = m]
  /\ blocked' = blocked \cup {j}
  /\ UNCHANGED <<linkVars, from, verdict, paper, heard, queue, cur, step, uploaded,
                 settle, cache, sessionVars>>

EnqueueOrDrop(j) ==
  /\ j \in blocked
  /\ queue'   = IF Len(queue) < QueueCap THEN Append(queue, j) ELSE queue
  /\ blocked' = blocked \ {j}
  /\ act'     = IF from[j] # 0 THEN "select" ELSE act
  /\ UNCHANGED <<linkVars, jobVars, cur, step, uploaded, settle, cache,
                 sess, live, targets, directs, restarts>>

\* The send on the channel goes through as soon as there is room.
Enqueue(j) ==
  /\ j \in blocked
  /\ Len(queue) < QueueCap
  /\ queue'   = Append(queue, j)
  /\ blocked' = blocked \ {j}
  /\ act'     = IF from[j] # 0 THEN "select" ELSE act
  /\ UNCHANGED <<linkVars, jobVars, cur, step, uploaded, settle, cache,
                 sess, live, targets, directs, restarts>>

\* print_order, print_service_call or print_test: the goroutine sends the
\* bytes to one printer after the other, whatever the results.
ReceiveDirect(ts) ==
  /\ act = "select"
  /\ ts # <<>>
  /\ directs < MaxDirect
  /\ act'     = "direct"
  /\ targets' = ts
  /\ directs' = directs + 1
  /\ UNCHANGED <<linkVars, jobVars, spoolerVars, sess, live, restarts>>

DirectSend ==
  /\ act = "direct" /\ targets # <<>>
  /\ SendBytes(Session, Head(targets), Plain)
  /\ targets' = Tail(targets)
  /\ UNCHANGED <<jobVars, spoolerVars, sess, live, act, directs, restarts>>

DirectReturn(result) ==
  /\ Return(Session, result)
  /\ act' = IF targets = <<>> THEN "select" ELSE act
  /\ UNCHANGED <<jobVars, spoolerVars, sess, live, targets, directs, restarts>>

-----------------------------------------------------------------------------
(* The spooler.                                                            *)

\* Faulty: only a success is acknowledged.
SendAckOfSuccess(j, v) ==
  heard' = IF v = "printed" /\ from[j] # 0 /\ from[j] = sess /\ live
           THEN [heard EXCEPT ![j] = v] ELSE heard

\* SendAck of a job of the cloud writes to the connection of the session that
\* brought the job: a print_ack arrives only if that one is still up.
SendAck(j, v) ==
  heard' = IF from[j] # 0 /\ from[j] = sess /\ live
           THEN [heard EXCEPT ![j] = v] ELSE heard

\* The end of handle: the outcome, its acknowledgement, back to the select.
Finish(j, v) ==
  /\ verdict'  = [verdict EXCEPT ![j] = v]
  /\ SendAck(j, v)
  /\ cur'      = NoJob
  /\ step'     = "recv"
  /\ uploaded' = FALSE

KeyOf(j) == <<msg[j].to, msg[j].slot>>

\* The bytes Render returns: a logo_provision body is itself an upload.
Body(j) == IF msg[j].brings \in Hashes
           THEN [by |-> "provision", slot |-> msg[j].slot, hash |-> msg[j].brings]
           ELSE Plain

Prelude(j) == [by |-> "prelude", slot |-> msg[j].slot, hash |-> msg[j].logo]

\* logoPrelude: an upload is due if the job refers to a logo other than the
\* cached one and carries the image.  An unusable address has no cache entry.
NeedsUpload(j) ==
  /\ msg[j].logo \in Hashes /\ msg[j].image
  /\ msg[j].to \in Printers => cache[KeyOf(j)] # msg[j].logo

\* Faulty: a job that cannot be rendered is forgotten.
TakeUnrenderableSilently ==
  /\ step = "recv" /\ queue # <<>>
  /\ ~msg[Head(queue)].renders
  /\ queue' = Tail(queue)
  /\ UNCHANGED <<linkVars, jobVars, blocked, cur, step, uploaded, settle, cache,
                 sessionVars>>

\* case j := <-s.ch, and handle as far as its first call of SendBytes.
TakeUnrenderable ==
  /\ step = "recv" /\ queue # <<>>
  /\ ~msg[Head(queue)].renders
  /\ queue' = Tail(queue)
  /\ Finish(Head(queue), "failed")
  /\ UNCHANGED <<linkVars, msg, from, paper, blocked, settle, cache, sessionVars>>

TakeAndUpload ==
  LET j == Head(queue) IN
  /\ step = "recv" /\ queue # <<>>
  /\ msg[j].renders /\ NeedsUpload(j)
  /\ queue'    = Tail(queue)
  /\ cur'      = j
  /\ step'     = "prelude"
  /\ uploaded' = TRUE
  /\ SendBytes(Spooler, msg[j].to, Prelude(j))
  /\ UNCHANGED <<jobVars, blocked, settle, cache, sessionVars>>

TakeAndPrint ==
  LET j == Head(queue) IN
  /\ step = "recv" /\ queue # <<>>
  /\ msg[j].renders /\ ~NeedsUpload(j)
  /\ queue'    = Tail(queue)
  /\ cur'      = j
  /\ step'     = "body"
  /\ uploaded' = FALSE
  /\ SendBytes(Spooler, msg[j].to, Body(j))
  /\ UNCHANGED <<jobVars, blocked, settle, cache, sessionVars>>

\* Faulty: the error of the upload is ignored, as if the printer had the logo.
UploadFailedIgnored ==
  /\ step = "prelude"
  /\ Return(Spooler, "err")
  /\ step'   = "settle"
  /\ settle' = SettleTicks
  /\ UNCHANGED <<jobVars, blocked, queue, cur, uploaded, cache, sessionVars>>

UploadFailed ==
  /\ step = "prelude"
  /\ Return(Spooler, "err")
  /\ Finish(cur, "failed")
  /\ UNCHANGED <<msg, from, paper, blocked, queue, settle, cache, sessionVars>>

UploadDone ==
  /\ step = "prelude"
  /\ Return(Spooler, "ok")
  /\ step'   = "settle"
  /\ settle' = SettleTicks
  /\ UNCHANGED <<jobVars, blocked, queue, cur, uploaded, cache, sessionVars>>

\* Faulty: no wait for the flash, or the body sent by sendBytesUnlocked.
SettleSkipped ==
  /\ step = "settle"
  /\ SendBytes(Spooler, msg[cur].to, Body(cur))
  /\ step' = "body"
  /\ UNCHANGED <<jobVars, blocked, queue, cur, uploaded, settle, cache, sessionVars>>

SettleOverUnlocked ==
  /\ step = "settle" /\ settle = 0
  /\ pc'   = [pc EXCEPT ![Spooler] = "dial"]
  /\ dest' = [dest EXCEPT ![Spooler] = msg[cur].to]
  /\ doc'  = [doc EXCEPT ![Spooler] = Body(cur)]
  /\ step' = "body"
  /\ UNCHANGED <<lock, left, timer, nv, flash, flashBy, jobVars, blocked, queue, cur,
                 uploaded, settle, cache, sessionVars>>

SettleOver ==
  /\ step = "settle" /\ settle = 0
  /\ SendBytes(Spooler, msg[cur].to, Body(cur))
  /\ step' = "body"
  /\ UNCHANGED <<jobVars, blocked, queue, cur, uploaded, settle, cache, sessionVars>>

\* Faulty: the error is ignored.
BodyFailedIgnored ==
  /\ step = "body"
  /\ Return(Spooler, "err")
  /\ Finish(cur, "printed")
  /\ UNCHANGED <<msg, from, paper, blocked, queue, settle, cache, sessionVars>>

BodyFailed ==
  /\ step = "body"
  /\ Return(Spooler, "err")
  /\ Finish(cur, "failed")
  /\ UNCHANGED <<msg, from, paper, blocked, queue, settle, cache, sessionVars>>

\* Faulty: an entry once made is never replaced.
BodyDoneFirstEntry ==
  /\ step = "body"
  /\ Return(Spooler, "ok")
  /\ cache' = IF uploaded /\ cache[KeyOf(cur)] = NoHash
              THEN [cache EXCEPT ![KeyOf(cur)] = msg[cur].logo] ELSE cache
  /\ Finish(cur, "printed")
  /\ UNCHANGED <<msg, from, paper, blocked, queue, settle, sessionVars>>

BodyDone ==
  /\ step = "body"
  /\ Return(Spooler, "ok")
  /\ cache' = IF uploaded THEN [cache EXCEPT ![KeyOf(cur)] = msg[cur].logo] ELSE cache
  /\ Finish(cur, "printed")
  /\ UNCHANGED <<msg, from, paper, blocked, queue, settle, sessionVars>>

-----------------------------------------------------------------------------
(* Steps inside SendBytes, time, and the end of the process.               *)

\* What a step of the spooler's call means for the paper of its job.
Paper ==
  paper' = IF step = "body" /\ left'[Spooler] < left[Spooler] /\ pc'[Spooler] # "err"
           THEN [paper EXCEPT ![cur] = IF left'[Spooler] = 0 THEN "whole" ELSE "partial"]
           ELSE paper

SpoolerSends ==
  /\ LinkStep(Spooler)
  /\ Paper
  /\ UNCHANGED <<msg, from, verdict, heard, spoolerVars, sessionVars>>

SessionSends ==
  /\ LinkStep(Session)
  /\ UNCHANGED <<jobVars, spoolerVars, sessionVars>>

Tick ==
  /\ TimersRun \/ settle > 0
  /\ Elapse
  /\ settle' = Down(settle)
  /\ UNCHANGED <<jobVars, blocked, queue, cur, step, uploaded, cache, sessionVars>>

\* The process ends, main returning on a signal or a crash, and is started
\* again: queue, cache and calls are gone, and so are the jobs not finished.
Restart ==
  /\ restarts < MaxRestarts
  /\ restarts' = restarts + 1
  /\ Abort
  /\ verdict'  = [j \in Jobs |-> IF msg[j] # NoMsg /\ verdict[j] = "none"
                                 THEN "lost" ELSE verdict[j]]
  /\ blocked'  = {}
  /\ queue'    = <<>>
  /\ cur'      = NoJob
  /\ step'     = "recv"
  /\ uploaded' = FALSE
  /\ settle'   = 0
  /\ cache'    = [k \in Keys |-> NoHash]
  /\ live'     = FALSE
  /\ act'      = "away"
  /\ targets'  = <<>>
  /\ UNCHANGED <<msg, from, paper, heard, sess, directs>>

TargetLists == UNION {[1 .. n -> Addrs] : n \in 1 .. MaxTargets}

SessionNext ==
  \/ Connect \/ Break \/ SessionEnds
  \/ \E j \in Jobs, m \in Inputs : ReceivePrintJob(j, m)
  \/ \E j \in Jobs : DiscardPrintJob(j)
  \/ \E ts \in TargetLists : ReceiveDirect(ts)
  \/ DirectSend
  \/ \E result \in {"ok", "err"} : DirectReturn(result)
  \/ SessionSends

SpoolerNext ==
  \/ TakeUnrenderable \/ TakeAndUpload \/ TakeAndPrint
  \/ UploadFailed \/ UploadDone \/ SettleOver
  \/ BodyFailed \/ BodyDone
  \/ SpoolerSends

Next ==
  \/ SessionNext
  \/ \E j \in Jobs, m \in Inputs : PostPrint(j, m)
  \/ \E j \in Jobs : Enqueue(j)
  \/ SpoolerNext
  \/ Tick
  \/ Restart

\* The goroutines run; nothing is assumed of the cloud, the LAN, the network
\* or the operator.  SendBytes always comes back (LinkFairness).
Fairness ==
  /\ WF_vars(SpoolerNext) /\ SF_vars(TakeLock(Spooler) /\ SpoolerSends)
  /\ WF_vars(DirectSend) /\ WF_vars(\E r \in {"ok", "err"} : DirectReturn(r))
  /\ WF_vars(SessionSends) /\ SF_vars(TakeLock(Session) /\ SessionSends)
  /\ \A j \in Jobs : SF_vars(Enqueue(j))
  /\ WF_vars(Tick)

Safety == Init /\ [][Next]_vars
Spec   == Safety /\ Fairness

-----------------------------------------------------------------------------
(* What the print path promises.                                           *)

\* Seen by those who hand in jobs, the spooler is a FIFO server that gives
\* every job one truthful verdict, and a restart loses only what is pending.
Promise == INSTANCE SpoolPromise
  WITH pending  <- IF cur = NoJob THEN queue ELSE <<cur>> \o queue,
       Capacity <- QueueCap + 1

ImplementsPromise == Promise!Safety

\* Spooler and session goroutine use the printers by SendBytes alone: no step
\* of theirs touches a mutex, a connection or a printer in another way.
ImplementsLink == LinkSafety

InQueue(j) == \E i \in 1 .. Len(queue) : queue[i] = j

\* A job handed in and not concluded is in exactly one place: in a blocked
\* Enqueue, once in the channel, or in handle.
JobsConserved ==
  \A j \in Jobs :
    /\ msg[j] # NoMsg /\ verdict[j] = "none" <=> j \in blocked \/ InQueue(j) \/ j = cur
    /\ ~(j \in blocked /\ InQueue(j)) /\ ~(j = cur /\ (j \in blocked \/ InQueue(j)))
    /\ \A i, k \in 1 .. Len(queue) : queue[i] = j /\ queue[k] = j => i = k

\* A print_ack the cloud receives is true: it carries the verdict, and says
\* "printed" if and only if the whole body went out to the printer.  It holds
\* after a reconnect and after a restart.
AckTruthful ==
  \A j \in Jobs : heard[j] # "none" =>
    /\ heard[j] = verdict[j]
    /\ heard[j] = "printed" <=> paper[j] = "whole"

\* The wait that was done before s may write to p, which still flashes an upload:
\* interJobDelay passes with the mutex held, and the spooler goes on to wait
\* nvFlashSettleDelay after a prelude, but not after a logo_provision body.
Waited(s, p) ==
  InterJobTicks + (IF s = Spooler /\ flashBy[p] = "prelude" THEN SettleTicks ELSE 0)

\* What the delays leave of a flash: whoever writes to a printer meets no more of
\* the flash of an upload of this run than outlasts the waits due before it.  So
\* the spooler's next receipt meets none of the prelude's if the flash takes no
\* longer than interJobDelay and nvFlashSettleDelay together, and meets the rest
\* if it does.
FlashBounded ==
  \A s \in Senders :
    pc[s] = "write" /\ flash[dest[s]] > 0 /\ flashBy[dest[s]] \in {"prelude", "provision"}
      => flash[dest[s]] + Waited(s, dest[s]) <= FlashTicks

\* A receipt that brought its own logo is printed while the slot holds it.
LogoOnReceipt ==
  step = "body" /\ uploaded /\ pc[Spooler] = "write" /\ doc[Spooler] = Plain
    => nv[dest[Spooler]][msg[cur].slot] = msg[cur].logo

\* Between jobs, an entry that no longer matches its slot has one of two
\* causes: a job that uploaded, or may have uploaded, another logo and then
\* failed, or a logo_provision body sent to the slot.
StaleEntryExplained ==
  \A k \in Keys :
    step = "recv" /\ cache[k] # NoHash /\ nv[k[1]][k[2]] # cache[k]
      => \E j \in Jobs :
           /\ msg[j] # NoMsg /\ KeyOf(j) = k
           /\ \/ verdict[j] = "failed" /\ msg[j].image /\ msg[j].logo \notin {NoHash, cache[k]}
              \/ verdict[j] # "none" /\ msg[j].brings \in Hashes

\* Every job handed in gets its verdict, or is lost in a restart: nobody waits
\* forever in Enqueue, in the channel or at a printer.
EveryJobSettled == \A j \in Jobs : msg[j] # NoMsg ~> verdict[j] # "none"

\* The cloud hears of every job it sent unless that session breaks, or the bridge
\* could not read the message, which it drops without an answer.
EveryJobAnswered ==
  \A j \in Jobs :
    from[j] # 0 ~> heard[j] # "none" \/ verdict[j] = "discarded" \/ ~live \/ sess # from[j]

-----------------------------------------------------------------------------
(* What a comment of the source says and the code does not keep.           *)

\* "Sending data during this period might cause incorrect operation": no print
\* of the session goroutine reaches a printer that is flashing an upload.
DirectRespectsFlash ==
  pc[Session] = "write" /\ flash[dest[Session]] > 0
    => flashBy[dest[Session]] = "earlier run"

=============================================================================
