---------------------------- MODULE CloudSession ----------------------------
(***************************************************************************)
(* The goroutines around the websocket to the cloud (internal/cloud):      *)
(*                                                                         *)
(*  - Run dials, runs a session, closes the connection and dials again.    *)
(*  - A session has a reader goroutine, which passes messages on through   *)
(*    the channel recvLoop and its error through errCh, and the session    *)
(*    goroutine itself, which handles one message or event at a time.      *)
(*  - Session goroutine, spooler (print_ack) and printer health write to   *)
(*    the connection, each under the mutex of its writeConn.  A write has  *)
(*    no deadline: it waits while the socket is full.                      *)
(*  - Printer health starts with the first config of a session.  It has    *)
(*    the context of the process, so it outlives its session, as may the   *)
(*    reader, and a job that the spooler has still to acknowledge.         *)
(*                                                                         *)
(* Sessions are numbered; what belongs to a session (its socket, channels, *)
(* mutex, printer list) is a function of that number.  The printing of a   *)
(* job, its queue and its verdict are PrintSpool's, the claim and the      *)
(* pairing are Pairing's and ClaimToken's: here a job is the session that  *)
(* brought it.  The end of the process is left out: it ends everything.    *)
(***************************************************************************)
EXTENDS Naturals, Sequences

CONSTANTS
  Loop, Spooler,   \* the session goroutine and the spooler, as writers
  Nobody,          \* holds a mutex nobody holds
  Ids,             \* printer ids
  Inputs,          \* the messages the cloud may send
  LoopCap,         \* capacity of recvLoop
  QueueCap,        \* capacity of the spooler's channel
  SocketCap,       \* messages, or frames, under way in one direction
  MaxSessions,     \* bound: sessions
  MaxMessages      \* bound: messages of the cloud

Sessions == 1 .. MaxSessions
Writers  == {Loop, Spooler} \cup Sessions    \* a number is that session's health

Messages ==
  [type : {"config", "config_update"}, printers : SUBSET Ids]
    \cup [type : {"print_job", "print_order", "print_service_call", "print_test",
                  "verify_claim", "update", "unpaired"}]

ASSUME SessionAssumption ==
  /\ Loop # Spooler /\ Nobody \notin Writers
  /\ Loop \notin Nat /\ Spooler \notin Nat
  /\ Inputs \subseteq Messages
  /\ LoopCap \in Nat \ {0} /\ QueueCap \in Nat \ {0} /\ SocketCap \in Nat \ {0}
  /\ MaxSessions \in Nat /\ MaxMessages \in Nat

VARIABLES
  sess,      \* number of the session, or of the last one
  act,       \* what the session goroutine is doing
  conn,      \* [Sessions -> state of the connection]
  inbox,     \* [Sessions -> messages in the socket, to the bridge]
  outbox,    \* [Sessions -> number of frames in the socket, to the cloud]
  reader,    \* [Sessions -> state of the reader goroutine]
  held,      \* [Sessions -> the message it holds, as a sequence]
  recvLoop,  \* [Sessions -> the channel]
  errCh,     \* [Sessions -> an error waits in the channel]
  printers,  \* [Sessions -> the printer list]
  probing,   \* [Sessions -> printer health has been started]
  wmu,       \* [Sessions -> holder of the mutex of the writeConn]
  writing,   \* [Writers -> where a call of WriteMessage is]
  queue,     \* sessions of the jobs in the spooler's channel
  cur,       \* session of the job the spooler has in hand, 0 if none
  sent       \* counter for the bound

loopVars  == <<sess, act>>
sockVars  == <<conn, inbox, outbox>>
readVars  == <<reader, held, recvLoop, errCh>>
probeVars == <<printers, probing>>
writeVars == <<wmu, writing>>
spoolVars == <<queue, cur>>
vars == <<loopVars, sockVars, readVars, probeVars, writeVars, spoolVars, sent>>

TypeOK ==
  /\ sess     \in 0 .. MaxSessions
  /\ act      \in {"away", "hello", "select", "write", "enqueue"}
  /\ conn     \in [Sessions -> {"none", "up", "broken", "closed"}]
  /\ inbox    \in [Sessions -> Seq(Inputs)]
  /\ outbox   \in [Sessions -> 0 .. SocketCap]
  /\ reader   \in [Sessions -> {"off", "read", "done"}]
  /\ held     \in [Sessions -> Seq(Inputs)]
  /\ recvLoop \in [Sessions -> Seq(Inputs)]
  /\ \A s \in Sessions : Len(held[s]) <= 1 /\ Len(recvLoop[s]) <= LoopCap
  /\ errCh    \in [Sessions -> BOOLEAN]
  /\ printers \in [Sessions -> SUBSET Ids]
  /\ probing  \in [Sessions -> BOOLEAN]
  /\ wmu      \in [Sessions -> Writers \cup {Nobody}]
  /\ writing  \in [Writers -> {"no", "lock", "write"}]
  /\ queue    \in Seq(Sessions) /\ Len(queue) <= QueueCap
  /\ cur      \in 0 .. MaxSessions
  /\ sent     \in 0 .. MaxMessages

Init ==
  /\ sess = 0 /\ act = "away" /\ sent = 0
  /\ conn     = [s \in Sessions |-> "none"]
  /\ inbox    = [s \in Sessions |-> <<>>]
  /\ outbox   = [s \in Sessions |-> 0]
  /\ reader   = [s \in Sessions |-> "off"]
  /\ held     = [s \in Sessions |-> <<>>]
  /\ recvLoop = [s \in Sessions |-> <<>>]
  /\ errCh    = [s \in Sessions |-> FALSE]
  /\ printers = [s \in Sessions |-> {}]
  /\ probing  = [s \in Sessions |-> FALSE]
  /\ wmu      = [s \in Sessions |-> Nobody]
  /\ writing  = [w \in Writers |-> "no"]
  /\ queue = <<>> /\ cur = 0

-----------------------------------------------------------------------------
(* writeConn.WriteMessage, called by any of the writers.                   *)

\* The session whose connection a writer writes to.
ConnOf(w) == CASE w = Loop -> sess [] w = Spooler -> cur [] OTHER -> w

CallWrite(w) == writing' = [writing EXCEPT ![w] = "lock"]

MutexIgnored(c) == TRUE            \* faulty: writes go to the connection itself
MutexFree(c) == wmu[c] = Nobody

TakeMutex(w) ==
  /\ writing[w] = "lock" /\ MutexFree(ConnOf(w))
  /\ writing' = [writing EXCEPT ![w] = "write"]
  /\ wmu' = [wmu EXCEPT ![ConnOf(w)] = w]
  /\ UNCHANGED <<loopVars, sockVars, readVars, probeVars, spoolVars, sent>>

\* WriteMessage returns, to callers that go on after an error all the same.
WriteReturns(w) ==
  /\ writing' = [writing EXCEPT ![w] = "no"]
  /\ act' = IF w = Loop THEN "select" ELSE act
  /\ cur' = IF w = Spooler THEN 0 ELSE cur

UnlockOnSuccess(w) ==              \* faulty: not deferred
  wmu' = IF conn[ConnOf(w)] = "up" THEN [wmu EXCEPT ![ConnOf(w)] = Nobody] ELSE wmu
Unlock(w) == wmu' = [wmu EXCEPT ![ConnOf(w)] = Nobody]

\* The frame goes into the socket, or the connection is down.
Write(w) ==
  /\ writing[w] = "write"
  /\ IF conn[ConnOf(w)] = "up"
     THEN /\ outbox[ConnOf(w)] < SocketCap
          /\ outbox' = [outbox EXCEPT ![ConnOf(w)] = @ + 1]
     ELSE UNCHANGED outbox
  /\ WriteReturns(w) /\ Unlock(w)
  /\ UNCHANGED <<sess, conn, inbox, readVars, probeVars, queue, sent>>

-----------------------------------------------------------------------------
(* Run, and the handshake of session.                                      *)

Dial ==
  /\ act = "away" /\ sess < MaxSessions
  /\ sess' = sess + 1 /\ act' = "hello"
  /\ conn' = [conn EXCEPT ![sess + 1] = "up"]
  /\ UNCHANGED <<inbox, outbox, readVars, probeVars, writeVars, spoolVars, sent>>

\* The first ReadMessage has the cloud's answer; the reader starts.
HelloAnswered ==
  /\ act = "hello" /\ conn[sess] = "up"
  /\ act' = "select"
  /\ reader' = [reader EXCEPT ![sess] = "read"]
  /\ UNCHANGED <<sess, sockVars, held, recvLoop, errCh, probeVars, writeVars, spoolVars, sent>>

\* session returns and Run closes the connection.  Of what has arrived, the
\* reader may have some buffered.
SessionEnds ==
  /\ act' = "away"
  /\ conn' = [conn EXCEPT ![sess] = "closed"]
  /\ \E n \in 0 .. Len(inbox[sess]) : inbox' = [inbox EXCEPT ![sess] = SubSeq(@, 1, n)]
  /\ outbox' = [outbox EXCEPT ![sess] = 0]

\* The handshake has an error, or an answer that is no JSON.
HelloFails ==
  /\ act = "hello"
  /\ SessionEnds
  /\ UNCHANGED <<sess, readVars, probeVars, writeVars, spoolVars, sent>>

-----------------------------------------------------------------------------
(* The reader goroutine of session s.                                      *)

ReadMessage(s) ==
  /\ reader[s] = "read" /\ held[s] = <<>> /\ inbox[s] # <<>>
  /\ held'  = [held EXCEPT ![s] = <<Head(inbox[s])>>]
  /\ inbox' = [inbox EXCEPT ![s] = Tail(@)]
  /\ UNCHANGED <<loopVars, conn, outbox, reader, recvLoop, errCh, probeVars, writeVars,
                 spoolVars, sent>>

ErrChUnbuffered(s) == act = "select" /\ s = sess   \* faulty: a channel without buffer
ErrChReady(s) == ~errCh[s]

\* errCh <- err
ReadError(s) ==
  /\ reader[s] = "read" /\ held[s] = <<>> /\ inbox[s] = <<>> /\ conn[s] # "up"
  /\ ErrChReady(s)
  /\ errCh'  = [errCh EXCEPT ![s] = TRUE]
  /\ reader' = [reader EXCEPT ![s] = "done"]
  /\ UNCHANGED <<loopVars, sockVars, held, recvLoop, probeVars, writeVars, spoolVars, sent>>

NeverFull(s) == FALSE              \* faulty: a channel without bound
LoopFull(s) == Len(recvLoop[s]) >= LoopCap

\* Faulty: select with a default, which drops the message.
PassOnOrDrop(s) ==
  /\ held[s] # <<>>
  /\ recvLoop' = IF LoopFull(s) THEN recvLoop ELSE [recvLoop EXCEPT ![s] = @ \o held[s]]
  /\ held' = [held EXCEPT ![s] = <<>>]
  /\ UNCHANGED <<loopVars, sockVars, reader, errCh, probeVars, writeVars, spoolVars, sent>>

\* recvLoop <- data
PassOn(s) ==
  /\ held[s] # <<>> /\ ~LoopFull(s)
  /\ recvLoop' = [recvLoop EXCEPT ![s] = @ \o held[s]]
  /\ held' = [held EXCEPT ![s] = <<>>]
  /\ UNCHANGED <<loopVars, sockVars, reader, errCh, probeVars, writeVars, spoolVars, sent>>

ReaderNext(s) == ReadMessage(s) \/ ReadError(s) \/ PassOn(s)

-----------------------------------------------------------------------------
(* The select of the session goroutine.                                    *)

\* case err := <-errCh: messages that still wait in recvLoop are not handled.
TakeErr ==
  /\ act = "select" /\ errCh[sess]
  /\ errCh' = [errCh EXCEPT ![sess] = FALSE]
  /\ SessionEnds
  /\ UNCHANGED <<sess, reader, held, recvLoop, probeVars, writeVars, spoolVars, sent>>

\* case pr := <-pairingCh, or the ticker with an update's result to report.
Announce ==
  /\ act = "select"
  /\ act' = "write" /\ CallWrite(Loop)
  /\ UNCHANGED <<sess, sockVars, readVars, probeVars, wmu, spoolVars, sent>>

\* case data := <-recvLoop, for a message of one of the given types.
Take(types) ==
  /\ act = "select" /\ recvLoop[sess] # <<>> /\ Head(recvLoop[sess]).type \in types
  /\ recvLoop' = [recvLoop EXCEPT ![sess] = Tail(@)]
  /\ UNCHANGED <<sess, reader, held, errCh, wmu, sent>>

SetPrinters(list) == printers' = [printers EXCEPT ![sess] = list]

\* The list is replaced, and the first config starts printer health.
Config ==
  /\ Take({"config"})
  /\ SetPrinters(Head(recvLoop[sess]).printers)
  /\ probing' = [probing EXCEPT ![sess] = TRUE]
  /\ UNCHANGED <<act, sockVars, writing, spoolVars>>

\* Known printers are changed in place, new ones appended.
ConfigUpdate ==
  /\ Take({"config_update"})
  /\ SetPrinters(printers[sess] \cup Head(recvLoop[sess]).printers)
  /\ UNCHANGED <<act, sockVars, probing, writing, spoolVars>>

\* handlePrintJobV3, as far as its Enqueue, or its return if the message does not
\* unmarshal: then the job is dropped, and the select goes on.
PrintJob ==
  /\ Take({"print_job"})
  /\ act' \in {"enqueue", act}
  /\ UNCHANGED <<sockVars, probeVars, writing, spoolVars>>

\* The messages the session goroutine serves itself, printing included.  An
\* order is answered if it can be decoded and is for printers in the list, a
\* service call never.
Serve ==
  \/ /\ \/ Take({"print_test", "verify_claim", "update"})
        \/ Take({"print_order"}) /\ printers[sess] # {}
     /\ act' = "write" /\ CallWrite(Loop)
     /\ UNCHANGED <<sockVars, probeVars, spoolVars>>
  \/ /\ Take({"print_order", "print_service_call"})
     /\ UNCHANGED <<act, sockVars, probeVars, writing, spoolVars>>

\* The session returns; health, if it has started, finds no printers any more.
Unpaired ==
  /\ Take({"unpaired"})
  /\ SetPrinters({})
  /\ SessionEnds
  /\ UNCHANGED <<probing, writing, spoolVars>>

TakeMessage == Config \/ ConfigUpdate \/ PrintJob \/ Serve \/ Unpaired

-----------------------------------------------------------------------------
(* The spooler, and printer health of session s.                           *)

Enqueue ==
  /\ act = "enqueue" /\ Len(queue) < QueueCap
  /\ queue' = Append(queue, sess)
  /\ act' = "select"
  /\ UNCHANGED <<sess, sockVars, readVars, probeVars, writeVars, cur, sent>>

\* A job is taken, printed, and acknowledged with the writeConn of the session
\* that brought it.
TakeJob ==
  /\ cur = 0 /\ queue # <<>>
  /\ cur' = Head(queue) /\ queue' = Tail(queue)
  /\ CallWrite(Spooler)
  /\ UNCHANGED <<loopVars, sockVars, readVars, probeVars, wmu, sent>>

\* <-t.C: the printers in the list are probed; what became of it is reported.
Probe(s) ==
  /\ probing[s] /\ writing[s] = "no" /\ printers[s] # {}
  /\ CallWrite(s)
  /\ UNCHANGED <<loopVars, sockVars, readVars, probeVars, wmu, spoolVars, sent>>

-----------------------------------------------------------------------------
(* The cloud and the network.                                              *)

CloudSends(m) ==
  /\ act \notin {"away", "hello"} /\ conn[sess] = "up"
  /\ Len(inbox[sess]) < SocketCap /\ sent < MaxMessages
  /\ inbox' = [inbox EXCEPT ![sess] = Append(@, m)]
  /\ sent' = sent + 1
  /\ UNCHANGED <<loopVars, conn, outbox, readVars, probeVars, writeVars, spoolVars>>

CloudReads(s) ==
  /\ outbox[s] > 0
  /\ outbox' = [outbox EXCEPT ![s] = @ - 1]
  /\ UNCHANGED <<loopVars, conn, inbox, readVars, probeVars, writeVars, spoolVars, sent>>

\* The cloud closes, or TCP gives up; the last messages may not arrive.
Break ==
  /\ sess # 0 /\ conn[sess] = "up"
  /\ conn' = [conn EXCEPT ![sess] = "broken"]
  /\ \E n \in 0 .. Len(inbox[sess]) : inbox' = [inbox EXCEPT ![sess] = SubSeq(@, 1, n)]
  /\ outbox' = [outbox EXCEPT ![sess] = 0]
  /\ UNCHANGED <<loopVars, readVars, probeVars, writeVars, spoolVars, sent>>

Next ==
  \/ Dial \/ HelloAnswered \/ HelloFails
  \/ \E s \in Sessions : ReaderNext(s) \/ Probe(s) \/ CloudReads(s)
  \/ TakeErr \/ Announce \/ TakeMessage
  \/ Enqueue \/ TakeJob
  \/ \E w \in Writers : TakeMutex(w) \/ Write(w)
  \/ \E m \in Inputs : CloudSends(m)
  \/ Break

\* The goroutines run.  A select takes one of its ready cases at random, and a
\* mutex serves its waiters in turn: these are strongly fair.
\* The cloud answers the handshake or is cut off, and reads what it is sent.
Fairness ==
  /\ WF_vars(HelloAnswered \/ HelloFails)
  /\ \A s \in Sessions : WF_vars(ReaderNext(s)) /\ WF_vars(CloudReads(s))
  /\ SF_vars(TakeErr) /\ SF_vars(TakeMessage)
  /\ WF_vars(Enqueue) /\ WF_vars(TakeJob)
  /\ \A w \in Writers : SF_vars(TakeMutex(w)) /\ WF_vars(Write(w))

Safety == Init /\ [][Next]_vars
Spec   == Safety /\ Fairness

-----------------------------------------------------------------------------
(* What the session promises.                                              *)

\* "interleaved frames silently corrupt the stream": no two goroutines are
\* inside WriteMessage of one connection, be they of this session or an old one.
FramesWhole ==
  \A v, w \in Writers :
    v # w /\ writing[v] = "write" /\ writing[w] = "write" => ConnOf(v) # ConnOf(w)

\* Messages are handled in order and without a gap, through socket, reader and
\* channel; only a suffix is lost, when the connection or the session ends.
Feed == INSTANCE MessageFeed
  WITH number  <- sess,
       open    <- act # "away",
       up      <- act # "away" /\ conn[sess] = "up",
       backlog <- IF act = "away" THEN <<>> ELSE recvLoop[sess] \o held[sess] \o inbox[sess],
       Messages <- Inputs

ImplementsFeed == Feed!Spec

\* A lost connection is noticed and closed, whatever its session goroutine was
\* waiting for, and its reader ends unless it has left a full recvLoop behind.
WindsUp ==
  \A s \in Sessions :
    conn[s] \in {"broken", "closed"}
      ~> conn[s] = "closed" /\ (reader[s] # "read" \/ LoopFull(s))

\* Spooler and session goroutine do not wait for ever for a mutex, a socket or
\* the queue, as long as the cloud reads: nor do they for each other.
NobodyStuck ==
  /\ writing[Spooler] # "no" ~> writing[Spooler] = "no"
  /\ act \in {"hello", "write", "enqueue"} ~> act \in {"select", "away"}
=============================================================================
