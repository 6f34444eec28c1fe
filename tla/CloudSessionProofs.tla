------------------------- MODULE CloudSessionProofs -------------------------
(***************************************************************************)
(* Proofs about CloudSession, for any number of sessions, any capacity of  *)
(* channels and sockets and any messages.                                  *)
(***************************************************************************)
EXTENDS CloudSession, SequenceTheorems, TLAPS

\* The part of the types that the mutexes depend on.
CallTypes ==
  /\ sess \in 0 .. MaxSessions
  /\ act \in {"away", "hello", "select", "write", "enqueue"}
  /\ wmu \in [Sessions -> Writers \cup {Nobody}]
  /\ writing \in [Writers -> {"no", "lock", "write"}]
  /\ queue \in Seq(Sessions) /\ cur \in 0 .. MaxSessions

\* A goroutine is in a call of WriteMessage exactly when it says so, so that
\* the connection it writes to does not change under the call; and inside the
\* call it holds the mutex of that connection.
WriteInv ==
  /\ CallTypes
  /\ act # "away" => sess # 0
  /\ writing[Loop] # "no" <=> act = "write"
  /\ writing[Spooler] # "no" <=> cur # 0
  /\ \A w \in Writers : writing[w] = "write" => wmu[ConnOf(w)] = w

-----------------------------------------------------------------------------

\* The writers are told apart, and each writes to a connection.
LEMMA WriterFacts ==
  /\ Loop \in Writers /\ Spooler \in Writers /\ Loop # Spooler
  /\ Loop \notin Sessions /\ Spooler \notin Sessions /\ Nobody \notin Writers
  /\ \A s \in Sessions : s \in Writers
BY SessionAssumption DEF Writers, Sessions

LEMMA ConnFacts ==
  /\ ConnOf(Loop) = sess /\ ConnOf(Spooler) = cur
  /\ \A s \in Sessions : ConnOf(s) = s
BY WriterFacts DEF ConnOf

LEMMA ConnFactsNext ==
  /\ ConnOf(Loop)' = sess' /\ ConnOf(Spooler)' = cur'
  /\ \A s \in Sessions : ConnOf(s)' = s
BY WriterFacts DEF ConnOf

\* A step that moves no call and no connection of a call keeps the invariant.
LEMMA Undisturbed ==
  ASSUME WriteInv, UNCHANGED <<wmu, writing, cur>>,
         act = "write" <=> act' = "write", act = "write" => sess' = sess,
         CallTypes', act' # "away" => sess' # 0
  PROVE  WriteInv'
<1>1. ASSUME NEW w \in Writers, writing'[w] = "write" PROVE wmu'[ConnOf(w)'] = w
  BY <1>1, WriterFacts, ConnFacts, ConnFactsNext DEF WriteInv, Writers
<1> QED
  BY <1>1 DEF WriteInv

\* A step that only begins the call of a writer keeps it, too.
LEMMA CallBegins ==
  ASSUME WriteInv, NEW w \in Writers, writing[w] = "no", CallWrite(w), UNCHANGED wmu,
         w = Loop => act' = "write" /\ sess' = sess /\ act = "select",
         w # Loop => UNCHANGED <<act, sess>>,
         w = Spooler => cur' # 0,
         w # Spooler => UNCHANGED cur,
         CallTypes'
  PROVE  WriteInv'
<1>1. ASSUME NEW v \in Writers, writing'[v] = "write" PROVE wmu'[ConnOf(v)'] = v
  BY <1>1, WriterFacts, ConnFacts, ConnFactsNext DEF WriteInv, CallTypes, CallWrite, Writers
<1>2. writing' = [writing EXCEPT ![w] = "lock"] /\ writing \in [Writers -> {"no", "lock", "write"}]
  BY DEF CallWrite, WriteInv, CallTypes
<1>3. writing'[Loop] # "no" <=> act' = "write"
  BY <1>2, WriterFacts DEF WriteInv
<1>4. writing'[Spooler] # "no" <=> cur' # 0
  BY <1>2, WriterFacts DEF WriteInv
<1>5. act' # "away" => sess' # 0
  BY DEF WriteInv
<1> QED
  BY <1>1, <1>3, <1>4, <1>5 DEF WriteInv

LEMMA InitWrites == Init => WriteInv
<1> SUFFICES ASSUME Init PROVE WriteInv
  OBVIOUS
<1>1. CallTypes
  BY SessionAssumption DEF Init, CallTypes, Writers, Sessions
<1> QED
  BY <1>1, WriterFacts DEF Init, WriteInv

LEMMA MutexKept == ASSUME WriteInv, NEW w \in Writers, TakeMutex(w) PROVE WriteInv'
<1>1. ConnOf(w) \in Sessions /\ UNCHANGED <<sess, act, cur, queue>>
  BY WriterFacts, ConnFacts DEF TakeMutex, WriteInv, CallTypes, Writers, Sessions, loopVars, spoolVars
<1>2. writing' = [writing EXCEPT ![w] = "write"] /\ wmu' = [wmu EXCEPT ![ConnOf(w)] = w]
  BY DEF TakeMutex
<1>3. wmu[ConnOf(w)] = Nobody /\ writing[w] = "lock"
  BY DEF TakeMutex, MutexFree
<1>4. CallTypes'
  BY <1>1, <1>2 DEF WriteInv, CallTypes
<1>5. ASSUME NEW v \in Writers, writing'[v] = "write" PROVE wmu'[ConnOf(v)'] = v
  <2>1. ConnOf(v)' = ConnOf(v)
    BY <1>1 DEF ConnOf
  <2>2. CASE v = w
    BY <1>1, <1>2, <2>1, <2>2 DEF WriteInv, CallTypes
  <2>3. CASE v # w
    <3>1. wmu[ConnOf(v)] = v
      BY <1>2, <1>5, <2>3 DEF WriteInv, CallTypes
    <3>2. ConnOf(v) # ConnOf(w)
      BY <1>3, <3>1, WriterFacts
    <3> QED
      BY <1>1, <1>2, <2>1, <3>1, <3>2 DEF WriteInv, CallTypes
  <2> QED
    BY <2>2, <2>3
<1>6. writing'[Loop] # "no" <=> act' = "write"
  BY <1>1, <1>2, <1>3, WriterFacts DEF WriteInv, CallTypes
<1>7. writing'[Spooler] # "no" <=> cur' # 0
  BY <1>1, <1>2, <1>3, WriterFacts DEF WriteInv, CallTypes
<1> QED
  BY <1>1, <1>4, <1>5, <1>6, <1>7 DEF WriteInv

LEMMA WriteKept == ASSUME WriteInv, NEW w \in Writers, Write(w) PROVE WriteInv'
<1>1. writing[w] = "write" /\ writing' = [writing EXCEPT ![w] = "no"]
  BY DEF Write, WriteReturns
<1>2. wmu' = [wmu EXCEPT ![ConnOf(w)] = Nobody] /\ UNCHANGED <<sess, queue>>
  BY DEF Write, Unlock
<1>3. act' = (IF w = Loop THEN "select" ELSE act) /\ cur' = (IF w = Spooler THEN 0 ELSE cur)
  BY DEF Write, WriteReturns
<1>4. CallTypes'
  <2>1. act' \in {"away", "hello", "select", "write", "enqueue"}
    BY <1>3 DEF WriteInv, CallTypes
  <2>2. cur' \in 0 .. MaxSessions
    BY <1>3, SessionAssumption DEF WriteInv, CallTypes
  <2> QED
    BY <1>1, <1>2, <2>1, <2>2 DEF WriteInv, CallTypes
<1>5. ASSUME NEW v \in Writers, writing'[v] = "write" PROVE wmu'[ConnOf(v)'] = v
  <2>1. v # w /\ writing[v] = "write"
    BY <1>1, <1>5 DEF WriteInv, CallTypes
  <2>2. ConnOf(v)' = ConnOf(v)
    BY <1>2, <1>3, <2>1 DEF ConnOf
  <2>3. wmu[ConnOf(v)] = v /\ wmu[ConnOf(w)] = w
    BY <1>1, <2>1 DEF WriteInv
  <2>4. ConnOf(v) \in Sessions /\ ConnOf(v) # ConnOf(w)
    BY <2>1, <2>3, WriterFacts, ConnFacts DEF WriteInv, CallTypes, Writers, Sessions
  <2> QED
    BY <1>2, <2>2, <2>3, <2>4 DEF WriteInv, CallTypes
<1>6. writing'[Loop] # "no" <=> act' = "write"
  BY <1>1, <1>3, WriterFacts DEF WriteInv, CallTypes
<1>7. writing'[Spooler] # "no" <=> cur' # 0
  BY <1>1, <1>3, WriterFacts DEF WriteInv, CallTypes
<1>8. act' # "away" => sess' # 0
  BY <1>1, <1>2, <1>3 DEF WriteInv
<1> QED
  BY <1>4, <1>5, <1>6, <1>7, <1>8 DEF WriteInv

\* What the session goroutine does with a message.
LEMMA TakeMessageKept == WriteInv /\ TakeMessage => WriteInv'
<1> SUFFICES ASSUME WriteInv, TakeMessage PROVE WriteInv'
  OBVIOUS
<1>1. act = "select" /\ UNCHANGED <<sess, wmu>> /\ writing[Loop] = "no"
  BY DEF TakeMessage, Config, ConfigUpdate, PrintJob, Serve, Unpaired, Take, WriteInv
<1>2. UNCHANGED <<queue, cur>>
  BY DEF TakeMessage, Config, ConfigUpdate, PrintJob, Serve, Unpaired, spoolVars
<1>3. \/ act' = "write" /\ CallWrite(Loop)
      \/ act' \in {"select", "enqueue", "away"} /\ UNCHANGED writing
  BY <1>1 DEF TakeMessage, Config, ConfigUpdate, PrintJob, Serve, Unpaired, SessionEnds
<1>4. CallTypes'
  BY <1>1, <1>2, <1>3, WriterFacts DEF WriteInv, CallTypes, CallWrite
<1> QED
  BY <1>1, <1>2, <1>3, <1>4, CallBegins, Undisturbed, WriterFacts DEF WriteInv

LEMMA WritesKept == WriteInv /\ [Next]_vars => WriteInv'
<1> SUFFICES ASSUME WriteInv, [Next]_vars PROVE WriteInv'
  OBVIOUS
<1> USE DEF loopVars, writeVars, spoolVars
<1>1. CASE Dial
  <2>1. CallTypes'
    BY <1>1, SessionAssumption DEF Dial, WriteInv, CallTypes
  <2> QED
    BY <1>1, <2>1, Undisturbed DEF Dial, WriteInv, CallTypes
<1>2. CASE HelloAnswered
  BY <1>2, Undisturbed DEF HelloAnswered, WriteInv, CallTypes
<1>3. CASE HelloFails
  BY <1>3, Undisturbed DEF HelloFails, SessionEnds, WriteInv, CallTypes
<1>4. ASSUME NEW s \in Sessions, ReaderNext(s) PROVE WriteInv'
  BY <1>4, Undisturbed DEF ReaderNext, ReadMessage, ReadError, PassOn, WriteInv, CallTypes
<1>5. ASSUME NEW s \in Sessions, Probe(s) PROVE WriteInv'
  <2>1. writing[s] = "no" /\ CallWrite(s) /\ UNCHANGED <<wmu, sess, act, queue, cur>>
    BY <1>5 DEF Probe
  <2>2. CallTypes'
    BY <2>1, WriterFacts DEF WriteInv, CallTypes, CallWrite
  <2> QED
    BY <2>1, <2>2, CallBegins, WriterFacts
<1>6. ASSUME NEW s \in Sessions, CloudReads(s) PROVE WriteInv'
  BY <1>6, Undisturbed DEF CloudReads, WriteInv, CallTypes
<1>7. CASE TakeErr
  BY <1>7, Undisturbed DEF TakeErr, SessionEnds, WriteInv, CallTypes
<1>8. CASE Announce
  <2>1. CallTypes' /\ writing[Loop] = "no"
    BY <1>8, WriterFacts DEF Announce, WriteInv, CallTypes, CallWrite
  <2> QED
    BY <1>8, <2>1, CallBegins, WriterFacts DEF Announce
<1>9. CASE TakeMessage
  BY <1>9, TakeMessageKept
<1>10. CASE Enqueue
  <2>1. sess \in Sessions /\ queue \in Seq(Sessions)
    BY <1>10 DEF Enqueue, WriteInv, CallTypes, Sessions
  <2>2. Append(queue, sess) \in Seq(Sessions)
    BY <2>1, AppendProperties
  <2> QED
    BY <1>10, <2>2, Undisturbed DEF Enqueue, WriteInv, CallTypes
<1>11. CASE TakeJob
  <2>1. Head(queue) \in Sessions /\ Tail(queue) \in Seq(Sessions)
    BY <1>11, HeadTailProperties DEF TakeJob, WriteInv, CallTypes
  <2>2. Head(queue) # 0 /\ Head(queue) \in 0 .. MaxSessions
    BY <2>1 DEF Sessions
  <2>3. CallTypes' /\ writing[Spooler] = "no"
    BY <1>11, <2>1, <2>2, WriterFacts DEF TakeJob, WriteInv, CallTypes, CallWrite
  <2> QED
    BY <1>11, <2>2, <2>3, CallBegins, WriterFacts DEF TakeJob
<1>12. ASSUME NEW w \in Writers, TakeMutex(w) \/ Write(w) PROVE WriteInv'
  BY <1>12, MutexKept, WriteKept
<1>13. ASSUME NEW m \in Inputs, CloudSends(m) PROVE WriteInv'
  BY <1>13, Undisturbed DEF CloudSends, WriteInv, CallTypes
<1>14. CASE Break
  BY <1>14, Undisturbed DEF Break, WriteInv, CallTypes
<1>15. CASE UNCHANGED vars
  BY <1>15, Undisturbed DEF vars, WriteInv, CallTypes
<1> QED
  BY <1>1, <1>2, <1>3, <1>4, <1>5, <1>6, <1>7, <1>8, <1>9, <1>10, <1>11, <1>12, <1>13, <1>14, <1>15
     DEF Next

LEMMA WritesHold == Safety => []WriteInv
BY InitWrites, WritesKept, PTL DEF Safety

-----------------------------------------------------------------------------
(* The messages.  A later session finds everything empty, and an earlier   *)
(* one is closed.                                                          *)

FeedTypes ==
  /\ conn \in [Sessions -> {"none", "up", "broken", "closed"}]
  /\ inbox \in [Sessions -> Seq(Inputs)]
  /\ held \in [Sessions -> Seq(Inputs)]
  /\ recvLoop \in [Sessions -> Seq(Inputs)]

Untouched(s) == inbox[s] = <<>> /\ held[s] = <<>> /\ recvLoop[s] = <<>>

FeedInv ==
  /\ WriteInv /\ FeedTypes
  /\ act = "away" /\ sess # 0 => conn[sess] = "closed"
  /\ \A s \in Sessions : s > sess => Untouched(s)

\* What has been sent in session s and not been handled.
Waits(s) == recvLoop[s] \o held[s] \o inbox[s]

\* How the steps of reader, cloud and session goroutine change such a sequence.
LEMMA Regrouped ==
  ASSUME NEW M, NEW r \in Seq(M), NEW h \in Seq(M), NEW i \in Seq(M)
  PROVE  /\ i # <<>> => r \o <<Head(i)>> \o Tail(i) = r \o <<>> \o i
         /\ (r \o h) \o <<>> \o i = r \o h \o i
         /\ r # <<>> => r \o h \o i # <<>> /\ Tail(r \o h \o i) = Tail(r) \o h \o i
         /\ \A m \in M : r \o h \o Append(i, m) = Append(r \o h \o i, m)
<1>0. r \o h \in Seq(M) /\ r \o h \o i \in Seq(M) /\ <<>> \in Seq(M)
  BY ConcatProperties, EmptySeq
<1>1. ASSUME i # <<>> PROVE r \o <<Head(i)>> \o Tail(i) = r \o <<>> \o i
  <2>1. Head(i) \in M /\ Tail(i) \in Seq(M) /\ <<Head(i)>> \in Seq(M)
    BY <1>1, HeadTailProperties
  <2>2. <<Head(i)>> \o Tail(i) = i
    BY <1>1
  <2>3. r \o <<Head(i)>> \o Tail(i) = r \o (<<Head(i)>> \o Tail(i))
    BY <2>1, ConcatAssociative
  <2>4. r \o <<>> = r
    BY ConcatEmptySeq
  <2> QED
    BY <2>2, <2>3, <2>4
<1>2. (r \o h) \o <<>> \o i = r \o h \o i
  BY <1>0, ConcatEmptySeq
<1>3. ASSUME r # <<>> PROVE r \o h \o i # <<>> /\ Tail(r \o h \o i) = Tail(r) \o h \o i
  <2>1. Tail(r) \in Seq(M) /\ Len(Tail(r)) = Len(r) - 1 /\ Len(r) \in Nat \ {0}
    BY <1>3, HeadTailProperties, EmptySeq
  <2>2. Tail(r) \o h \in Seq(M) /\ Tail(r) \o h \o i \in Seq(M)
    BY <2>1, ConcatProperties
  <2>3. /\ Len(r \o h \o i) = Len(r) + Len(h) + Len(i)
        /\ Len(Tail(r) \o h \o i) = Len(r) - 1 + Len(h) + Len(i)
        /\ Len(h) \in Nat /\ Len(i) \in Nat
    BY <1>0, <2>1, <2>2, ConcatProperties, LenProperties
  <2>4. r \o h \o i # <<>>
    BY <2>1, <2>3
  <2>5. Tail(r \o h \o i) \in Seq(M) /\ Len(Tail(r \o h \o i)) = Len(r) + Len(h) + Len(i) - 1
    BY <1>0, <2>3, <2>4, HeadTailProperties
  <2>6. ASSUME NEW j \in 1 .. Len(Tail(r \o h \o i))
        PROVE  Tail(r \o h \o i)[j] = (Tail(r) \o h \o i)[j]
    <3>1. Tail(r \o h \o i)[j] = (r \o h \o i)[j + 1]
      BY <1>0, <2>4, HeadTailProperties
    <3>2. (r \o h \o i)[j + 1] = IF j + 1 <= Len(r) + Len(h) THEN (r \o h)[j + 1] ELSE i[j + 1 - (Len(r) + Len(h))]
      BY <1>0, <2>1, <2>3, <2>5, ConcatProperties
    <3>3. (Tail(r) \o h \o i)[j] = IF j <= Len(r) - 1 + Len(h) THEN (Tail(r) \o h)[j] ELSE i[j - (Len(r) - 1 + Len(h))]
      BY <2>1, <2>2, <2>3, <2>5, ConcatProperties
    <3>4. ASSUME j + 1 <= Len(r) + Len(h) PROVE (r \o h)[j + 1] = (Tail(r) \o h)[j]
      <4>1. (r \o h)[j + 1] = IF j + 1 <= Len(r) THEN r[j + 1] ELSE h[j + 1 - Len(r)]
        BY <2>1, <2>3, <3>4, ConcatProperties
      <4>2. (Tail(r) \o h)[j] = IF j <= Len(r) - 1 THEN Tail(r)[j] ELSE h[j - (Len(r) - 1)]
        BY <2>1, <2>3, <3>4, ConcatProperties
      <4>3. j <= Len(r) - 1 => Tail(r)[j] = r[j + 1]
        BY <1>3, <2>1, HeadTailProperties
      <4>4. j + 1 - Len(r) = j - (Len(r) - 1) /\ (j + 1 <= Len(r) <=> j <= Len(r) - 1)
        BY <2>1, <2>5
      <4>5. CASE j + 1 <= Len(r)
        BY <4>1, <4>2, <4>3, <4>4, <4>5
      <4>6. CASE ~(j + 1 <= Len(r))
        BY <4>1, <4>2, <4>4, <4>6
      <4> QED
        BY <4>5, <4>6
    <3> QED
      BY <2>1, <2>3, <3>1, <3>2, <3>3, <3>4
  <2> QED
    BY <2>2, <2>3, <2>4, <2>5, <2>6, SeqEqual
<1>4. ASSUME NEW m \in M PROVE r \o h \o Append(i, m) = Append(r \o h \o i, m)
  <2>1. <<m>> \in Seq(M) /\ Append(i, m) = i \o <<m>> /\ Append(r \o h \o i, m) = r \o h \o i \o <<m>>
    BY <1>0, AppendIsConcat
  <2> QED
    BY <1>0, <2>1, ConcatAssociative
<1> QED
  BY <1>1, <1>2, <1>3, <1>4

\* What is left of it when the last messages in the socket are lost.
LEMMA Shortened ==
  ASSUME NEW r \in Seq(Inputs), NEW h \in Seq(Inputs), NEW i \in Seq(Inputs), NEW n \in 0 .. Len(i)
  PROVE  \E k \in 0 .. Len(r \o h \o i) : r \o h \o SubSeq(i, 1, n) = SubSeq(r \o h \o i, 1, k)
<1>0. r \o h \in Seq(Inputs) /\ r \o h \o i \in Seq(Inputs)
  BY ConcatProperties
<1> DEFINE l == Len(r \o h)
           k == l + n
           t == SubSeq(i, 1, n)
<1>1. l \in Nat /\ Len(i) \in Nat /\ Len(r \o h \o i) = l + Len(i) /\ n \in Nat /\ n <= Len(i)
  BY <1>0, LenProperties, ConcatProperties
<1>2. t \in Seq(Inputs) /\ Len(t) = n /\ \A j \in 1 .. n : t[j] = i[j]
  BY <1>1, ElementOfSeq, SubSeqProperties
<1>3. r \o h \o t \in Seq(Inputs) /\ Len(r \o h \o t) = k
  <2> HIDE DEF t
  <2>1. r \o h \o t \in Seq(Inputs) /\ Len(r \o h \o t) = Len(r \o h) + Len(t)
    BY <1>0, <1>2, ConcatProperties
  <2> QED
    BY <1>2, <2>1
<1>4. k \in Nat /\ k <= Len(r \o h \o i) /\ \A j \in 1 .. k : (r \o h \o i)[j] \in Inputs
  BY <1>0, <1>1, ElementOfSeq
<1>5. /\ SubSeq(r \o h \o i, 1, k) \in Seq(Inputs) /\ Len(SubSeq(r \o h \o i, 1, k)) = k
      /\ \A j \in 1 .. k : SubSeq(r \o h \o i, 1, k)[j] = (r \o h \o i)[j]
  BY <1>4, SubSeqProperties
<1>6. ASSUME NEW j \in 1 .. k PROVE (r \o h \o t)[j] = (r \o h \o i)[j]
  <2>1. (r \o h \o t)[j] = IF j <= l THEN (r \o h)[j] ELSE t[j - l]
    BY <1>0, <1>1, <1>2, ConcatProperties
  <2>2. (r \o h \o i)[j] = IF j <= l THEN (r \o h)[j] ELSE i[j - l]
    BY <1>0, <1>1, ConcatProperties
  <2> QED
    BY <1>1, <1>2, <2>1, <2>2
<1>7. r \o h \o t = SubSeq(r \o h \o i, 1, k)
  BY <1>3, <1>5, <1>6, SeqEqual
<1>8. k \in 0 .. Len(r \o h \o i)
  BY <1>4, <1>1
<1> HIDE DEF k, t
<1> QED
  BY <1>7, <1>8, Zenon DEF t

LEMMA InitFeed == Init => FeedInv
<1> SUFFICES ASSUME Init PROVE FeedInv
  OBVIOUS
<1>1. FeedTypes /\ \A s \in Sessions : Untouched(s)
  BY EmptySeq DEF Init, FeedTypes, Untouched
<1> QED
  BY <1>1, InitWrites DEF Init, FeedInv

\* A prefix of what is in the socket.
LEMMA PrefixType ==
  ASSUME NEW i \in Seq(Inputs), NEW n \in 0 .. Len(i)
  PROVE  SubSeq(i, 1, n) \in Seq(Inputs)
<1>1. Len(i) \in Nat /\ n \in Nat /\ n <= Len(i)
  BY LenProperties
<1>2. \A j \in 1 .. n : i[j] \in Inputs
  BY <1>1, ElementOfSeq
<1> QED
  BY <1>1, <1>2, SubSeqProperties

\* A session ends only from the select or the handshake; it leaves its socket
\* with a prefix and the connection closed.
LEMMA EndKept ==
  ASSUME FeedInv, SessionEnds, WriteInv', act # "away", UNCHANGED <<sess, held>>,
         FeedTypes => recvLoop' \in [Sessions -> Seq(Inputs)],
         \A s \in Sessions : s # sess => recvLoop'[s] = recvLoop[s]
  PROVE  FeedInv'
<1>1. sess \in Sessions /\ sess \in Nat
  BY DEF FeedInv, WriteInv, CallTypes, Sessions
<1>2. PICK n \in 0 .. Len(inbox[sess]) : inbox' = [inbox EXCEPT ![sess] = SubSeq(@, 1, n)]
  BY DEF SessionEnds
<1>3. inbox' \in [Sessions -> Seq(Inputs)]
  BY <1>1, <1>2, PrefixType DEF FeedInv, FeedTypes
<1>4. FeedTypes'
  BY <1>3 DEF SessionEnds, FeedInv, FeedTypes
<1>5. ASSUME NEW s \in Sessions, s > sess' PROVE Untouched(s)'
  BY <1>1, <1>2, <1>5 DEF FeedInv, FeedTypes, Untouched, Sessions
<1> QED
  BY <1>1, <1>4, <1>5 DEF SessionEnds, FeedInv, FeedTypes

LEMMA TakeFacts ==
  ASSUME FeedInv, NEW types, Take(types)
  PROVE  /\ act = "select" /\ sess \in Sessions /\ recvLoop[sess] # <<>>
         /\ UNCHANGED <<sess, held>>
         /\ recvLoop' = [recvLoop EXCEPT ![sess] = Tail(recvLoop[sess])]
         /\ recvLoop' \in [Sessions -> Seq(Inputs)]
<1>1. sess \in Sessions /\ act = "select" /\ recvLoop[sess] # <<>>
  BY DEF Take, FeedInv, WriteInv, CallTypes, Sessions
<1>2. Tail(recvLoop[sess]) \in Seq(Inputs)
  BY <1>1, HeadTailProperties DEF FeedInv, FeedTypes
<1> QED
  BY <1>1, <1>2 DEF Take, FeedInv, FeedTypes

LEMMA FeedKept == FeedInv /\ [Next]_vars => FeedInv'
<1> SUFFICES ASSUME FeedInv, [Next]_vars PROVE FeedInv'
  OBVIOUS
<1>0. WriteInv'
  BY WritesKept DEF FeedInv
<1>a. sess \in Nat /\ Sessions \subseteq Nat /\ (act # "away" => sess \in Sessions)
  BY DEF FeedInv, WriteInv, CallTypes, Sessions
<1> USE DEF FeedInv, FeedTypes, Untouched, sockVars, readVars, loopVars
<1>1. CASE Dial
  <2>1. sess + 1 \in Sessions
    BY <1>1, <1>a, SessionAssumption DEF Dial, Sessions
  <2>2. FeedTypes'
    BY <1>1 DEF Dial
  <2>3. act' # "away" /\ sess' = sess + 1 /\ UNCHANGED <<inbox, held, recvLoop>>
    BY <1>1 DEF Dial
  <2>4. ASSUME NEW s \in Sessions, s > sess' PROVE Untouched(s)'
    BY <1>a, <2>3, <2>4
  <2> QED
    BY <1>0, <2>2, <2>3, <2>4
<1>2. CASE HelloAnswered
  BY <1>0, <1>2 DEF HelloAnswered
<1>3. CASE HelloFails
  BY <1>0, <1>3, EndKept DEF HelloFails
<1>4. ASSUME NEW s \in Sessions, ReadMessage(s) PROVE FeedInv'
  <2>1. ~(s > sess) /\ inbox[s] # <<>> /\ inbox[s] \in Seq(Inputs)
    BY <1>4 DEF ReadMessage
  <2>2. <<Head(inbox[s])>> \in Seq(Inputs) /\ Tail(inbox[s]) \in Seq(Inputs)
    BY <2>1, HeadTailProperties
  <2> QED
    BY <1>0, <1>4, <2>1, <2>2 DEF ReadMessage
<1>5. ASSUME NEW s \in Sessions, ReadError(s) PROVE FeedInv'
  BY <1>0, <1>5 DEF ReadError
<1>6. ASSUME NEW s \in Sessions, PassOn(s) PROVE FeedInv'
  <2>1. ~(s > sess)
    BY <1>6 DEF PassOn
  <2>2. recvLoop[s] \o held[s] \in Seq(Inputs) /\ <<>> \in Seq(Inputs)
    BY ConcatProperties, EmptySeq
  <2> QED
    BY <1>0, <1>6, <2>1, <2>2 DEF PassOn
<1>7. ASSUME NEW s \in Sessions, Probe(s) \/ CloudReads(s) PROVE FeedInv'
  BY <1>0, <1>7 DEF Probe, CloudReads
<1>8. CASE TakeErr
  BY <1>0, <1>8, EndKept DEF TakeErr
<1>9. CASE Announce
  BY <1>0, <1>9 DEF Announce
<1>10. CASE TakeMessage
  <2>1. CASE Unpaired
    <3>1. Take({"unpaired"}) /\ SessionEnds
      BY <2>1 DEF Unpaired
    <3>2. /\ act = "select" /\ sess \in Sessions /\ UNCHANGED <<sess, held>>
          /\ recvLoop' = [recvLoop EXCEPT ![sess] = Tail(recvLoop[sess])]
          /\ recvLoop' \in [Sessions -> Seq(Inputs)]
      BY <3>1, TakeFacts
    <3> QED
      BY <1>0, <3>1, <3>2, EndKept
  <2>2. ASSUME NEW types, Take(types), UNCHANGED sockVars, act' # "away" PROVE FeedInv'
    <3>1. /\ sess \in Sessions /\ UNCHANGED <<sess, held>>
          /\ recvLoop' = [recvLoop EXCEPT ![sess] = Tail(recvLoop[sess])]
          /\ recvLoop' \in [Sessions -> Seq(Inputs)]
      BY <2>2, TakeFacts
    <3> QED
      BY <1>0, <2>2, <3>1
  <2>3. act = "select"
    BY <1>10 DEF TakeMessage, Config, ConfigUpdate, PrintJob, Serve, Unpaired, Take
  <2> QED
    BY <1>10, <2>1, <2>2, <2>3 DEF TakeMessage, Config, ConfigUpdate, PrintJob, Serve
<1>11. CASE Enqueue \/ TakeJob
  BY <1>0, <1>11 DEF Enqueue, TakeJob
<1>12. ASSUME NEW w \in Writers, TakeMutex(w) \/ Write(w) PROVE FeedInv'
  <2>1. UNCHANGED <<sess, conn, inbox, held, recvLoop>>
    BY <1>12 DEF TakeMutex, Write
  <2>2. act' = "away" => act = "away"
    BY <1>12 DEF TakeMutex, Write, WriteReturns
  <2> QED
    BY <1>0, <2>1, <2>2
<1>13. ASSUME NEW m \in Inputs, CloudSends(m) PROVE FeedInv'
  <2>1. act # "away" /\ Append(inbox[sess], m) \in Seq(Inputs)
    BY <1>13, <1>a, AppendProperties DEF CloudSends
  <2> QED
    BY <1>0, <1>13, <1>a, <2>1 DEF CloudSends
<1>14. CASE Break
  <2>1. act # "away"
    BY <1>14 DEF Break
  <2>2. PICK n \in 0 .. Len(inbox[sess]) : inbox' = [inbox EXCEPT ![sess] = SubSeq(@, 1, n)]
    BY <1>14 DEF Break
  <2>3. SubSeq(inbox[sess], 1, n) \in Seq(Inputs)
    BY <1>a, <2>1, PrefixType
  <2> QED
    BY <1>0, <1>14, <1>a, <2>1, <2>2, <2>3 DEF Break
<1>15. CASE UNCHANGED vars
  BY <1>0, <1>15 DEF vars
<1> QED
  BY <1>1, <1>2, <1>3, <1>4, <1>5, <1>6, <1>7, <1>8, <1>9, <1>10, <1>11, <1>12, <1>13, <1>14, <1>15
     DEF Next, ReaderNext

LEMMA FeedHolds == Safety => []FeedInv
BY InitFeed, FeedKept, PTL DEF Safety

-----------------------------------------------------------------------------
(* What the channels, the sockets and the rest hold.                       *)

\* No channel takes more than its capacity, and the reader has one message at
\* a time in hand.
RoomInv ==
  /\ \A s \in Sessions : Len(held[s]) <= 1 /\ Len(recvLoop[s]) <= LoopCap
  /\ Len(queue) <= QueueCap

\* The variables that neither mutexes nor messages depend on.
RestTypes ==
  /\ outbox   \in [Sessions -> 0 .. SocketCap]
  /\ reader   \in [Sessions -> {"off", "read", "done"}]
  /\ errCh    \in [Sessions -> BOOLEAN]
  /\ printers \in [Sessions -> SUBSET Ids]
  /\ probing  \in [Sessions -> BOOLEAN]
  /\ sent     \in 0 .. MaxMessages

TypeInv == FeedInv /\ RoomInv /\ RestTypes

LEMMA TypeParts == TypeInv => TypeOK
BY DEF TypeInv, FeedInv, WriteInv, CallTypes, FeedTypes, RoomInv, RestTypes, TypeOK

LEMMA TypeInit == Init => TypeInv
<1> SUFFICES ASSUME Init PROVE RoomInv /\ RestTypes
  BY InitFeed DEF TypeInv
<1>1. RoomInv
  BY SessionAssumption DEF Init, RoomInv
<1>2. RestTypes
  BY SessionAssumption DEF Init, RestTypes
<1> QED
  BY <1>1, <1>2

\* Only the reader fills the channel of a session, and only when it has room.
LEMMA RoomKept == ASSUME TypeInv, [Next]_vars PROVE RoomInv'
<1>0. /\ sess \in 0 .. MaxSessions /\ (act # "away" => sess \in Sessions)
      /\ held \in [Sessions -> Seq(Inputs)] /\ recvLoop \in [Sessions -> Seq(Inputs)]
      /\ queue \in Seq(Sessions) /\ LoopCap \in Nat \ {0} /\ QueueCap \in Nat \ {0}
  BY SessionAssumption DEF TypeInv, FeedInv, WriteInv, CallTypes, FeedTypes, Sessions
<1>r. RoomInv
  BY DEF TypeInv
<1> USE DEF readVars, spoolVars
<1>1. ASSUME UNCHANGED <<held, recvLoop, queue>> PROVE RoomInv'
  BY <1>r, <1>1 DEF RoomInv
<1>2. ASSUME NEW s \in Sessions, ReadMessage(s) PROVE RoomInv'
  <2>1. Len(<<Head(inbox[s])>>) = 1
    OBVIOUS
  <2> QED
    BY <1>0, <1>r, <1>2, <2>1 DEF ReadMessage, RoomInv
<1>3. ASSUME NEW s \in Sessions, PassOn(s) PROVE RoomInv'
  <2>1. Len(recvLoop[s]) < LoopCap /\ Len(held[s]) <= 1
    BY <1>0, <1>r, <1>3, LenProperties DEF PassOn, LoopFull, RoomInv
  <2>2. Len(recvLoop[s] \o held[s]) <= LoopCap
    BY <1>0, <2>1, ConcatProperties, LenProperties
  <2>3. Len(<<>>) <= 1
    OBVIOUS
  <2> QED
    BY <1>0, <1>r, <1>3, <2>2, <2>3 DEF PassOn, RoomInv
<1>4. ASSUME NEW types, Take(types), UNCHANGED <<held, queue>> PROVE RoomInv'
  <2>1. /\ sess \in Sessions /\ recvLoop[sess] # <<>>
        /\ recvLoop' = [recvLoop EXCEPT ![sess] = Tail(recvLoop[sess])]
    BY <1>4, TakeFacts DEF TypeInv
  <2>2. Len(Tail(recvLoop[sess])) <= LoopCap
    BY <1>0, <1>r, <2>1, HeadTailProperties, LenProperties DEF RoomInv
  <2> QED
    BY <1>0, <1>r, <1>4, <2>1, <2>2 DEF RoomInv
<1>5. CASE Enqueue
  <2>1. Len(Append(queue, sess)) <= QueueCap
    BY <1>0, <1>5, AppendProperties, LenProperties DEF Enqueue
  <2> QED
    BY <1>r, <1>5, <2>1 DEF Enqueue, RoomInv
<1>6. CASE TakeJob
  <2>1. Len(Tail(queue)) <= QueueCap
    BY <1>0, <1>r, <1>6, HeadTailProperties, LenProperties DEF TakeJob, RoomInv
  <2> QED
    BY <1>r, <1>6, <2>1 DEF TakeJob, RoomInv
<1>7. CASE TakeMessage
  BY <1>7, <1>4 DEF TakeMessage, Config, ConfigUpdate, PrintJob, Serve, Unpaired, Take
<1>8. CASE Dial \/ HelloAnswered \/ HelloFails \/ TakeErr \/ Announce \/ Break \/ UNCHANGED vars
  BY <1>1, <1>8 DEF Dial, HelloAnswered, HelloFails, TakeErr, Announce, Break, vars
<1>9. ASSUME NEW s \in Sessions, ReadError(s) \/ Probe(s) \/ CloudReads(s) PROVE RoomInv'
  BY <1>1, <1>9 DEF ReadError, Probe, CloudReads
<1>10. ASSUME NEW w \in Writers, TakeMutex(w) \/ Write(w) PROVE RoomInv'
  BY <1>1, <1>10 DEF TakeMutex, Write
<1>11. ASSUME NEW m \in Inputs, CloudSends(m) PROVE RoomInv'
  BY <1>1, <1>11 DEF CloudSends
<1> QED
  BY <1>2, <1>3, <1>5, <1>6, <1>7, <1>8, <1>9, <1>10, <1>11 DEF Next, ReaderNext

\* The printers of a message, if it has any, are known ids.
LEMMA ListType ==
  ASSUME NEW m \in Inputs, m.type \in {"config", "config_update"}
  PROVE  m.printers \in SUBSET Ids
<1>1. m \in Messages
  BY SessionAssumption
<1> QED
  BY <1>1 DEF Messages

LEMMA RestKept == ASSUME TypeInv, [Next]_vars PROVE RestTypes'
<1>0. /\ act # "away" => sess \in Sessions
      /\ recvLoop \in [Sessions -> Seq(Inputs)]
      /\ SocketCap \in Nat /\ MaxMessages \in Nat
  BY SessionAssumption DEF TypeInv, FeedInv, WriteInv, CallTypes, FeedTypes, Sessions
<1>r. RestTypes
  BY DEF TypeInv
<1> USE <1>r DEF RestTypes, loopVars, sockVars, readVars, probeVars, spoolVars
<1>1. ASSUME UNCHANGED <<outbox, reader, errCh, probeVars, sent>> PROVE RestTypes'
  BY <1>1
<1>2. CASE Dial \/ Announce \/ Enqueue \/ TakeJob \/ UNCHANGED vars
  BY <1>1, <1>2 DEF Dial, Announce, Enqueue, TakeJob, vars
<1>3. CASE HelloAnswered
  BY <1>3 DEF HelloAnswered
<1>4. ASSUME SessionEnds PROVE outbox' \in [Sessions -> 0 .. SocketCap]
  <2>1. outbox' = [outbox EXCEPT ![sess] = 0]
    BY <1>4 DEF SessionEnds
  <2>2. 0 \in 0 .. SocketCap
    BY <1>0
  <2> QED
    BY <2>1, <2>2
<1>5. CASE HelloFails
  BY <1>4, <1>5 DEF HelloFails
<1>6. CASE TakeErr
  BY <1>4, <1>6 DEF TakeErr
<1>7. ASSUME NEW s \in Sessions, ReadMessage(s) \/ PassOn(s) \/ Probe(s) PROVE RestTypes'
  BY <1>1, <1>7 DEF ReadMessage, PassOn, Probe
<1>8. ASSUME NEW s \in Sessions, ReadError(s) PROVE RestTypes'
  BY <1>8 DEF ReadError
<1>9. ASSUME NEW s \in Sessions, CloudReads(s) PROVE RestTypes'
  <2>1. outbox[s] - 1 \in 0 .. SocketCap
    BY <1>0, <1>9 DEF CloudReads
  <2> QED
    BY <1>9, <2>1 DEF CloudReads
<1>10. CASE Break
  <2>1. outbox' = [outbox EXCEPT ![sess] = 0] /\ UNCHANGED <<reader, errCh, probeVars, sent>>
    BY <1>10 DEF Break
  <2>2. 0 \in 0 .. SocketCap
    BY <1>0
  <2> QED
    BY <2>1, <2>2
<1>11. ASSUME NEW w \in Writers, TakeMutex(w) PROVE RestTypes'
  BY <1>1, <1>11 DEF TakeMutex
<1>12. ASSUME NEW w \in Writers, Write(w) PROVE RestTypes'
  <2>1. CASE conn[ConnOf(w)] = "up"
    <3>1. outbox[ConnOf(w)] < SocketCap /\ outbox' = [outbox EXCEPT ![ConnOf(w)] = @ + 1]
      BY <1>12, <2>1 DEF Write
    <3>2. ConnOf(w) \in Sessions => outbox[ConnOf(w)] + 1 \in 0 .. SocketCap
      BY <1>0, <3>1
    <3>3. outbox' \in [Sessions -> 0 .. SocketCap]
      BY <3>1, <3>2
    <3> QED
      BY <1>12, <3>3 DEF Write
  <2>2. CASE conn[ConnOf(w)] # "up"
    BY <1>1, <1>12, <2>2 DEF Write
  <2> QED
    BY <2>1, <2>2
<1>13. ASSUME NEW m \in Inputs, CloudSends(m) PROVE RestTypes'
  <2>1. sent' \in 0 .. MaxMessages
    BY <1>0, <1>13 DEF CloudSends
  <2> QED
    BY <1>13, <2>1 DEF CloudSends
<1>14. CASE TakeMessage
  <2>1. act = "select" /\ recvLoop[sess] # <<>> /\ UNCHANGED <<reader, errCh, sent>>
    BY <1>14 DEF TakeMessage, Config, ConfigUpdate, PrintJob, Serve, Unpaired, Take
  <2>2. Head(recvLoop[sess]) \in Inputs
    BY <1>0, <2>1, HeadTailProperties
  <2>3. CASE Config
    <3>1. Head(recvLoop[sess]).printers \in SUBSET Ids
      BY <2>2, <2>3, ListType DEF Config, Take
    <3> QED
      BY <2>1, <2>3, <3>1 DEF Config, SetPrinters
  <2>4. CASE ConfigUpdate
    <3>1. Head(recvLoop[sess]).printers \in SUBSET Ids
      BY <2>2, <2>4, ListType DEF ConfigUpdate, Take
    <3>2. sess \in Sessions => printers[sess] \cup Head(recvLoop[sess]).printers \in SUBSET Ids
      BY <3>1
    <3> QED
      BY <2>1, <2>4, <3>2 DEF ConfigUpdate, SetPrinters
  <2>5. CASE PrintJob \/ Serve
    BY <1>1, <2>1, <2>5 DEF PrintJob, Serve
  <2>6. CASE Unpaired
    BY <1>4, <2>1, <2>6 DEF Unpaired, SetPrinters
  <2> QED
    BY <1>14, <2>3, <2>4, <2>5, <2>6 DEF TakeMessage
<1> QED
  BY <1>2, <1>3, <1>5, <1>6, <1>7, <1>8, <1>9, <1>10, <1>11, <1>12, <1>13, <1>14 DEF Next, ReaderNext

LEMMA TypesHold == Safety => []TypeInv
<1>1. TypeInv /\ [Next]_vars => TypeInv'
  BY FeedKept, RoomKept, RestKept DEF TypeInv
<1> QED
  BY TypeInit, <1>1, PTL DEF Safety

-----------------------------------------------------------------------------
(* Each step is a step of MessageFeed, or none of its business.            *)

Up == act # "away" /\ conn[sess] = "up"
Backlog == IF act = "away" THEN <<>> ELSE Waits(sess)

FeedStep == Feed!Begin \/ Feed!Send \/ Feed!Handle \/ Feed!GoDown \/ Feed!End

\* A step of Feed, in terms of the session.
LEMMA FeedActions ==
  /\ Feed!Begin <=> act = "away" /\ sess' = sess + 1 /\ act' # "away" /\ Up' /\ Backlog' = <<>>
  /\ Feed!Send <=> /\ Up /\ \E m \in Inputs : Backlog' = Append(Backlog, m)
                  /\ UNCHANGED <<sess, act # "away", Up>>
  /\ Feed!Handle <=> /\ Backlog # <<>> /\ Backlog' = Tail(Backlog)
                    /\ UNCHANGED <<sess, act # "away", Up>>
  /\ Feed!GoDown <=> /\ Up /\ ~Up' /\ \E n \in 0 .. Len(Backlog) : Backlog' = SubSeq(Backlog, 1, n)
                    /\ UNCHANGED <<sess, act # "away">>
  /\ Feed!End <=> act # "away" /\ act' = "away" /\ ~Up' /\ Backlog' = <<>> /\ UNCHANGED sess
  /\ UNCHANGED Feed!feed <=> UNCHANGED <<sess, act # "away", Up, Backlog>>
BY Zenon DEF Feed!Begin, Feed!Send, Feed!Handle, Feed!GoDown, Feed!End, Feed!feed, Up, Backlog, Waits

\* A step that leaves the waiting messages of the session as they are.
LEMMA FeedStutter ==
  ASSUME UNCHANGED <<sess, conn>>, act = "away" <=> act' = "away",
         act # "away" => Waits(sess)' = Waits(sess)
  PROVE  UNCHANGED Feed!feed
BY FeedActions DEF Up, Backlog

\* A step that ends the session.
LEMMA FeedEnds == ASSUME act # "away", SessionEnds, UNCHANGED sess PROVE Feed!End
BY FeedActions DEF SessionEnds, Up, Backlog

LEMMA FeedImplemented == FeedInv /\ [Next]_vars => FeedStep \/ UNCHANGED Feed!feed
<1> SUFFICES ASSUME FeedInv, [Next]_vars PROVE FeedStep \/ UNCHANGED Feed!feed
  OBVIOUS
<1>a. sess \in Nat /\ Sessions \subseteq Nat /\ (act # "away" => sess \in Sessions)
  BY DEF FeedInv, WriteInv, CallTypes, Sessions
<1>b. /\ inbox \in [Sessions -> Seq(Inputs)] /\ held \in [Sessions -> Seq(Inputs)]
      /\ recvLoop \in [Sessions -> Seq(Inputs)]
      /\ conn \in [Sessions -> {"none", "up", "broken", "closed"}]
  BY DEF FeedInv, FeedTypes
<1> USE DEF FeedStep, Waits, sockVars, readVars, loopVars
<1>1. CASE Dial
  <2>1. sess + 1 \in Sessions /\ sess + 1 > sess
    BY <1>1, <1>a, SessionAssumption DEF Dial, Sessions
  <2>2. /\ act = "away" /\ sess' = sess + 1 /\ act' = "hello" /\ UNCHANGED <<inbox, held, recvLoop>>
        /\ conn' = [conn EXCEPT ![sess + 1] = "up"]
    BY <1>1 DEF Dial
  <2>3. Waits(sess + 1) = <<>> \o <<>> \o <<>>
    BY <2>1 DEF FeedInv, Untouched
  <2>4. <<>> \o <<>> \o <<>> = <<>>
    BY ConcatEmptySeq, EmptySeq
  <2>5. Up' /\ Backlog' = <<>>
    BY <1>b, <2>1, <2>2, <2>3, <2>4 DEF Up, Backlog
  <2> QED
    BY <2>2, <2>5, FeedActions
<1>2. CASE HelloAnswered
  BY <1>2, FeedStutter DEF HelloAnswered
<1>3. CASE HelloFails
  BY <1>3, FeedEnds DEF HelloFails
<1>4. ASSUME NEW s \in Sessions, ReadMessage(s) PROVE UNCHANGED Feed!feed
  <2>1. /\ UNCHANGED <<sess, act, conn, recvLoop>> /\ inbox[s] # <<>> /\ held[s] = <<>>
        /\ held' = [held EXCEPT ![s] = <<Head(inbox[s])>>]
        /\ inbox' = [inbox EXCEPT ![s] = Tail(inbox[s])]
    BY <1>4 DEF ReadMessage
  <2>2. Waits(s)' = Waits(s)
    <3>1. recvLoop[s] \o <<Head(inbox[s])>> \o Tail(inbox[s]) = recvLoop[s] \o held[s] \o inbox[s]
      BY <1>b, <2>1, Regrouped
    <3>2. held'[s] = <<Head(inbox[s])>> /\ inbox'[s] = Tail(inbox[s])
      BY <1>b, <2>1
    <3> QED
      BY <2>1, <3>1, <3>2
  <2>3. act # "away" => Waits(sess)' = Waits(sess)
    BY <1>a, <1>b, <2>1, <2>2
  <2> QED
    BY <2>1, <2>3, FeedStutter
<1>5. ASSUME NEW s \in Sessions, ReadError(s) PROVE UNCHANGED Feed!feed
  BY <1>5, FeedStutter DEF ReadError
<1>6. ASSUME NEW s \in Sessions, PassOn(s) PROVE UNCHANGED Feed!feed
  <2>1. /\ UNCHANGED <<sess, act, conn, inbox>>
        /\ recvLoop' = [recvLoop EXCEPT ![s] = recvLoop[s] \o held[s]]
        /\ held' = [held EXCEPT ![s] = <<>>]
    BY <1>6 DEF PassOn
  <2>2. Waits(s)' = Waits(s)
    <3>1. (recvLoop[s] \o held[s]) \o <<>> \o inbox[s] = recvLoop[s] \o held[s] \o inbox[s]
      BY <1>b, Regrouped
    <3>2. recvLoop'[s] = recvLoop[s] \o held[s] /\ held'[s] = <<>>
      BY <1>b, <2>1
    <3> QED
      BY <2>1, <3>1, <3>2
  <2>3. act # "away" => Waits(sess)' = Waits(sess)
    BY <1>a, <1>b, <2>1, <2>2
  <2> QED
    BY <2>1, <2>3, FeedStutter
<1>7. ASSUME NEW s \in Sessions, Probe(s) \/ CloudReads(s) PROVE UNCHANGED Feed!feed
  BY <1>7, FeedStutter DEF Probe, CloudReads
<1>8. CASE TakeErr
  BY <1>8, FeedEnds DEF TakeErr
<1>9. CASE Announce
  BY <1>9, FeedStutter DEF Announce
<1>10. CASE TakeMessage
  <2>1. CASE Unpaired
    BY <2>1, FeedEnds DEF Unpaired, Take
  <2>2. ASSUME NEW types, Take(types), UNCHANGED sockVars, act' # "away" PROVE Feed!Handle
    <3>1. /\ act = "select" /\ sess \in Sessions /\ recvLoop[sess] # <<>> /\ UNCHANGED <<sess, held, conn, inbox>>
          /\ recvLoop' = [recvLoop EXCEPT ![sess] = Tail(recvLoop[sess])]
      BY <2>2, TakeFacts
    <3>2. recvLoop'[sess] = Tail(recvLoop[sess])
      BY <1>b, <3>1
    <3>3. /\ recvLoop[sess] \o held[sess] \o inbox[sess] # <<>>
          /\ Tail(recvLoop[sess] \o held[sess] \o inbox[sess]) = Tail(recvLoop[sess]) \o held[sess] \o inbox[sess]
      BY <1>b, <3>1, Regrouped
    <3>4. Backlog # <<>> /\ Backlog' = Tail(Backlog)
      BY <2>2, <3>1, <3>2, <3>3 DEF Backlog
    <3> QED
      BY <2>2, <3>1, <3>4, FeedActions DEF Up
  <2>3. act = "select"
    BY <1>10 DEF TakeMessage, Config, ConfigUpdate, PrintJob, Serve, Unpaired, Take
  <2> QED
    BY <1>10, <2>1, <2>2, <2>3 DEF TakeMessage, Config, ConfigUpdate, PrintJob, Serve
<1>11. CASE Enqueue \/ TakeJob
  BY <1>11, FeedStutter DEF Enqueue, TakeJob
<1>12. ASSUME NEW w \in Writers, TakeMutex(w) \/ Write(w) PROVE UNCHANGED Feed!feed
  <2>1. UNCHANGED <<sess, conn, inbox, held, recvLoop>>
    BY <1>12 DEF TakeMutex, Write
  <2>2. writing[w] # "no" /\ (w = Loop => act = "write")
    BY <1>12 DEF TakeMutex, Write, FeedInv, WriteInv
  <2>3. act = "away" <=> act' = "away"
    BY <1>12, <2>2 DEF TakeMutex, Write, WriteReturns
  <2> QED
    BY <2>1, <2>3, FeedStutter
<1>13. ASSUME NEW m \in Inputs, CloudSends(m) PROVE Feed!Send
  <2>1. /\ act # "away" /\ conn[sess] = "up" /\ UNCHANGED <<sess, act, conn, held, recvLoop>>
        /\ inbox' = [inbox EXCEPT ![sess] = Append(inbox[sess], m)]
    BY <1>13 DEF CloudSends
  <2>2. inbox'[sess] = Append(inbox[sess], m)
    BY <1>a, <1>b, <2>1
  <2>3. recvLoop[sess] \o held[sess] \o Append(inbox[sess], m)
          = Append(recvLoop[sess] \o held[sess] \o inbox[sess], m)
    BY <1>a, <1>b, <2>1, Regrouped
  <2>4. Backlog' = Append(Backlog, m)
    BY <2>1, <2>2, <2>3 DEF Backlog
  <2> QED
    BY <2>1, <2>4, FeedActions DEF Up
<1>14. CASE Break
  <2>1. /\ act # "away" /\ conn[sess] = "up" /\ UNCHANGED <<sess, act, held, recvLoop>>
        /\ conn' = [conn EXCEPT ![sess] = "broken"]
    BY <1>14, <1>a DEF Break, FeedInv
  <2>2. PICK n \in 0 .. Len(inbox[sess]) : inbox' = [inbox EXCEPT ![sess] = SubSeq(inbox[sess], 1, n)]
    BY <1>14 DEF Break
  <2>3. inbox'[sess] = SubSeq(inbox[sess], 1, n) /\ conn'[sess] = "broken"
    BY <1>a, <1>b, <2>1, <2>2
  <2>4. PICK k \in 0 .. Len(recvLoop[sess] \o held[sess] \o inbox[sess]) :
             recvLoop[sess] \o held[sess] \o SubSeq(inbox[sess], 1, n)
               = SubSeq(recvLoop[sess] \o held[sess] \o inbox[sess], 1, k)
    <3>1. /\ recvLoop[sess] \in Seq(Inputs) /\ held[sess] \in Seq(Inputs)
          /\ inbox[sess] \in Seq(Inputs)
      BY <1>a, <1>b, <2>1
    <3>2. n \in 0 .. Len(inbox[sess])
      BY <2>2
    <3> QED
      BY <3>1, <3>2, Shortened, Zenon
  <2>5. \E i \in 0 .. Len(Backlog) : Backlog' = SubSeq(Backlog, 1, i)
    BY <2>1, <2>3, <2>4 DEF Backlog
  <2> QED
    BY <2>1, <2>3, <2>5, FeedActions DEF Up
<1>15. CASE UNCHANGED vars
  BY <1>15, FeedStutter DEF vars
<1> QED
  BY <1>1, <1>2, <1>3, <1>4, <1>5, <1>6, <1>7, <1>8, <1>9, <1>10, <1>11, <1>12, <1>13, <1>14, <1>15
     DEF Next, ReaderNext

-----------------------------------------------------------------------------
(* What is proved.                                                         *)

\* Every reachable state of sessions, channels, sockets and mutexes is
\* well-typed, and no channel or socket holds more than it can.
THEOREM SessionTypeCorrect == Spec => []TypeOK
BY TypesHold, TypeParts, PTL DEF Spec

\* However many sessions there were and whoever still writes to their
\* connections, two goroutines are never inside WriteMessage of one connection.
THEOREM FramesStayWhole == Spec => []FramesWhole
<1>1. WriteInv => FramesWhole
  BY DEF WriteInv, FramesWhole
<1> QED
  BY <1>1, WritesHold, PTL DEF Spec

\* Through socket, reader and channel the messages of a session are handled in
\* order and without a gap, and none reaches another session.
THEOREM FeedInOrder == Spec => ImplementsFeed
<1>1. Init => Feed!Init
  BY DEF Init, Feed!Init
<1>2. FeedInv /\ [Next]_vars => [FeedStep]_(Feed!feed)
  BY FeedImplemented
<1> QED
  BY <1>1, <1>2, FeedHolds, PTL DEF Spec, Safety, ImplementsFeed, Feed!Spec, FeedStep
=============================================================================
