-------------------------- MODULE PrinterLinkProofs --------------------------
(***************************************************************************)
(* What TLAPS proves of PrinterLink, for every set of printers and callers *)
(* and every length of document and delay: type correctness, and that the  *)
(* mutexes serialize the documents of an endpoint and are never leaked.    *)
(***************************************************************************)
EXTENDS PrinterLink, TLAPS

\* The counters count down inside their ranges.
LEMMA DownRange ==
  ASSUME NEW n \in Nat, NEW x \in 0 .. n
  PROVE  Down(x) \in 0 .. n
BY DEF Down

\* The ends of a counter's range.
LEMMA RangeEnds ==
  ASSUME NEW n \in Nat
  PROVE  n \in 0 .. n /\ 0 \in 0 .. n
OBVIOUS

\* One value of a function, or of a table of functions, is replaced.
LEMMA UpdateOne ==
  ASSUME NEW S, NEW T, NEW f \in [S -> T], NEW x, NEW v \in T
  PROVE  [f EXCEPT ![x] = v] \in [S -> T]
OBVIOUS

LEMMA UpdateTable ==
  ASSUME NEW S, NEW R, NEW T, NEW f \in [S -> [R -> T]], NEW x, NEW y, NEW v \in T
  PROVE  [f EXCEPT ![x][y] = v] \in [S -> [R -> T]]
OBVIOUS

\* The steps inside a call keep the types.
LEMMA LinkStepTypes ==
  ASSUME LinkTypeOK, NEW s \in Senders, LinkStep(s)
  PROVE  LinkTypeOK'
<1>0. /\ Chunks \in Nat /\ 0 \in 0 .. Chunks /\ Chunks \in 0 .. Chunks
      /\ InterJobTicks \in 0 .. InterJobTicks /\ FlashTicks \in 0 .. FlashTicks
  BY LinkAssumption, RangeEnds
<1>1. CASE TakeLock(s)
  <2>1. dest[s] \in Addrs /\ lock' \in [Printers -> Senders \cup {Free}]
    BY <1>1 DEF TakeLock, LinkTypeOK
  <2>2. pc' \in [Senders -> LinkPCs]
    BY <1>1 DEF TakeLock, LinkTypeOK, LinkPCs
  <2> QED
    BY <1>1, <2>1, <2>2 DEF TakeLock, LinkTypeOK
<1>2. CASE DialOk(s)
  <2>1. left' \in [Senders -> 0 .. Chunks]
    BY <1>0, <1>2, UpdateOne DEF DialOk, LinkTypeOK
  <2>2. pc' \in [Senders -> LinkPCs]
    BY <1>2 DEF DialOk, LinkTypeOK, LinkPCs
  <2> QED
    BY <1>2, <2>1, <2>2 DEF DialOk, LinkTypeOK
<1>3. CASE DialFail(s)
  <2>1. lock' \in [Printers -> Senders \cup {Free}]
    BY <1>3 DEF DialFail, Unlock, LinkTypeOK
  <2>2. pc' \in [Senders -> LinkPCs]
    BY <1>3 DEF DialFail, LinkTypeOK, LinkPCs
  <2> QED
    BY <1>3, <2>1, <2>2 DEF DialFail, LinkTypeOK
<1>4. CASE WriteChunk(s)
  <2>0. left[s] \in 0 .. Chunks /\ left[s] > 1
    BY <1>4 DEF WriteChunk, LinkTypeOK
  <2>1. left[s] - 1 \in 0 .. Chunks
    BY <1>0, <2>0
  <2>2. left' \in [Senders -> 0 .. Chunks]
    BY <1>4, <2>1, UpdateOne DEF WriteChunk, LinkTypeOK
  <2> QED
    BY <1>4, <2>2 DEF WriteChunk, LinkTypeOK
<1>5. CASE WriteLast(s)
  <2>1. left' \in [Senders -> 0 .. Chunks] /\ timer' \in [Senders -> 0 .. InterJobTicks]
    BY <1>0, <1>5, UpdateOne DEF WriteLast, LinkTypeOK
  <2>2. pc' \in [Senders -> LinkPCs]
    BY <1>5 DEF WriteLast, LinkTypeOK, LinkPCs
  <2>3. /\ nv' \in [Printers -> [Slots -> Logos]]
        /\ flash' \in [Printers -> 0 .. FlashTicks]
        /\ flashBy' \in [Printers -> {"none", "prelude", "provision", "earlier run"}]
    <3>1. Receive(dest[s], doc[s])
      BY <1>5 DEF WriteLast
    <3>2. CASE doc[s] \in Upload
      <4>1. doc[s].hash \in Logos /\ doc[s].by \in {"prelude", "provision"}
        BY <3>2 DEF Upload, Logos
      <4>2. nv' \in [Printers -> [Slots -> Logos]]
        <5>1. nv \in [Printers -> [Slots -> Logos]]
          BY DEF LinkTypeOK
        <5>2. [nv EXCEPT ![dest[s]][doc[s].slot] = doc[s].hash] \in [Printers -> [Slots -> Logos]]
          BY <4>1, <5>1, UpdateTable
        <5> QED
          BY <3>1, <3>2, <5>2 DEF Receive
      <4>3. flash' \in [Printers -> 0 .. FlashTicks]
        BY <1>0, <3>1, <3>2, UpdateOne DEF Receive, LinkTypeOK
      <4>4. flashBy' \in [Printers -> {"none", "prelude", "provision", "earlier run"}]
        BY <3>1, <3>2, <4>1 DEF Receive, LinkTypeOK
      <4> QED
        BY <4>2, <4>3, <4>4
    <3>3. CASE doc[s] \notin Upload
      BY <3>1, <3>3 DEF Receive, LinkTypeOK
    <3> QED
      BY <3>2, <3>3
  <2> QED
    BY <1>5, <2>1, <2>2, <2>3 DEF WriteLast, LinkTypeOK
<1>6. CASE WriteFail(s)
  <2>1. lock' \in [Printers -> Senders \cup {Free}]
    BY <1>6 DEF WriteFail, Unlock, LinkTypeOK
  <2>2. pc' \in [Senders -> LinkPCs]
    BY <1>6 DEF WriteFail, LinkTypeOK, LinkPCs
  <2>3. left' \in [Senders -> 0 .. Chunks]
    BY <1>0, <1>6, UpdateOne DEF WriteFail, LinkTypeOK
  <2>4. nv' \in [Printers -> [Slots -> Logos]]
    <3>1. Garbled \in Logos
      BY DEF Logos
    <3>2. CutOff(dest[s], doc[s])
      BY <1>6 DEF WriteFail
    <3>3. nv \in [Printers -> [Slots -> Logos]]
      BY DEF LinkTypeOK
    <3>4. [nv EXCEPT ![dest[s]][doc[s].slot] = Garbled] \in [Printers -> [Slots -> Logos]]
      BY <3>1, <3>3, UpdateTable
    <3> QED
      BY <3>2, <3>3, <3>4 DEF CutOff
  <2> QED
    BY <1>6, <2>1, <2>2, <2>3, <2>4 DEF WriteFail, LinkTypeOK
<1>7. CASE EndPause(s)
  <2>1. lock' \in [Printers -> Senders \cup {Free}]
    BY <1>7 DEF EndPause, Unlock, LinkTypeOK
  <2>2. pc' \in [Senders -> LinkPCs]
    BY <1>7 DEF EndPause, LinkTypeOK, LinkPCs
  <2> QED
    BY <1>7, <2>1, <2>2 DEF EndPause, LinkTypeOK
<1> QED
  BY <1>1, <1>2, <1>3, <1>4, <1>5, <1>6, <1>7 DEF LinkStep

\* The end of the process keeps the types.
LEMMA AbortTypes ==
  ASSUME LinkTypeOK, Abort
  PROVE  LinkTypeOK'
<1>0. 0 \in 0 .. Chunks /\ 0 \in 0 .. InterJobTicks
  BY LinkAssumption, RangeEnds
<1>1. lock' \in [Printers -> Senders \cup {Free}]
  BY DEF Abort
<1>2. pc' \in [Senders -> LinkPCs]
  BY DEF Abort, LinkPCs
<1>3. dest' \in [Senders -> Addrs] /\ doc' \in [Senders -> Docs]
  BY DEF Abort, Addrs, Docs
<1>4. left' \in [Senders -> 0 .. Chunks] /\ timer' \in [Senders -> 0 .. InterJobTicks]
  BY <1>0 DEF Abort
<1>5. nv' \in [Printers -> [Slots -> Logos]]
  <2>1. Garbled \in Logos /\ nv \in [Printers -> [Slots -> Logos]]
    BY DEF LinkTypeOK, Logos
  <2>2. PICK cut \in SUBSET Senders :
          nv' = [p \in Printers |-> [x \in Slots |->
                   IF \E s \in cut : dest[s] = p /\ doc[s].slot = x
                   THEN Garbled ELSE nv[p][x]]]
    BY DEF Abort
  <2> QED
    BY <2>1, <2>2
<1>6. flashBy' \in [Printers -> {"none", "prelude", "provision", "earlier run"}]
  BY DEF Abort
<1>7. flash' \in [Printers -> 0 .. FlashTicks]
  BY DEF Abort, LinkTypeOK
<1> QED
  BY <1>1, <1>2, <1>3, <1>4, <1>5, <1>6, <1>7 DEF LinkTypeOK

\* No step leaves the types.
LEMMA LinkTypesKept ==
  ASSUME LinkTypeOK, [LinkNext]_linkVars
  PROVE  LinkTypeOK'
<1>0. Chunks \in Nat \ {0} /\ InterJobTicks \in Nat /\ FlashTicks \in Nat
  BY LinkAssumption
<1>1. ASSUME NEW s \in Senders, NEW a \in Addrs, NEW d \in Docs, SendBytes(s, a, d)
      PROVE  LinkTypeOK'
  <2>1. pc' \in [Senders -> LinkPCs]
    BY <1>1 DEF SendBytes, LinkTypeOK, LinkPCs
  <2>2. dest' \in [Senders -> Addrs] /\ doc' \in [Senders -> Docs]
    BY <1>1 DEF SendBytes, LinkTypeOK
  <2> QED
    BY <1>1, <2>1, <2>2 DEF SendBytes, LinkTypeOK
<1>2. ASSUME NEW s \in Senders, LinkStep(s)
      PROVE  LinkTypeOK'
  BY <1>2, LinkStepTypes
<1>3. ASSUME NEW s \in Senders, NEW result \in {"ok", "err"}, Return(s, result)
      PROVE  LinkTypeOK'
  <2>1. pc' \in [Senders -> LinkPCs]
    BY <1>3 DEF Return, LinkTypeOK, LinkPCs
  <2>2. Unusable \in Addrs /\ Plain \in Docs
    BY DEF Addrs, Docs
  <2>3. dest' \in [Senders -> Addrs] /\ doc' \in [Senders -> Docs]
    BY <1>3, <2>2 DEF Return, LinkTypeOK
  <2> QED
    BY <1>3, <2>1, <2>3 DEF Return, LinkTypeOK
<1>4. CASE Elapse
  <2>1. timer' \in [Senders -> 0 .. InterJobTicks]
    BY <1>0, <1>4, DownRange DEF Elapse, LinkTypeOK
  <2>2. flash' \in [Printers -> 0 .. FlashTicks]
    BY <1>0, <1>4, DownRange DEF Elapse, LinkTypeOK
  <2>3. flashBy' \in [Printers -> {"none", "prelude", "provision", "earlier run"}]
    BY <1>4 DEF Elapse, LinkTypeOK
  <2> QED
    BY <1>4, <2>1, <2>2, <2>3 DEF Elapse, LinkTypeOK
<1>5. CASE Abort
  BY <1>0, <1>5, AbortTypes
<1>6. CASE UNCHANGED linkVars
  BY <1>6 DEF linkVars, LinkTypeOK
<1> QED
  BY <1>1, <1>2, <1>3, <1>4, <1>5, <1>6 DEF LinkNext

\* Every call of SendBytes stays inside its types: counters in their bounds,
\* mutexes held by callers or by nobody.
THEOREM LinkTypeCorrect == LinkSafety => []LinkTypeOK
<1>1. LinkInit => LinkTypeOK
  BY LinkAssumption DEF LinkInit, LinkTypeOK, LinkPCs, Addrs, Docs, Logos
<1> QED
  BY <1>1, LinkTypesKept, PTL DEF LinkSafety

-----------------------------------------------------------------------------

\* Mutexes and program counters agree: a call past m.Lock() owns the mutex of
\* its endpoint, and an owned mutex has such a call.
LockInv ==
  /\ \A s \in Senders : pc[s] = "lock" => dest[s] \in Printers
  /\ \A s \in Senders : Holding(s) => dest[s] \in Printers /\ lock[dest[s]] = s
  /\ NoLeakedLock

\* What LockInv needs of the types and the assumptions.
LockTypes ==
  /\ lock \in [Printers -> Senders \cup {Free}]
  /\ pc   \in [Senders -> LinkPCs]
  /\ dest \in [Senders -> Addrs]
  /\ Free \notin Senders

LEMMA LockTypesHold == LinkTypeOK => LockTypes
BY LinkAssumption DEF LinkTypeOK, LockTypes

\* A call that moves on while it holds its mutex.
LEMMA KeepLock ==
  ASSUME LockTypes, LockInv, NEW s \in Senders, Holding(s), Holding(s)',
         lock' = lock, dest' = dest, \A t \in Senders \ {s} : pc'[t] = pc[t]
  PROVE  LockInv'
BY DEF LockTypes, LockInv, NoLeakedLock, Holding

\* A call that gives its mutex back and has its result.
LEMMA GiveLock ==
  ASSUME LockTypes, LockInv, NEW s \in Senders, Holding(s), Unlock(s),
         NEW result \in {"ok", "err"}, pc' = [pc EXCEPT ![s] = result], dest' = dest
  PROVE  LockInv'
<1>1. (\A t \in Senders : pc[t] = "lock" => dest[t] \in Printers)'
  BY DEF LockTypes, LockInv
<1>2. (\A t \in Senders : Holding(t) => dest[t] \in Printers /\ lock[dest[t]] = t)'
  BY DEF LockTypes, LockInv, Holding, Unlock
<1>3. NoLeakedLock'
  BY DEF LockTypes, LockInv, NoLeakedLock, Holding, Unlock
<1> QED
  BY <1>1, <1>2, <1>3 DEF LockInv

\* A call that takes the mutex of its endpoint.
LEMMA GetLock ==
  ASSUME LockTypes, LockInv, NEW s \in Senders, TakeLock(s)
  PROVE  LockInv'
<1>0. /\ pc[s] = "lock" /\ dest[s] \in Printers /\ lock[dest[s]] = Free
      /\ lock' = [lock EXCEPT ![dest[s]] = s] /\ pc' = [pc EXCEPT ![s] = "dial"]
      /\ dest' = dest
  BY DEF TakeLock, LockInv
<1>1. (\A t \in Senders : pc[t] = "lock" => dest[t] \in Printers)'
  BY <1>0 DEF LockTypes, LockInv
<1>2. (\A t \in Senders : Holding(t) => dest[t] \in Printers /\ lock[dest[t]] = t)'
  BY <1>0 DEF LockTypes, LockInv, Holding
<1>3. NoLeakedLock'
  BY <1>0 DEF LockTypes, LockInv, NoLeakedLock, Holding
<1> QED
  BY <1>1, <1>2, <1>3 DEF LockInv

\* A step of one call leaves the agreement intact.
LEMMA LockStep ==
  ASSUME LockTypes, LockInv, NEW s \in Senders, LinkStep(s)
  PROVE  LockInv'
<1>1. CASE TakeLock(s)
  BY <1>1, GetLock
<1>2. CASE DialOk(s)
  BY <1>2, KeepLock DEF DialOk, Holding, LockTypes
<1>3. CASE DialFail(s)
  BY <1>3, GiveLock DEF DialFail, Holding
<1>4. CASE WriteChunk(s)
  BY <1>4, KeepLock DEF WriteChunk, Holding
<1>5. CASE WriteLast(s)
  BY <1>5, KeepLock DEF WriteLast, Holding, LockTypes
<1>6. CASE WriteFail(s)
  BY <1>6, GiveLock DEF WriteFail, Holding
<1>7. CASE EndPause(s)
  BY <1>7, GiveLock DEF EndPause, Holding
<1> QED
  BY <1>1, <1>2, <1>3, <1>4, <1>5, <1>6, <1>7 DEF LinkStep

\* No step breaks the agreement.
LEMMA LockInvKept ==
  ASSUME LinkTypeOK, LockInv, [LinkNext]_linkVars
  PROVE  LockInv'
<1>0. LockTypes
  BY LockTypesHold
<1>1. ASSUME NEW s \in Senders, NEW a \in Addrs, NEW d \in Docs, SendBytes(s, a, d)
      PROVE  LockInv'
  BY <1>0, <1>1 DEF SendBytes, LockTypes, LockInv, NoLeakedLock, Holding
<1>2. ASSUME NEW s \in Senders, LinkStep(s)
      PROVE  LockInv'
  BY <1>0, <1>2, LockStep
<1>3. ASSUME NEW s \in Senders, NEW result \in {"ok", "err"}, Return(s, result)
      PROVE  LockInv'
  BY <1>0, <1>3 DEF Return, LockTypes, LockInv, NoLeakedLock, Holding
<1>4. CASE Elapse
  BY <1>4 DEF Elapse, LockInv, NoLeakedLock, Holding
<1>5. CASE Abort
  BY <1>0, <1>5 DEF Abort, LockTypes, LockInv, NoLeakedLock, Holding
<1>6. CASE UNCHANGED linkVars
  BY <1>6 DEF linkVars, LockInv, NoLeakedLock, Holding
<1> QED
  BY <1>1, <1>2, <1>3, <1>4, <1>5, <1>6 DEF LinkNext

\* The agreement of mutexes and program counters holds throughout.
THEOREM LockInvariant == LinkSafety => []LockInv
<1>1. LinkInit => LockInv
  BY LinkAssumption DEF LinkInit, LockInv, NoLeakedLock, Holding
<1> QED
  BY <1>1, LockInvKept, LinkTypeCorrect, PTL DEF LinkSafety

\* Documents never interleave on a printer: from the dial to the end of
\* interJobDelay a call has its endpoint to itself.
THEOREM SendsExclusive == LinkSafety => []Exclusive
<1>1. LockInv => Exclusive
  BY DEF LockInv, Exclusive
<1> QED
  BY <1>1, LockInvariant, PTL

\* Every return of SendBytes, the error returns included, gives the mutex back.
THEOREM LocksReturned == LinkSafety => []NoLeakedLock
<1>1. LockInv => NoLeakedLock
  BY DEF LockInv
<1> QED
  BY <1>1, LockInvariant, PTL
=============================================================================
