--------------------------- MODULE PairingProofs ---------------------------
(***************************************************************************)
(* Proofs about Pairing, for any number of pages, requests and tenants and *)
(* any capacity of pairingCh.                                              *)
(***************************************************************************)
EXTENDS Pairing, SequenceTheorems, FiniteSetTheorems, FunctionTheorems, TLAPS

Waiting(a) == \E i \in 1 .. Len(pairingCh) : pairingCh[i] = a

\* A request is in the channel once or with the session or neither, before it
\* was made and after it was answered it is neither, and until then its Done is
\* empty.
DoneInv ==
  /\ \A i, j \in 1 .. Len(pairingCh) : pairingCh[i] = pairingCh[j] => i = j
  /\ pending # None => ~Waiting(pending)
  /\ \A a \in Attempts : reply[a] = "unused" => ~Waiting(a) /\ a # pending /\ done[a] = None
  /\ \A a \in Attempts : a = pending \/ Waiting(a) => done[a] = None

\* The types without the flags, which other provers are good at.
HandlerTypes ==
  /\ reply \in [Attempts -> Replies]
  /\ done \in [Attempts -> Results \cup {None}]
  /\ pairingCh \in Seq(Attempts) /\ Len(pairingCh) <= ChCap
  /\ pending \in Attempts \cup {None}

PageTypes ==
  /\ view \in [Browsers -> {"pair", "info"}]
  /\ busy \in [Browsers -> Attempts \cup {None}]

CloudTypes ==
  /\ tenant \in Tenants \cup {None} /\ owner \in Tenants \cup {None}
  /\ toCloud \in Seq(ToCloud) /\ toBridge \in Seq(ToBridge)
  /\ verdict \in [Attempts -> Judgement \cup {None}]
  /\ phase \in {"away", "hello", "loop"}

FlagTypes == claimed \in BOOLEAN /\ live \in BOOLEAN /\ owes \in BOOLEAN /\ configFirst \in BOOLEAN

BoundTypes ==
  /\ sessions \in 0 .. MaxSessions /\ releases \in 0 .. MaxReleases
  /\ configs  \in 0 .. MaxConfigs  /\ restarts \in 0 .. MaxRestarts

LEMMA TypeParts ==
  TypeOK <=> HandlerTypes /\ PageTypes /\ CloudTypes /\ FlagTypes /\ BoundTypes
BY DEF TypeOK, HandlerTypes, PageTypes, CloudTypes, FlagTypes, BoundTypes

-----------------------------------------------------------------------------
(* Sequences.                                                              *)

LEMMA AppendFacts ==
  ASSUME NEW S, NEW s \in Seq(S), NEW e \in S
  PROVE  /\ Append(s, e) \in Seq(S) /\ Len(Append(s, e)) = Len(s) + 1
         /\ \A i \in 1 .. Len(Append(s, e)) : Append(s, e)[i] = IF i <= Len(s) THEN s[i] ELSE e
<1>1. Len(s) \in Nat
  BY LenProperties
<1> QED
  BY <1>1, AppendProperties

LEMMA TailFacts ==
  ASSUME NEW S, NEW s \in Seq(S), s # <<>>
  PROVE  /\ Head(s) \in S /\ Head(s) = s[1] /\ Tail(s) \in Seq(S)
         /\ Len(s) \in Nat \ {0} /\ Len(Tail(s)) = Len(s) - 1
         /\ \A i \in 1 .. Len(Tail(s)) : Tail(s)[i] = s[i + 1]
BY HeadTailProperties, EmptySeq

LEMMA PrefixType ==
  ASSUME NEW S, NEW s \in Seq(S), NEW n \in 0 .. Len(s)
  PROVE  SubSeq(s, 1, n) \in Seq(S)
<1>1. Len(s) \in Nat /\ n \in Nat /\ n <= Len(s)
  BY LenProperties
<1>2. \A j \in 1 .. n : s[j] \in S
  BY <1>1, ElementOfSeq
<1> QED
  BY <1>1, <1>2, SubSeqProperties

-----------------------------------------------------------------------------

\* A step that puts no request anywhere and touches the Done of none that is
\* still to be answered.
LEMMA Undisturbed ==
  ASSUME DoneInv, UNCHANGED pairingCh, pending' = pending \/ pending' = None, None \notin Attempts,
         \A a \in Attempts : reply'[a] = "unused" => reply[a] = "unused",
         \A a \in Attempts : done'[a] = done[a] \/ done'[a] = None
  PROVE  DoneInv'
BY DEF DoneInv, Waiting

LEMMA PostPairKept ==
  ASSUME HandlerTypes, DoneInv, NEW b \in Browsers, NEW a \in Attempts, PostPair(b, a)
  PROVE  HandlerTypes' /\ DoneInv'
<1>1. CASE Len(pairingCh) < ChCap
  <2>1. /\ pairingCh' = Append(pairingCh, a) /\ reply' = [reply EXCEPT ![a] = "waiting"]
        /\ reply[a] = "unused" /\ UNCHANGED <<done, pending>>
    BY <1>1 DEF PostPair, sessionVars
  <2>2. /\ pairingCh' \in Seq(Attempts) /\ Len(pairingCh') = Len(pairingCh) + 1
        /\ \A i \in 1 .. Len(pairingCh') : pairingCh'[i] = IF i <= Len(pairingCh) THEN pairingCh[i] ELSE a
        /\ Len(pairingCh) \in Nat
    BY <2>1, AppendFacts, LenProperties DEF HandlerTypes
  <2>3. HandlerTypes'
    BY <1>1, <2>1, <2>2, PairingAssumption DEF HandlerTypes, Replies
  <2>4. ~Waiting(a) /\ a # pending /\ done[a] = None
    BY <2>1 DEF DoneInv
  <2>5. ASSUME NEW c \in Attempts \cup {None} PROVE Waiting(c)' <=> Waiting(c) \/ c = a
    BY <2>2 DEF Waiting
  <2>6. \A i, j \in 1 .. Len(pairingCh') : pairingCh'[i] = pairingCh'[j] => i = j
    BY <2>2, <2>4 DEF DoneInv, Waiting
  <2>7. pending' # None => ~Waiting(pending)'
    BY <2>1, <2>4, <2>5 DEF DoneInv, HandlerTypes
  <2>8. \A c \in Attempts : reply'[c] = "unused" => ~Waiting(c)' /\ c # pending' /\ done'[c] = None
    BY <2>1, <2>5 DEF DoneInv, HandlerTypes
  <2>9. \A c \in Attempts : c = pending' \/ Waiting(c)' => done'[c] = None
    BY <2>1, <2>4, <2>5 DEF DoneInv
  <2> QED
    BY <2>3, <2>6, <2>7, <2>8, <2>9 DEF DoneInv
<1>2. CASE ~(Len(pairingCh) < ChCap)
  <2>1. reply' = [reply EXCEPT ![a] = "busy"] /\ UNCHANGED <<pairingCh, done, pending>>
    BY <1>2 DEF PostPair, sessionVars
  <2> QED
    BY <2>1, Undisturbed, PairingAssumption DEF HandlerTypes, Replies
<1> QED
  BY <1>1, <1>2

LEMMA SubmitKept == ASSUME HandlerTypes, DoneInv, SubmitCode PROVE HandlerTypes' /\ DoneInv'
<1>0. pairingCh # <<>> /\ Head(pairingCh) \in Attempts
  BY TailFacts DEF SubmitCode, HandlerTypes
<1>a. PICK a \in Attempts : a = Head(pairingCh)
  BY <1>0
<1>1. pairingCh # <<>> /\ pairingCh' = Tail(pairingCh) /\ UNCHANGED reply
  BY DEF SubmitCode
<1>2. \/ pending' = a /\ UNCHANGED done
      \/ done' = [done EXCEPT ![a] = "send_failed"] /\ UNCHANGED pending
  BY <1>a DEF SubmitCode
<1>3. /\ a \in Attempts /\ a = pairingCh[1] /\ pairingCh' \in Seq(Attempts)
      /\ Len(pairingCh) \in Nat \ {0} /\ Len(pairingCh') = Len(pairingCh) - 1
      /\ \A i \in 1 .. Len(pairingCh') : pairingCh'[i] = pairingCh[i + 1]
  BY <1>a, <1>1, TailFacts DEF HandlerTypes
<1>4. Waiting(a) /\ ~Waiting(a)'
  BY <1>3 DEF DoneInv, Waiting
<1>5. ASSUME NEW c, Waiting(c)' PROVE Waiting(c)
  BY <1>3, <1>5 DEF Waiting
<1>6. HandlerTypes'
  <2>1. done' \in [Attempts -> Results \cup {None}]
    BY <1>2, <1>3 DEF HandlerTypes, Results
  <2>2. pending' \in Attempts \cup {None}
    BY <1>2, <1>3 DEF HandlerTypes
  <2>3. Len(pairingCh') <= ChCap
    BY <1>3, PairingAssumption DEF HandlerTypes
  <2> QED
    BY <1>1, <1>3, <2>1, <2>2, <2>3 DEF HandlerTypes
<1>7. \A i, j \in 1 .. Len(pairingCh') : pairingCh'[i] = pairingCh'[j] => i = j
  BY <1>3 DEF DoneInv
<1>8. pending' # None => ~Waiting(pending)'
  BY <1>2, <1>4, <1>5 DEF DoneInv
<1>9. ASSUME NEW c \in Attempts, reply'[c] = "unused"
      PROVE  ~Waiting(c)' /\ c # pending' /\ done'[c] = None
  <2>1. ~Waiting(c) /\ c # pending /\ done[c] = None
    BY <1>1, <1>9 DEF DoneInv
  <2>2. c # a
    BY <1>4, <2>1
  <2>3. done'[c] = done[c]
    BY <1>2, <2>2 DEF HandlerTypes
  <2> QED
    BY <1>2, <1>5, <2>1, <2>2, <2>3
<1>10. \A c \in Attempts : c = pending' \/ Waiting(c)' => done'[c] = None
  <2>1. CASE pending' = a /\ UNCHANGED done
    BY <1>4, <1>5, <2>1 DEF DoneInv
  <2>2. CASE done' = [done EXCEPT ![a] = "send_failed"] /\ UNCHANGED pending
    <3>1. ASSUME NEW c \in Attempts, c = pending' \/ Waiting(c)' PROVE done'[c] = None
      <4>1. c = pending \/ Waiting(c)
        BY <1>5, <2>2, <3>1
      <4>2. c # a
        BY <1>3, <1>4, <2>2, <3>1, PairingAssumption DEF DoneInv
      <4>3. done'[c] = done[c]
        BY <2>2, <4>2 DEF HandlerTypes
      <4> QED
        BY <4>1, <4>3 DEF DoneInv
    <3> QED
      BY <3>1
  <2> QED
    BY <1>2, <2>1, <2>2
<1> QED
  BY <1>6, <1>7, <1>8, <1>9, <1>10 DEF DoneInv

-----------------------------------------------------------------------------
(* The messages.                                                           *)

LEMMA MessageFacts ==
  /\ \A m \in ToBridge :
       /\ m.type = "pairing_result" => m.result \in Judgement
       /\ m.type \in {"config", "verify_claim"} => m.name \in Tenants
  /\ \A m \in ToCloud :
       /\ m.type = "submit" => m.attempt \in Attempts
       /\ m.type = "verified" => m.name \in Tenants
BY DEF ToBridge, ToCloud

LEMMA ArrivesFacts ==
  ASSUME CloudTypes, NEW type, Arrives(type)
  PROVE  Head(toBridge) \in ToBridge /\ Head(toBridge).type = type /\ toBridge' \in Seq(ToBridge)
BY TailFacts DEF CloudTypes, Arrives

LEMMA SendType ==
  ASSUME CloudTypes, NEW ms \in Seq(ToBridge), Send(ms)
  PROVE  toBridge' \in Seq(ToBridge)
BY ConcatProperties DEF CloudTypes, Send

LEMMA HandlersKept ==
  HandlerTypes /\ DoneInv /\ CloudTypes /\ [Next]_vars => HandlerTypes' /\ DoneInv'
<1> SUFFICES ASSUME HandlerTypes, DoneInv, CloudTypes, [Next]_vars PROVE HandlerTypes' /\ DoneInv'
  OBVIOUS
<1>0. None \notin Attempts /\ 0 <= ChCap
  BY PairingAssumption
<1> USE DEF handlerVars, sessionVars
<1>1. ASSUME UNCHANGED <<handlerVars, pairingCh>>, pending' \in {pending, None} PROVE HandlerTypes' /\ DoneInv'
  BY <1>0, <1>1, Undisturbed DEF HandlerTypes
<1>2. ASSUME NEW b \in Browsers, LoadStatus(b) \/ ShowReply(b) PROVE UNCHANGED <<handlerVars, sessionVars>>
  BY <1>2 DEF LoadStatus, ShowReply
<1>3. ASSUME NEW b \in Browsers, NEW a \in Attempts, PostPair(b, a) PROVE HandlerTypes' /\ DoneInv'
  BY <1>3, PostPairKept
<1>4. ASSUME NEW a \in Attempts, Answer(a) PROVE HandlerTypes' /\ DoneInv'
  <2>1. /\ done[a] \in Results /\ reply' = [reply EXCEPT ![a] = done[a]]
        /\ done' = [done EXCEPT ![a] = None] /\ UNCHANGED <<pairingCh, pending>>
    BY <1>4 DEF Answer, HandlerTypes
  <2>2. HandlerTypes' /\ \A c \in Attempts : reply'[c] = "unused" => reply[c] = "unused"
    BY <2>1 DEF HandlerTypes, Replies, Results
  <2>3. \A c \in Attempts : done'[c] = done[c] \/ done'[c] = None
    BY <2>1 DEF HandlerTypes
  <2> QED
    BY <1>0, <2>1, <2>2, <2>3, Undisturbed
<1>5. ASSUME NEW a \in Attempts, TimeOut(a) PROVE HandlerTypes' /\ DoneInv'
  <2>1. reply' = [reply EXCEPT ![a] = "timeout"] /\ UNCHANGED <<done, pairingCh, pending>>
    BY <1>5 DEF TimeOut
  <2> QED
    BY <1>0, <2>1, Undisturbed DEF HandlerTypes, Replies
<1>6. CASE Connect
  BY <1>1, <1>6 DEF Connect
<1>7. CASE Welcome \/ SessionEnds \/ Config \/ VerifyClaim \/ Unpaired
  BY <1>1, <1>7 DEF Welcome, SessionEnds, Config, VerifyClaim, Unpaired
<1>8. CASE SubmitCode
  BY <1>8, SubmitKept
<1>9. CASE PairingResult
  <2>1. /\ pending' = None /\ UNCHANGED <<reply, pairingCh>>
        /\ IF pending = None THEN UNCHANGED done
           ELSE done' = [done EXCEPT ![pending] = Head(toBridge).result]
    BY <1>9 DEF PairingResult
  <2>2. Head(toBridge).result \in Results
    BY <1>9, ArrivesFacts, MessageFacts DEF PairingResult, Judgement, Results
  <2>3. HandlerTypes'
    BY <2>1, <2>2 DEF HandlerTypes
  <2>4. ASSUME NEW c \in Attempts, c # pending PROVE done'[c] = done[c]
    BY <2>1, <2>4 DEF HandlerTypes
  <2>5. \A c \in Attempts : Waiting(c)' <=> Waiting(c)
    BY <2>1 DEF Waiting
  <2>6. \A c \in Attempts : Waiting(c) \/ reply[c] = "unused" => c # pending
    BY <1>0 DEF DoneInv
  <2>7. \A c \in Attempts : reply'[c] = "unused" => ~Waiting(c)' /\ c # pending' /\ done'[c] = None
    BY <1>0, <2>1, <2>4, <2>5, <2>6 DEF DoneInv
  <2>8. \A c \in Attempts : c = pending' \/ Waiting(c)' => done'[c] = None
    BY <1>0, <2>1, <2>4, <2>5, <2>6 DEF DoneInv
  <2> QED
    BY <2>1, <2>3, <2>7, <2>8 DEF DoneInv
<1>10. CASE CloudNext
  BY <1>1, <1>10 DEF CloudNext, JudgeCode, ClaimVerified, SendConfig, Release, SendVerifyClaim
<1>11. CASE Break
  BY <1>1, <1>11 DEF Break
<1>12. CASE Restart
  <2>1. /\ reply' = [a \in Attempts |-> IF reply[a] = "waiting" THEN "gone" ELSE reply[a]]
        /\ done' = [a \in Attempts |-> None] /\ pairingCh' = <<>> /\ pending' = None
    BY <1>12 DEF Restart
  <2>2. HandlerTypes'
    BY <1>0, <2>1, EmptySeq DEF HandlerTypes, Replies
  <2>3. \A a \in Attempts : ~Waiting(a)' /\ done'[a] = None /\ a # pending'
    BY <1>0, <2>1 DEF Waiting
  <2> QED
    BY <2>1, <2>2, <2>3 DEF DoneInv
<1>13. CASE UNCHANGED vars
  BY <1>1, <1>13 DEF vars
<1> QED
  BY <1>1, <1>2, <1>3, <1>4, <1>5, <1>6, <1>7, <1>8, <1>9, <1>10, <1>11, <1>12, <1>13
     DEF Next, HandlerNext, SessionNext

LEMMA PagesKept ==
  PageTypes /\ [Next]_vars => PageTypes'
<1> SUFFICES ASSUME PageTypes, [Next]_vars PROVE PageTypes'
  OBVIOUS
<1> USE DEF PageTypes, pageVars
<1>1. ASSUME UNCHANGED pageVars PROVE PageTypes'
  BY <1>1
<1>2. ASSUME NEW b \in Browsers, LoadStatus(b) PROVE PageTypes'
  BY <1>2 DEF LoadStatus, Status
<1>3. ASSUME NEW b \in Browsers, ShowReply(b) PROVE PageTypes'
  BY <1>3 DEF ShowReply, Status
<1>4. ASSUME NEW b \in Browsers, NEW a \in Attempts, PostPair(b, a) PROVE PageTypes'
  BY <1>4 DEF PostPair
<1>5. CASE HandlerNext
  BY <1>1, <1>5 DEF HandlerNext, Answer, TimeOut
<1>6. CASE Connect \/ SessionNext
  BY <1>1, <1>6 DEF Connect, SessionNext, Welcome, SessionEnds, SubmitCode, PairingResult, Config,
                    VerifyClaim, Unpaired
<1>7. CASE CloudNext \/ Break \/ Restart
  BY <1>1, <1>7 DEF CloudNext, JudgeCode, ClaimVerified, SendConfig, Release, SendVerifyClaim, Break, Restart
<1>8. CASE UNCHANGED vars
  BY <1>1, <1>8 DEF vars
<1> QED
  BY <1>1, <1>2, <1>3, <1>4, <1>5, <1>6, <1>7, <1>8 DEF Next

LEMMA FlagsKept == FlagTypes /\ [Next]_vars => FlagTypes'
<1> SUFFICES ASSUME FlagTypes, [Next]_vars PROVE FlagTypes'
  OBVIOUS
<1> USE DEF FlagTypes, stateVars, netVars, cloudVars
<1>1. ASSUME NEW b \in Browsers, LoadStatus(b) \/ ShowReply(b) PROVE FlagTypes'
  BY <1>1 DEF LoadStatus, ShowReply
<1>2. ASSUME NEW b \in Browsers, NEW a \in Attempts, PostPair(b, a) PROVE FlagTypes'
  BY <1>2 DEF PostPair
<1>3. CASE HandlerNext
  BY <1>3 DEF HandlerNext, Answer, TimeOut
<1>4. CASE Connect
  BY <1>4 DEF Connect
<1>5. CASE Welcome
  BY <1>5 DEF Welcome, Unpair, InvalidateClaimToken
<1>6. CASE SessionEnds \/ SubmitCode \/ PairingResult
  BY <1>6 DEF SessionEnds, SubmitCode, PairingResult
<1>7. CASE Config \/ VerifyClaim \/ Unpaired
  BY <1>7 DEF Config, VerifyClaim, Unpaired, Unpair, InvalidateClaimToken
<1>8. CASE JudgeCode
  BY <1>8 DEF JudgeCode
<1>9. CASE ClaimVerified
  BY <1>9 DEF ClaimVerified
<1>10. CASE SendConfig \/ Release
  BY <1>10 DEF SendConfig, Release
<1>11. ASSUME NEW t \in Tenants, SendVerifyClaim(t) PROVE FlagTypes'
  BY <1>11 DEF SendVerifyClaim
<1>12. CASE Break
  BY <1>12 DEF Break
<1>13. CASE Restart
  BY <1>13 DEF Restart
<1>14. CASE UNCHANGED vars
  BY <1>14 DEF vars
<1> QED
  BY <1>1, <1>2, <1>3, <1>4, <1>5, <1>6, <1>7, <1>8, <1>9, <1>10, <1>11, <1>12, <1>13, <1>14
     DEF Next, SessionNext, CloudNext

LEMMA BoundsKept == BoundTypes /\ [Next]_vars => BoundTypes'
<1> SUFFICES ASSUME BoundTypes, [Next]_vars PROVE BoundTypes'
  OBVIOUS
<1> USE PairingAssumption DEF BoundTypes, boundVars
<1>1. ASSUME UNCHANGED boundVars PROVE BoundTypes'
  BY <1>1
<1>2. ASSUME NEW b \in Browsers, LoadStatus(b) \/ ShowReply(b) PROVE BoundTypes'
  BY <1>1, <1>2 DEF LoadStatus, ShowReply
<1>3. ASSUME NEW b \in Browsers, NEW a \in Attempts, PostPair(b, a) PROVE BoundTypes'
  BY <1>1, <1>3 DEF PostPair
<1>4. CASE HandlerNext
  BY <1>1, <1>4 DEF HandlerNext, Answer, TimeOut
<1>5. CASE Connect
  BY <1>5 DEF Connect
<1>6. CASE SessionNext
  BY <1>1, <1>6 DEF SessionNext, Welcome, SessionEnds, SubmitCode, PairingResult, Config, VerifyClaim, Unpaired
<1>7. CASE JudgeCode \/ ClaimVerified \/ Break
  BY <1>1, <1>7 DEF JudgeCode, ClaimVerified, Break
<1>8. CASE SendConfig
  BY <1>8 DEF SendConfig
<1>9. CASE Release
  BY <1>9 DEF Release
<1>10. ASSUME NEW t \in Tenants, SendVerifyClaim(t) PROVE BoundTypes'
  BY <1>10 DEF SendVerifyClaim
<1>11. CASE Restart
  BY <1>11 DEF Restart
<1>12. CASE UNCHANGED vars
  BY <1>1, <1>12 DEF vars
<1> QED
  BY <1>2, <1>3, <1>4, <1>5, <1>6, <1>7, <1>8, <1>9, <1>10, <1>11, <1>12 DEF Next, CloudNext

LEMMA CloudKept == CloudTypes /\ HandlerTypes /\ [Next]_vars => CloudTypes'
<1> SUFFICES ASSUME CloudTypes, HandlerTypes, [Next]_vars PROVE CloudTypes'
  OBVIOUS
<1> USE DEF CloudTypes, stateVars, netVars, cloudVars, sessionVars
<1>0. <<>> \in Seq(ToCloud) /\ <<>> \in Seq(ToBridge)
  BY EmptySeq
<1>1. ASSUME UNCHANGED <<stateVars, netVars, cloudVars, phase>> PROVE CloudTypes'
  BY <1>1
<1>2. ASSUME NEW b \in Browsers, LoadStatus(b) \/ ShowReply(b) PROVE CloudTypes'
  BY <1>1, <1>2 DEF LoadStatus, ShowReply
<1>3. ASSUME NEW b \in Browsers, NEW a \in Attempts, PostPair(b, a) PROVE CloudTypes'
  BY <1>1, <1>3 DEF PostPair
<1>4. CASE HandlerNext
  BY <1>1, <1>4 DEF HandlerNext, Answer, TimeOut
<1>5. CASE Connect
  <2>1. \A s \in {"UNCLAIMED", "ACTIVE"} : <<[type |-> "welcome", status |-> s]>> \in Seq(ToBridge)
    BY DEF ToBridge
  <2>2. toBridge' \in Seq(ToBridge)
    BY <1>5, <2>1 DEF Connect
  <2> QED
    BY <1>0, <1>5, <2>2 DEF Connect
<1>6. CASE Welcome
  BY <1>6, ArrivesFacts DEF Welcome, Unpair, InvalidateClaimToken
<1>7. CASE SessionEnds
  BY <1>0, <1>7 DEF SessionEnds
<1>8. CASE SubmitCode
  <2>1. [type |-> "submit", attempt |-> Head(pairingCh)] \in ToCloud
    BY <1>8, TailFacts DEF SubmitCode, HandlerTypes, ToCloud
  <2>2. toCloud' \in Seq(ToCloud)
    <3>1. toCloud' \in {toCloud, Append(toCloud, [type |-> "submit", attempt |-> Head(pairingCh)])}
      BY <1>8 DEF SubmitCode
    <3>2. Append(toCloud, [type |-> "submit", attempt |-> Head(pairingCh)]) \in Seq(ToCloud)
      BY <2>1, AppendProperties
    <3> QED
      BY <3>1, <3>2
  <2> QED
    BY <1>8, <2>2 DEF SubmitCode
<1>9. CASE PairingResult
  BY <1>9, ArrivesFacts DEF PairingResult
<1>10. CASE Config
  BY <1>10, ArrivesFacts, MessageFacts DEF Config
<1>11. CASE VerifyClaim
  <2>1. toBridge' \in Seq(ToBridge) /\ Head(toBridge).name \in Tenants
    BY <1>11, ArrivesFacts, MessageFacts DEF VerifyClaim
  <2>2. \A ok \in BOOLEAN : [type |-> "verified", name |-> Head(toBridge).name, ok |-> ok] \in ToCloud
    BY <2>1 DEF ToCloud
  <2>3. toCloud' \in Seq(ToCloud)
    BY <1>11, <2>2, AppendProperties DEF VerifyClaim
  <2> QED
    BY <1>11, <2>1, <2>3 DEF VerifyClaim
<1>12. CASE Unpaired
  BY <1>12, ArrivesFacts DEF Unpaired, Unpair
<1>13. CASE JudgeCode
  <2>1. /\ toCloud # <<>> /\ Head(toCloud).type = "submit" /\ toCloud' = Tail(toCloud)
        /\ UNCHANGED <<phase, tenant>>
    BY <1>13 DEF JudgeCode
  <2>2. Head(toCloud).attempt \in Attempts /\ toCloud' \in Seq(ToCloud)
    BY <2>1, TailFacts, MessageFacts
  <2>3. owner' \in Tenants \cup {None} /\ verdict' \in [Attempts -> Judgement \cup {None}]
    BY <1>13, <2>2 DEF JudgeCode, Judgement
  <2>4. toBridge' \in Seq(ToBridge)
    <3>1. /\ \A r \in Judgement : <<[type |-> "pairing_result", result |-> r]>> \in Seq(ToBridge)
          /\ \A t \in Tenants : <<ConfigFor(t)>> \in Seq(ToBridge)
      BY DEF ToBridge, ConfigFor
    <3>2. "ok" \in Judgement /\ "refused" \in Judgement
      BY DEF Judgement
    <3>3. CASE Send(<<[type |-> "pairing_result", result |-> "refused"]>>)
      BY <3>1, <3>2, <3>3, SendType
    <3>4. ASSUME NEW t \in Tenants,
                 Send((IF configFirst THEN <<ConfigFor(t)>> ELSE <<>>)
                        \o <<[type |-> "pairing_result", result |-> "ok"]>>)
          PROVE  toBridge' \in Seq(ToBridge)
      <4>1. (IF configFirst THEN <<ConfigFor(t)>> ELSE <<>>) \in Seq(ToBridge)
        BY <1>0, <3>1
      <4>2. (IF configFirst THEN <<ConfigFor(t)>> ELSE <<>>)
              \o <<[type |-> "pairing_result", result |-> "ok"]>> \in Seq(ToBridge)
        BY <3>1, <3>2, <4>1, ConcatProperties
      <4> QED
        BY <3>4, <4>2, SendType
    <3> QED
      BY <1>13, <3>3, <3>4 DEF JudgeCode
  <2> QED
    BY <2>1, <2>2, <2>3, <2>4
<1>14. CASE ClaimVerified
  <2>1. toCloud # <<>> /\ Head(toCloud).type = "verified" /\ toCloud' = Tail(toCloud)
    BY <1>14 DEF ClaimVerified
  <2>2. Head(toCloud).name \in Tenants /\ toCloud' \in Seq(ToCloud)
    BY <2>1, TailFacts, MessageFacts
  <2> QED
    BY <1>14, <2>2 DEF ClaimVerified
<1>15. CASE SendConfig
  <2>1. <<ConfigFor(owner)>> \in Seq(ToBridge)
    BY <1>15 DEF SendConfig, ConfigFor, ToBridge
  <2>2. toBridge' \in Seq(ToBridge)
    BY <1>15, <2>1, SendType, Zenon DEF SendConfig
  <2> QED
    BY <1>15, <2>2 DEF SendConfig
<1>16. CASE Release
  <2>1. <<[type |-> "unpaired"]>> \in Seq(ToBridge)
    BY DEF ToBridge
  <2> QED
    BY <1>16, <2>1, SendType DEF Release
<1>17. ASSUME NEW t \in Tenants, SendVerifyClaim(t) PROVE CloudTypes'
  <2>1. <<[type |-> "verify_claim", name |-> t]>> \in Seq(ToBridge)
    BY DEF ToBridge
  <2> QED
    BY <1>17, <2>1, SendType DEF SendVerifyClaim
<1>18. CASE Break
  <2>1. PICK n \in 0 .. Len(toBridge) : toBridge' = SubSeq(toBridge, 1, n)
    BY <1>18 DEF Break
  <2>2. toBridge' \in Seq(ToBridge)
    BY <2>1, PrefixType
  <2> QED
    BY <1>18, <2>2 DEF Break
<1>19. CASE Restart
  BY <1>0, <1>19 DEF Restart
<1>20. CASE UNCHANGED vars
  BY <1>1, <1>20 DEF vars
<1> QED
  BY <1>2, <1>3, <1>4, <1>5, <1>6, <1>7, <1>8, <1>9, <1>10, <1>11, <1>12, <1>13, <1>14, <1>15,
     <1>16, <1>17, <1>18, <1>19, <1>20
     DEF Next, SessionNext, CloudNext

-----------------------------------------------------------------------------

IInv == TypeOK /\ DoneInv

LEMMA InitOK == Init => IInv
<1> SUFFICES ASSUME Init PROVE IInv
  OBVIOUS
<1> USE PairingAssumption DEF Init
<1>1. HandlerTypes
  BY EmptySeq DEF HandlerTypes, Replies
<1>2. PageTypes
  BY DEF PageTypes
<1>3. CloudTypes
  BY EmptySeq DEF CloudTypes
<1>4. FlagTypes
  BY DEF FlagTypes
<1>5. BoundTypes
  BY DEF BoundTypes
<1>6. DoneInv
  BY DEF DoneInv, Waiting
<1> QED
  BY <1>1, <1>2, <1>3, <1>4, <1>5, <1>6, TypeParts DEF IInv

LEMMA InvariantHolds == Safety => []IInv
<1>1. TypeOK' <=> HandlerTypes' /\ PageTypes' /\ CloudTypes' /\ FlagTypes' /\ BoundTypes'
  BY DEF TypeOK, HandlerTypes, PageTypes, CloudTypes, FlagTypes, BoundTypes
<1>2. IInv /\ [Next]_vars => IInv'
  BY <1>1, TypeParts, HandlersKept, PagesKept, CloudKept, FlagsKept, BoundsKept DEF IInv
<1> QED
  BY InitOK, <1>2, PTL DEF Safety

-----------------------------------------------------------------------------
(* Elements of sequences, by their places.                                 *)

LEMMA TailPlaces ==
  ASSUME NEW S, NEW s \in Seq(S), s # <<>>
  PROVE  /\ Len(s) \in Nat \ {0} /\ Len(Tail(s)) = Len(s) - 1 /\ 1 \in 1 .. Len(s) /\ Head(s) = s[1]
         /\ Head(s) \in S
         /\ \A i \in 1 .. Len(Tail(s)) : i + 1 \in 1 .. Len(s) /\ i + 1 # 1 /\ Tail(s)[i] = s[i + 1]
         /\ \A k \in 1 .. Len(s) : k # 1 => k - 1 \in 1 .. Len(Tail(s)) /\ Tail(s)[k - 1] = s[k]
<1>1. /\ Head(s) = s[1] /\ Len(s) \in Nat \ {0} /\ Len(Tail(s)) = Len(s) - 1 /\ Head(s) \in S
      /\ \A i \in 1 .. Len(Tail(s)) : Tail(s)[i] = s[i + 1]
  BY TailFacts
<1>2. \A i \in 1 .. Len(Tail(s)) : i + 1 \in 1 .. Len(s) /\ i + 1 # 1
  BY <1>1
<1>3. ASSUME NEW k \in 1 .. Len(s), k # 1
      PROVE  k - 1 \in 1 .. Len(Tail(s)) /\ Tail(s)[k - 1] = s[k]
  <2>1. k - 1 \in 1 .. Len(Tail(s)) /\ (k - 1) + 1 = k
    BY <1>1, <1>3
  <2> QED
    BY <1>1, <2>1
<1> QED
  BY <1>1, <1>2, <1>3

LEMMA AppendPlaces ==
  ASSUME NEW S, NEW s \in Seq(S), NEW e \in S
  PROVE  /\ Len(s) \in Nat /\ Append(s, e) \in Seq(S)
         /\ 1 .. Len(Append(s, e)) = 1 .. Len(s) \cup {Len(s) + 1}
         /\ \A i \in 1 .. Len(s) : Append(s, e)[i] = s[i]
         /\ Append(s, e)[Len(s) + 1] = e /\ Len(s) + 1 \notin 1 .. Len(s)
<1>1. Len(s) \in Nat /\ Len(Append(s, e)) = Len(s) + 1
  BY LenProperties, AppendFacts
<1> QED
  BY <1>1, AppendFacts

LEMMA PrefixPlaces ==
  ASSUME NEW S, NEW s \in Seq(S), NEW n \in 0 .. Len(s)
  PROVE  /\ SubSeq(s, 1, n) \in Seq(S) /\ 1 .. Len(SubSeq(s, 1, n)) \subseteq 1 .. Len(s)
         /\ \A i \in 1 .. Len(SubSeq(s, 1, n)) : SubSeq(s, 1, n)[i] = s[i]
<1>1. Len(s) \in Nat /\ n \in Nat /\ n <= Len(s)
  BY LenProperties
<1>2. \A j \in 1 .. n : s[j] \in S
  BY <1>1, ElementOfSeq
<1>3. /\ Len(SubSeq(s, 1, n)) = n /\ SubSeq(s, 1, n) \in Seq(S)
      /\ \A i \in 1 .. n : SubSeq(s, 1, n)[i] = s[i]
  BY <1>1, <1>2, SubSeqProperties
<1> QED
  BY <1>1, <1>3

-----------------------------------------------------------------------------
(* The way of a code to the cloud: it is submitted once, and has no        *)
(* judgement before it arrives there.                                      *)

Submitted(a) == \E i \in 1 .. Len(toCloud) : toCloud[i].type = "submit" /\ toCloud[i].attempt = a

SubmittedOnce ==
  \A i, k \in 1 .. Len(toCloud) :
    toCloud[i].type = "submit" /\ toCloud[k].type = "submit"
      /\ toCloud[i].attempt = toCloud[k].attempt => i = k

CodesInv ==
  /\ SubmittedOnce
  /\ \A a \in Attempts : Waiting(a) \/ reply[a] = "unused" \/ Submitted(a) => verdict[a] = None
  /\ \A a \in Attempts : Waiting(a) \/ reply[a] = "unused" => ~Submitted(a)
  /\ \A a \in Attempts : a = pending \/ Waiting(a) => reply[a] \notin Judgement

CodeTypes ==
  /\ HandlerTypes /\ DoneInv /\ None \notin Attempts /\ None \notin Judgement
  /\ toCloud \in Seq(ToCloud) /\ toBridge \in Seq(ToBridge)
  /\ verdict \in [Attempts -> Judgement \cup {None}]

\* The cloud takes the first message, or a message is put behind the others.
LEMMA CloudTakes ==
  ASSUME toCloud \in Seq(ToCloud), toCloud # <<>>, toCloud' = Tail(toCloud), SubmittedOnce
  PROVE  /\ SubmittedOnce' /\ \A a : Submitted(a)' => Submitted(a)
         /\ Head(toCloud).type = "submit" => /\ Submitted(Head(toCloud).attempt)
                                             /\ \A a : a = Head(toCloud).attempt => ~Submitted(a)'
<1>1. /\ Len(toCloud) \in Nat \ {0} /\ 1 \in 1 .. Len(toCloud) /\ Head(toCloud) = toCloud[1]
      /\ \A i \in 1 .. Len(toCloud') : i + 1 \in 1 .. Len(toCloud) /\ i + 1 # 1 /\ toCloud'[i] = toCloud[i + 1]
  BY TailPlaces
<1>2. SubmittedOnce'
  <2> SUFFICES ASSUME NEW i \in 1 .. Len(toCloud'), NEW k \in 1 .. Len(toCloud'),
                      toCloud'[i].type = "submit", toCloud'[k].type = "submit",
                      toCloud'[i].attempt = toCloud'[k].attempt
               PROVE  i = k
    BY DEF SubmittedOnce
  <2>1. i + 1 = k + 1
    BY <1>1 DEF SubmittedOnce
  <2> QED
    BY <2>1
<1> QED
  BY <1>1, <1>2 DEF Submitted, SubmittedOnce

LEMMA CloudGets ==
  ASSUME toCloud \in Seq(ToCloud), NEW m \in ToCloud, toCloud' = Append(toCloud, m), SubmittedOnce,
         m.type = "submit" => ~Submitted(m.attempt)
  PROVE  /\ SubmittedOnce'
         /\ \A a : Submitted(a)' => Submitted(a) \/ (m.type = "submit" /\ a = m.attempt)
<1>1. /\ Len(toCloud) \in Nat
      /\ 1 .. Len(toCloud') = 1 .. Len(toCloud) \cup {Len(toCloud) + 1}
      /\ \A i \in 1 .. Len(toCloud) : toCloud'[i] = toCloud[i]
      /\ toCloud'[Len(toCloud) + 1] = m
  BY AppendPlaces
<1> QED
  BY <1>1 DEF Submitted, SubmittedOnce

\* Steps that take codes off the way and judge none.
LEMMA CodesUntouched ==
  ASSUME CodesInv, UNCHANGED <<pairingCh, verdict>>, pending' \in {pending, None}, None \notin Attempts,
         \/ UNCHANGED toCloud
         \/ SubmittedOnce' /\ \A a : Submitted(a)' => Submitted(a),
         \A a \in Attempts : reply'[a] = reply[a]
              \/ (reply'[a] # "unused" /\ (a = pending \/ Waiting(a) => reply'[a] \notin Judgement))
  PROVE  CodesInv'
<1>1. SubmittedOnce' /\ \A a : Submitted(a)' => Submitted(a)
  BY DEF CodesInv, SubmittedOnce, Submitted
<1>2. \A a : Waiting(a)' <=> Waiting(a)
  BY DEF Waiting
<1> QED
  BY <1>1, <1>2 DEF CodesInv

LEMMA CodesKept ==
  ASSUME CodeTypes, CloudTypes, CodesInv, [Next]_vars
  PROVE  CodesInv'
<1>0. /\ None \notin Attempts /\ HandlerTypes /\ DoneInv /\ SubmittedOnce
      /\ toCloud \in Seq(ToCloud) /\ verdict \in [Attempts -> Judgement \cup {None}]
  BY DEF CodeTypes, CodesInv
<1> USE DEF handlerVars, sessionVars, cloudVars, netVars
<1>1. ASSUME UNCHANGED <<pairingCh, reply, toCloud, verdict>>, pending' \in {pending, None} PROVE CodesInv'
  BY <1>0, <1>1, CodesUntouched
<1>2. ASSUME NEW b \in Browsers, LoadStatus(b) \/ ShowReply(b) PROVE CodesInv'
  BY <1>1, <1>2 DEF LoadStatus, ShowReply
<1>3. ASSUME NEW b \in Browsers, NEW a \in Attempts, PostPair(b, a) PROVE CodesInv'
  <2>1. /\ reply[a] = "unused" /\ UNCHANGED <<pending, toCloud, verdict>>
        /\ \/ reply' = [reply EXCEPT ![a] = "waiting"] /\ pairingCh' = Append(pairingCh, a)
           \/ reply' = [reply EXCEPT ![a] = "busy"] /\ UNCHANGED pairingCh
    BY <1>3 DEF PostPair
  <2>2. \A c \in Attempts : Waiting(c)' => Waiting(c) \/ c = a
    <3>1. CASE pairingCh' = Append(pairingCh, a)
      <4>1. /\ 1 .. Len(pairingCh') = 1 .. Len(pairingCh) \cup {Len(pairingCh) + 1}
            /\ \A i \in 1 .. Len(pairingCh) : pairingCh'[i] = pairingCh[i]
            /\ pairingCh'[Len(pairingCh) + 1] = a
        BY <1>0, <3>1, AppendPlaces DEF HandlerTypes
      <4> QED
        BY <4>1 DEF Waiting
    <3>2. CASE UNCHANGED pairingCh
      BY <3>2 DEF Waiting
    <3> QED
      BY <2>1, <3>1, <3>2
  <2>3. /\ reply'[a] \in {"waiting", "busy"}
        /\ \A c \in Attempts : c # a => reply'[c] = reply[c]
    BY <1>0, <2>1 DEF HandlerTypes
  <2>4. verdict[a] = None /\ ~Submitted(a)
    BY <2>1 DEF CodesInv
  <2>5. SubmittedOnce' /\ \A c : Submitted(c)' <=> Submitted(c)
    BY <1>0, <2>1 DEF SubmittedOnce, Submitted
  <2> QED
    BY <2>1, <2>2, <2>3, <2>4, <2>5 DEF CodesInv, Judgement
<1>4. ASSUME NEW a \in Attempts, Answer(a) PROVE CodesInv'
  <2>1. /\ done[a] # None /\ done[a] \in Results /\ UNCHANGED <<pairingCh, pending, toCloud, verdict>>
        /\ \A c \in Attempts : reply'[c] = IF c = a THEN done[a] ELSE reply[c]
    BY <1>0, <1>4 DEF Answer, HandlerTypes
  <2>2. ~(a = pending \/ Waiting(a))
    BY <1>0, <2>1 DEF DoneInv
  <2> QED
    BY <1>0, <2>1, <2>2, CodesUntouched DEF Results
<1>5. ASSUME NEW a \in Attempts, TimeOut(a) PROVE CodesInv'
  <2>1. /\ UNCHANGED <<pairingCh, pending, toCloud, verdict>>
        /\ \A c \in Attempts : reply'[c] = IF c = a THEN "timeout" ELSE reply[c]
    BY <1>0, <1>5 DEF TimeOut, HandlerTypes
  <2> QED
    BY <1>0, <2>1, CodesUntouched DEF Judgement
<1>6. CASE Connect
  <2>1. SubmittedOnce' /\ \A a : ~Submitted(a)'
    BY <1>6 DEF Connect, SubmittedOnce, Submitted
  <2> QED
    BY <1>0, <1>6, <2>1, CodesUntouched DEF Connect
<1>7. CASE Welcome \/ SessionEnds \/ PairingResult \/ Config \/ Unpaired
  BY <1>1, <1>7 DEF Welcome, SessionEnds, PairingResult, Config, Unpaired
<1>8. CASE SubmitCode
  <2>1. /\ pairingCh # <<>> /\ pairingCh' = Tail(pairingCh) /\ UNCHANGED <<reply, verdict>>
        /\ pending' \in {pending, Head(pairingCh)}
        /\ toCloud' \in {toCloud, Append(toCloud, [type |-> "submit", attempt |-> Head(pairingCh)])}
    BY <1>8 DEF SubmitCode
  <2>2. PICK a \in Attempts : a = Head(pairingCh)
    BY <1>0, <2>1, TailPlaces DEF HandlerTypes
  <2>3. Waiting(a) /\ ~Waiting(a)' /\ \A c : Waiting(c)' => Waiting(c)
    <3>1. /\ 1 \in 1 .. Len(pairingCh) /\ a = pairingCh[1]
          /\ \A i \in 1 .. Len(pairingCh') :
               i + 1 \in 1 .. Len(pairingCh) /\ i + 1 # 1 /\ pairingCh'[i] = pairingCh[i + 1]
      BY <1>0, <2>1, <2>2, TailPlaces DEF HandlerTypes
    <3> QED
      BY <1>0, <3>1 DEF DoneInv, Waiting
  <2>4. reply[a] # "unused" /\ reply[a] \notin Judgement /\ verdict[a] = None /\ ~Submitted(a)
    BY <1>0, <2>3 DEF DoneInv, CodesInv
  <2>5. SubmittedOnce' /\ \A c : Submitted(c)' => Submitted(c) \/ c = a
    <3>1. CASE toCloud' = toCloud
      BY <1>0, <3>1 DEF SubmittedOnce, Submitted
    <3>2. CASE toCloud' = Append(toCloud, [type |-> "submit", attempt |-> a])
      <4>1. [type |-> "submit", attempt |-> a] \in ToCloud
        BY DEF ToCloud
      <4> QED
        BY <1>0, <2>4, <3>2, <4>1, CloudGets
    <3> QED
      BY <2>1, <2>2, <3>1, <3>2
  <2> QED
    BY <2>1, <2>2, <2>3, <2>4, <2>5 DEF CodesInv
<1>9. CASE VerifyClaim
  <2>1. /\ UNCHANGED <<pairingCh, pending, reply, verdict>>
        /\ \E ok \in BOOLEAN :
             toCloud' \in {toCloud, Append(toCloud, [type |-> "verified", name |-> Head(toBridge).name, ok |-> ok])}
    BY <1>9 DEF VerifyClaim
  <2>2. Head(toBridge).name \in Tenants
    BY <1>9, ArrivesFacts, MessageFacts DEF VerifyClaim
  <2>3. SubmittedOnce' /\ \A a : Submitted(a)' => Submitted(a)
    <3>1. CASE toCloud' = toCloud
      BY <1>0, <3>1 DEF SubmittedOnce, Submitted
    <3>2. ASSUME NEW ok \in BOOLEAN,
                 toCloud' = Append(toCloud, [type |-> "verified", name |-> Head(toBridge).name, ok |-> ok])
          PROVE  SubmittedOnce' /\ \A a : Submitted(a)' => Submitted(a)
      <4>1. [type |-> "verified", name |-> Head(toBridge).name, ok |-> ok] \in ToCloud
        BY <2>2 DEF ToCloud
      <4>2. PICK m \in ToCloud : toCloud' = Append(toCloud, m) /\ m.type = "verified"
        BY <3>2, <4>1
      <4> QED
        BY <1>0, <4>2, CloudGets
    <3> QED
      BY <2>1, <3>1, <3>2
  <2> QED
    BY <1>0, <2>1, <2>3, CodesUntouched
<1>10. CASE JudgeCode
  <2>1. /\ toCloud # <<>> /\ Head(toCloud).type = "submit" /\ toCloud' = Tail(toCloud)
        /\ UNCHANGED <<pairingCh, pending, reply>>
        /\ \E v \in Judgement : verdict' = [verdict EXCEPT ![Head(toCloud).attempt] = v]
    BY <1>10 DEF JudgeCode, Judgement
  <2>2. PICK a \in Attempts : a = Head(toCloud).attempt
    BY <1>0, <2>1, TailPlaces, MessageFacts
  <2>3. Submitted(a) /\ ~Submitted(a)' /\ SubmittedOnce' /\ \A c : Submitted(c)' => Submitted(c)
    BY <1>0, <2>1, <2>2, CloudTakes
  <2>4. ~Waiting(a) /\ reply[a] # "unused"
    BY <2>3 DEF CodesInv
  <2>5. \A c \in Attempts : c # a => verdict'[c] = verdict[c]
    BY <1>0, <2>1, <2>2
  <2>6. \A c : Waiting(c)' <=> Waiting(c)
    BY <2>1 DEF Waiting
  <2> QED
    BY <2>1, <2>3, <2>4, <2>5, <2>6 DEF CodesInv
<1>11. CASE ClaimVerified
  <2>1. toCloud # <<>> /\ toCloud' = Tail(toCloud) /\ UNCHANGED <<pairingCh, pending, reply, verdict>>
    BY <1>11 DEF ClaimVerified
  <2>2. SubmittedOnce' /\ \A c : Submitted(c)' => Submitted(c)
    BY <1>0, <2>1, CloudTakes
  <2> QED
    BY <1>0, <2>1, <2>2, CodesUntouched
<1>12. CASE SendConfig \/ Release \/ Break \/ \E t \in Tenants : SendVerifyClaim(t)
  BY <1>1, <1>12 DEF SendConfig, Release, SendVerifyClaim, Break
<1>13. CASE Restart
  <2>1. /\ UNCHANGED <<toCloud, verdict>> /\ pairingCh' = <<>> /\ pending' = None
        /\ reply' = [a \in Attempts |-> IF reply[a] = "waiting" THEN "gone" ELSE reply[a]]
    BY <1>13 DEF Restart
  <2>2. \A a : ~Waiting(a)' /\ (Submitted(a)' <=> Submitted(a))
    BY <2>1 DEF Waiting, Submitted
  <2>3. SubmittedOnce'
    BY <1>0, <2>1 DEF SubmittedOnce
  <2> QED
    BY <1>0, <2>1, <2>2, <2>3 DEF CodesInv
<1>14. CASE UNCHANGED vars
  BY <1>1, <1>14 DEF vars
<1> QED
  BY <1>2, <1>3, <1>4, <1>5, <1>6, <1>7, <1>8, <1>9, <1>10, <1>11, <1>12, <1>13, <1>14
     DEF Next, HandlerNext, SessionNext, CloudNext

-----------------------------------------------------------------------------
(* What a step does to the messages on their way to the bridge.            *)

LEMMA Arrived ==
  ASSUME CloudTypes, NEW type, Arrives(type)
  PROVE  /\ 1 \in 1 .. Len(toBridge) /\ Head(toBridge) = toBridge[1] /\ toBridge[1].type = type
         /\ toBridge[1] \in ToBridge
         /\ \A i \in 1 .. Len(toBridge') :
              i + 1 \in 1 .. Len(toBridge) /\ i + 1 # 1 /\ toBridge'[i] = toBridge[i + 1]
         /\ \A k \in 1 .. Len(toBridge) :
              k # 1 => k - 1 \in 1 .. Len(toBridge') /\ toBridge'[k - 1] = toBridge[k]
<1>1. toBridge # <<>> /\ Head(toBridge).type = type /\ toBridge' = Tail(toBridge) /\ toBridge \in Seq(ToBridge)
  BY DEF Arrives, CloudTypes
<1> QED
  BY <1>1, TailPlaces

\* The message m is put behind the others.
Added(m) ==
  /\ \A i \in 1 .. Len(toBridge) : i \in 1 .. Len(toBridge') /\ toBridge'[i] = toBridge[i]
  /\ Len(toBridge) + 1 \in 1 .. Len(toBridge') /\ toBridge'[Len(toBridge) + 1] = m
  /\ \A i \in 1 .. Len(toBridge') : i \in 1 .. Len(toBridge) \/ i = Len(toBridge) + 1
  /\ Len(toBridge) + 1 \notin 1 .. Len(toBridge) /\ Len(toBridge) \in Nat

LEMMA SentOne ==
  ASSUME CloudTypes, NEW m \in ToBridge, Send(<<m>>)
  PROVE  (live => Added(m)) /\ (~live => UNCHANGED toBridge)
<1>1. /\ <<m>> \in Seq(ToBridge) /\ Len(<<m>>) = 1 /\ <<m>>[1] = m /\ toBridge \in Seq(ToBridge)
      /\ Len(toBridge) \in Nat
  BY LenProperties DEF CloudTypes
<1>2. ASSUME toBridge' = toBridge \o <<m>> PROVE Added(m)
  <2>1. /\ Len(toBridge') = Len(toBridge) + 1
        /\ \A i \in 1 .. Len(toBridge) + 1 :
             toBridge'[i] = IF i <= Len(toBridge) THEN toBridge[i] ELSE <<m>>[i - Len(toBridge)]
    BY <1>1, <1>2, ConcatProperties
  <2> QED
    BY <1>1, <2>1 DEF Added
<1>3. live => toBridge' = toBridge \o <<m>>
  BY DEF Send
<1>4. ~live => toBridge' = toBridge
  BY DEF Send
<1> QED
  BY <1>2, <1>3, <1>4

Verdict(r) == [type |-> "pairing_result", result |-> r]

\* The messages c and m are put behind the others.
AddedTwo(c, m) ==
  /\ \A i \in 1 .. Len(toBridge) : i \in 1 .. Len(toBridge') /\ toBridge'[i] = toBridge[i]
  /\ Len(toBridge) + 1 \in 1 .. Len(toBridge') /\ toBridge'[Len(toBridge) + 1] = c
  /\ Len(toBridge) + 2 \in 1 .. Len(toBridge') /\ toBridge'[Len(toBridge) + 2] = m
  /\ \A i \in 1 .. Len(toBridge') :
       i \in 1 .. Len(toBridge) \/ i = Len(toBridge) + 1 \/ i = Len(toBridge) + 2
  /\ Len(toBridge) + 1 \notin 1 .. Len(toBridge) /\ Len(toBridge) + 2 \notin 1 .. Len(toBridge)
  /\ Len(toBridge) \in Nat

LEMMA SentTwo ==
  ASSUME CloudTypes, NEW c \in ToBridge, NEW m \in ToBridge, Send(<<c>> \o <<m>>)
  PROVE  (live => AddedTwo(c, m)) /\ (~live => UNCHANGED toBridge)
<1>0. PICK ms \in Seq(ToBridge) : ms = <<c>> \o <<m>> /\ Len(ms) = 2 /\ ms[1] = c /\ ms[2] = m
  <2>1. /\ <<c>> \in Seq(ToBridge) /\ Len(<<c>>) = 1 /\ <<c>>[1] = c
        /\ <<m>> \in Seq(ToBridge) /\ Len(<<m>>) = 1 /\ <<m>>[1] = m
    OBVIOUS
  <2>2. /\ <<c>> \o <<m>> \in Seq(ToBridge)
        /\ Len(<<c>> \o <<m>>) = Len(<<c>>) + Len(<<m>>)
        /\ \A i \in 1 .. Len(<<c>>) + Len(<<m>>) :
             (<<c>> \o <<m>>)[i] = IF i <= Len(<<c>>) THEN <<c>>[i] ELSE <<m>>[i - Len(<<c>>)]
    BY <2>1, ConcatProperties
  <2>3. (<<c>> \o <<m>>)[1] = c /\ (<<c>> \o <<m>>)[2] = m
    BY <2>1, <2>2
  <2>4. Len(<<c>> \o <<m>>) = 2
    BY <2>1, <2>2
  <2> QED
    BY <2>2, <2>3, <2>4, Zenon
<1>1. toBridge \in Seq(ToBridge) /\ Len(toBridge) \in Nat
  BY LenProperties DEF CloudTypes
<1>2. ASSUME toBridge' = toBridge \o ms PROVE AddedTwo(c, m)
  <2>1. /\ Len(toBridge') = Len(toBridge) + 2
        /\ \A i \in 1 .. Len(toBridge) + 2 :
             toBridge'[i] = IF i <= Len(toBridge) THEN toBridge[i] ELSE ms[i - Len(toBridge)]
    BY <1>0, <1>1, <1>2, ConcatProperties
  <2> QED
    BY <1>0, <1>1, <2>1 DEF AddedTwo
<1>3. live => toBridge' = toBridge \o ms
  BY <1>0 DEF Send
<1>4. ~live => toBridge' = toBridge
  BY DEF Send
<1> QED
  BY <1>2, <1>3, <1>4

\* What the cloud does with a code.
LEMMA CodeJudged ==
  ASSUME CloudTypes, JudgeCode
  PROVE  \E a \in Attempts :
           /\ Submitted(a) /\ toCloud # <<>> /\ toCloud' = Tail(toCloud)
           /\ Head(toCloud).type = "submit"
           /\ \/ /\ verdict' = [verdict EXCEPT ![a] = "refused"]
                 /\ Send(<<Verdict("refused")>>)
                 /\ UNCHANGED <<owner, owes>>
              \/ /\ owner = None /\ owner' \in Tenants /\ verdict' = [verdict EXCEPT ![a] = "ok"]
                 /\ owes' = ~configFirst
                 /\ configFirst => Send(<<ConfigFor(owner')>> \o <<Verdict("ok")>>)
                 /\ ~configFirst => Send(<<Verdict("ok")>>)
<1>1. toCloud # <<>> /\ Head(toCloud).type = "submit" /\ toCloud' = Tail(toCloud) /\ toCloud \in Seq(ToCloud)
  BY DEF JudgeCode, CloudTypes
<1>2. PICK a \in Attempts : a = Head(toCloud).attempt
  BY <1>1, TailPlaces, MessageFacts
<1>3. Submitted(a)
  BY <1>1, <1>2, TailPlaces DEF Submitted
<1>4. CASE /\ verdict' = [verdict EXCEPT ![a] = "refused"]
           /\ Send(<<[type |-> "pairing_result", result |-> "refused"]>>)
           /\ UNCHANGED <<owner, owes>>
  BY <1>1, <1>3, <1>4 DEF Verdict
<1>5. ASSUME owner = None, verdict' = [verdict EXCEPT ![a] = "ok"], NEW t \in Tenants, owner' = t,
             owes' = ~configFirst,
             Send((IF configFirst THEN <<ConfigFor(t)>> ELSE <<>>)
                    \o <<[type |-> "pairing_result", result |-> "ok"]>>)
      PROVE  /\ owner = None /\ owner' \in Tenants /\ verdict' = [verdict EXCEPT ![a] = "ok"]
             /\ owes' = ~configFirst
             /\ configFirst => Send(<<ConfigFor(owner')>> \o <<Verdict("ok")>>)
             /\ ~configFirst => Send(<<Verdict("ok")>>)
  <2>1. <<>> \o <<Verdict("ok")>> = <<Verdict("ok")>>
    OBVIOUS
  <2>2. CASE configFirst
    BY <1>5, <2>2 DEF Verdict
  <2>3. CASE ~configFirst
    BY <1>5, <2>1, <2>3 DEF Verdict
  <2> QED
    BY <1>5, <2>2, <2>3
<1> QED
  BY <1>1, <1>2, <1>3, <1>4, <1>5 DEF JudgeCode

-----------------------------------------------------------------------------
(* Who is told what.                                                       *)

IsResult(m) == m.type = "pairing_result"

\* A step in which nothing is judged and no page is told a judgement; results
\* on their way may get lost or come nearer.
NoNewResult ==
  \E d \in {0, 1} : \A i \in 1 .. Len(toBridge') :
    IsResult(toBridge'[i]) => i + d \in 1 .. Len(toBridge) /\ toBridge'[i] = toBridge[i + d]

ToldNoMore == \A a \in Attempts, r \in Judgement : Told(a, r)' => Told(a, r)

Quiet ==
  /\ UNCHANGED verdict /\ NoNewResult /\ ToldNoMore
  /\ pending' \in {pending, None} \/ \E a \in Attempts : Waiting(a) /\ pending' = a

LEMMA NoNewMessage ==
  ASSUME CloudTypes,
         \/ UNCHANGED toBridge
         \/ toBridge' = <<>>
         \/ \E type : Arrives(type)
         \/ \E m \in ToBridge : Send(<<m>>) /\ ~IsResult(m)
         \/ \E m \in ToBridge : toBridge' = <<m>> /\ ~IsResult(m)
         \/ \E n \in 0 .. Len(toBridge) : toBridge' = SubSeq(toBridge, 1, n)
  PROVE  NoNewResult
<1>0. toBridge \in Seq(ToBridge) /\ Len(toBridge) \in Nat
  BY LenProperties DEF CloudTypes
<1>1. ASSUME UNCHANGED toBridge PROVE NoNewResult
  BY <1>0, <1>1 DEF NoNewResult
<1>2. CASE toBridge' = <<>>
  BY <1>2 DEF NoNewResult
<1>3. ASSUME NEW type, Arrives(type) PROVE NoNewResult
  BY <1>3, Arrived DEF NoNewResult
<1>4. ASSUME NEW m \in ToBridge, Send(<<m>>), ~IsResult(m) PROVE NoNewResult
  <2>1. CASE live
    <3>1. Added(m)
      BY <1>4, <2>1, SentOne
    <3>2. \A i \in 1 .. Len(toBridge') :
            IsResult(toBridge'[i]) => i + 0 \in 1 .. Len(toBridge) /\ toBridge'[i] = toBridge[i + 0]
      BY <1>4, <3>1 DEF Added
    <3> QED
      BY <3>2 DEF NoNewResult
  <2>2. CASE ~live
    BY <1>1, <1>4, <2>2, SentOne
  <2> QED
    BY <2>1, <2>2
<1>5. ASSUME NEW m \in ToBridge, toBridge' = <<m>>, ~IsResult(m) PROVE NoNewResult
  BY <1>5 DEF NoNewResult
<1>6. ASSUME NEW n \in 0 .. Len(toBridge), toBridge' = SubSeq(toBridge, 1, n) PROVE NoNewResult
  <2>1. /\ 1 .. Len(toBridge') \subseteq 1 .. Len(toBridge)
        /\ \A i \in 1 .. Len(toBridge') : toBridge'[i] = toBridge[i]
    BY <1>0, <1>6, PrefixPlaces
  <2>2. \A i \in 1 .. Len(toBridge') :
          IsResult(toBridge'[i]) => i + 0 \in 1 .. Len(toBridge) /\ toBridge'[i] = toBridge[i + 0]
    BY <1>0, <2>1
  <2> QED
    BY <2>2 DEF NoNewResult
<1> QED
  BY <1>1, <1>2, <1>3, <1>4, <1>5, <1>6

LEMMA QuietSteps ==
  ASSUME CodeTypes, CloudTypes, [Next]_vars
  PROVE  Quiet \/ PairingResult \/ JudgeCode
<1>0. HandlerTypes /\ \A a \in Attempts : Waiting(a) => a # None
  BY DEF CodeTypes
<1> USE DEF handlerVars, sessionVars, cloudVars, netVars
<1>1. UNCHANGED handlerVars => ToldNoMore
  BY DEF ToldNoMore, Told
<1>2. ASSUME NEW b \in Browsers, LoadStatus(b) \/ ShowReply(b) PROVE Quiet
  BY <1>1, <1>2, NoNewMessage DEF LoadStatus, ShowReply, Quiet
<1>3. ASSUME NEW b \in Browsers, NEW a \in Attempts, PostPair(b, a) PROVE Quiet
  <2>1. /\ UNCHANGED <<done, pending, toBridge, verdict>>
        /\ reply' \in {[reply EXCEPT ![a] = "waiting"], [reply EXCEPT ![a] = "busy"]}
    BY <1>3 DEF PostPair
  <2>2. ToldNoMore
    BY <1>0, <2>1 DEF ToldNoMore, Told, Judgement, HandlerTypes
  <2> QED
    BY <2>1, <2>2, NoNewMessage DEF Quiet
<1>4. ASSUME NEW a \in Attempts, Answer(a) PROVE Quiet
  <2>1. /\ UNCHANGED <<pending, toBridge, verdict>>
        /\ reply' = [reply EXCEPT ![a] = done[a]] /\ done' = [done EXCEPT ![a] = None]
    BY <1>4 DEF Answer
  <2>2. ToldNoMore
    BY <1>0, <2>1 DEF CodeTypes, ToldNoMore, Told, HandlerTypes
  <2> QED
    BY <2>1, <2>2, NoNewMessage DEF Quiet
<1>5. ASSUME NEW a \in Attempts, TimeOut(a) PROVE Quiet
  <2>1. UNCHANGED <<done, pending, toBridge, verdict>> /\ reply' = [reply EXCEPT ![a] = "timeout"]
    BY <1>5 DEF TimeOut
  <2>2. ToldNoMore
    BY <1>0, <2>1 DEF ToldNoMore, Told, Judgement, HandlerTypes
  <2> QED
    BY <2>1, <2>2, NoNewMessage DEF Quiet
<1>6. CASE Connect
  <2>1. \E m \in ToBridge : toBridge' = <<m>> /\ ~IsResult(m)
    <3>1. /\ [type |-> "welcome", status |-> IF owner = None THEN "UNCLAIMED" ELSE "ACTIVE"] \in ToBridge
          /\ toBridge' = << [type |-> "welcome", status |-> IF owner = None THEN "UNCLAIMED" ELSE "ACTIVE"] >>
      BY <1>6 DEF Connect, ToBridge
    <3> QED
      BY <3>1 DEF IsResult
  <2> QED
    BY <1>1, <1>6, <2>1, NoNewMessage DEF Connect, Quiet
<1>7. CASE Welcome \/ Config \/ VerifyClaim \/ Unpaired
  <2>1. \E type : Arrives(type)
    BY <1>7 DEF Welcome, Config, VerifyClaim, Unpaired
  <2> QED
    BY <1>1, <1>7, <2>1, NoNewMessage DEF Welcome, Config, VerifyClaim, Unpaired, Quiet
<1>8. CASE SessionEnds
  BY <1>1, <1>8, NoNewMessage DEF SessionEnds, Quiet
<1>9. CASE SubmitCode
  <2>1. PICK a \in Attempts : a = Head(pairingCh) /\ Waiting(a)
    BY <1>0, <1>9, TailPlaces DEF SubmitCode, HandlerTypes, Waiting
  <2>2. /\ UNCHANGED <<toBridge, verdict, reply>> /\ pending' \in {pending, a}
        /\ done' \in {done, [done EXCEPT ![a] = "send_failed"]}
    BY <1>9, <2>1 DEF SubmitCode
  <2>3. ToldNoMore
    BY <1>0, <2>2 DEF ToldNoMore, Told, Judgement, HandlerTypes
  <2> QED
    BY <2>1, <2>2, <2>3, NoNewMessage DEF Quiet
<1>10. CASE ClaimVerified
  BY <1>1, <1>10, NoNewMessage DEF ClaimVerified, Quiet
<1>11. CASE SendConfig
  <2>1. ConfigFor(owner) \in ToBridge /\ Send(<<ConfigFor(owner)>>) /\ ~IsResult(ConfigFor(owner))
    BY <1>11 DEF SendConfig, ConfigFor, ToBridge, IsResult, CloudTypes
  <2> QED
    BY <1>1, <1>11, <2>1, NoNewMessage DEF SendConfig, Quiet
<1>12. ASSUME NEW t \in Tenants, SendVerifyClaim(t) PROVE Quiet
  <2>1. \E m \in ToBridge : Send(<<m>>) /\ ~IsResult(m)
    <3>1. /\ [type |-> "verify_claim", name |-> t] \in ToBridge /\ ~IsResult([type |-> "verify_claim", name |-> t])
          /\ Send(<<[type |-> "verify_claim", name |-> t]>>)
      BY <1>12 DEF SendVerifyClaim, ToBridge, IsResult
    <3> QED
      BY <3>1
  <2> QED
    BY <1>1, <1>12, <2>1, NoNewMessage DEF SendVerifyClaim, Quiet
<1>13. CASE Release
  <2>1. \E m \in ToBridge : Send(<<m>>) /\ ~IsResult(m)
    <3>1. /\ [type |-> "unpaired"] \in ToBridge /\ ~IsResult([type |-> "unpaired"])
          /\ Send(<<[type |-> "unpaired"]>>)
      BY <1>13 DEF Release, ToBridge, IsResult
    <3> QED
      BY <3>1
  <2> QED
    BY <1>1, <1>13, <2>1, NoNewMessage DEF Release, Quiet
<1>14. CASE Break
  BY <1>1, <1>14, NoNewMessage DEF Break, Quiet
<1>15. CASE Restart
  <2>1. /\ toBridge' = <<>> /\ pending' = None /\ UNCHANGED verdict
        /\ reply' = [a \in Attempts |-> IF reply[a] = "waiting" THEN "gone" ELSE reply[a]]
        /\ done' = [a \in Attempts |-> None]
    BY <1>15 DEF Restart
  <2>2. ToldNoMore
    BY <2>1 DEF CodeTypes, ToldNoMore, Told, Judgement
  <2> QED
    BY <2>1, <2>2, NoNewMessage DEF Quiet
<1>16. CASE UNCHANGED vars
  BY <1>1, <1>16, NoNewMessage DEF vars, Quiet
<1> QED
  BY <1>2, <1>3, <1>4, <1>5, <1>6, <1>7, <1>8, <1>9, <1>10, <1>11, <1>12, <1>13, <1>14, <1>15, <1>16
     DEF Next, HandlerNext, SessionNext, CloudNext

\* A code that was judged and whose page is not told, and never will be.
Lost(c) == verdict[c] # None /\ c # pending /\ \A r \in Judgement : ~Told(c, r)

\* The one result under way is that of the code the session waits for, and all
\* that pages were told is right.
AllRight ==
  /\ \A a \in Attempts, r \in Judgement : Told(a, r) => verdict[a] = r
  /\ \A i \in 1 .. Len(toBridge) : IsResult(toBridge[i]) =>
       pending # None /\ verdict[pending] = toBridge[i].result
  /\ \A i, k \in 1 .. Len(toBridge) : IsResult(toBridge[i]) /\ IsResult(toBridge[k]) => i = k

LostInv == (\E c \in Attempts : Lost(c)) \/ AllRight

\* A code the session gives up after its judgement is lost.
LEMMA GivenUp ==
  ASSUME CodeTypes, CodesInv, ToldNoMore, NEW c \in Attempts, c = pending, pending' # c,
         verdict'[c] = verdict[c], verdict[c] # None
  PROVE  Lost(c)'
<1>1. \A r \in Judgement : ~Told(c, r)
  BY DEF CodeTypes, DoneInv, CodesInv, Told
<1> QED
  BY <1>1 DEF Lost, ToldNoMore

LEMMA LostQuietly ==
  ASSUME CodeTypes, CodesInv, LostInv, Quiet
  PROVE  LostInv'
<1>1. /\ None \notin Attempts /\ UNCHANGED verdict /\ NoNewResult /\ ToldNoMore
      /\ pending' \in {pending, None} \/ \E a \in Attempts : Waiting(a) /\ pending' = a
      /\ pending \in Attempts \cup {None}
  BY DEF Quiet, CodeTypes, HandlerTypes
<1>2. ASSUME NEW c \in Attempts, Lost(c) PROVE Lost(c)'
  <2>1. ~Waiting(c)
    BY <1>2 DEF Lost, CodesInv
  <2> QED
    BY <1>1, <1>2, <2>1 DEF Lost, ToldNoMore
<1>3. ASSUME AllRight PROVE LostInv'
  <2>1. ASSUME pending # None, pending' # pending, verdict[pending] # None PROVE LostInv'
    <3>1. PICK c \in Attempts : c = pending
      BY <1>1, <2>1
    <3>2. Lost(c)'
      BY <1>1, <2>1, <3>1, GivenUp
    <3> QED
      BY <3>2 DEF LostInv
  <2>2. ASSUME pending' = pending \/ pending = None \/ verdict[pending] = None PROVE AllRight'
    <3>1. \A a \in Attempts, r \in Judgement : Told(a, r)' => verdict'[a] = r
      BY <1>1, <1>3 DEF AllRight, ToldNoMore
    <3>2. PICK d \in {0, 1} : \A i \in 1 .. Len(toBridge') :
            IsResult(toBridge'[i]) => i + d \in 1 .. Len(toBridge) /\ toBridge'[i] = toBridge[i + d]
      BY <1>1 DEF NoNewResult
    <3>3. ASSUME NEW i \in 1 .. Len(toBridge'), IsResult(toBridge'[i])
          PROVE  pending # None /\ verdict[pending] = toBridge'[i].result
      BY <3>2, <3>3, <1>3 DEF AllRight
    <3>4. ASSUME NEW i \in 1 .. Len(toBridge'), IsResult(toBridge'[i])
          PROVE  pending' = pending
      <4>1. toBridge[i + d] \in ToBridge /\ toBridge[i + d] = toBridge'[i]
        BY <3>2, <3>4, ElementOfSeq DEF CodeTypes
      <4>2. toBridge'[i].result \in Judgement
        BY <3>4, <4>1, MessageFacts DEF IsResult
      <4>3. pending # None /\ verdict[pending] = toBridge'[i].result
        BY <3>3, <3>4
      <4> QED
        BY <2>2, <4>2, <4>3 DEF CodeTypes
    <3>5. \A i \in 1 .. Len(toBridge') : IsResult(toBridge'[i]) =>
            pending' # None /\ verdict'[pending'] = toBridge'[i].result
      BY <1>1, <3>3, <3>4
    <3>6. ASSUME NEW i \in 1 .. Len(toBridge'), NEW k \in 1 .. Len(toBridge'),
                 IsResult(toBridge'[i]), IsResult(toBridge'[k])
          PROVE  i = k
      <4>1. i + d = k + d
        BY <3>2, <3>6, <1>3 DEF AllRight
      <4> QED
        BY <4>1
    <3> QED
      BY <3>1, <3>5, <3>6 DEF AllRight
  <2> QED
    BY <1>1, <2>1, <2>2 DEF LostInv
<1> QED
  BY <1>2, <1>3 DEF LostInv

LEMMA LostAtResult ==
  ASSUME CodeTypes, CloudTypes, CodesInv, LostInv, PairingResult
  PROVE  LostInv'
<1>1. /\ None \notin Attempts /\ None \notin Judgement /\ pending' = None /\ UNCHANGED <<verdict, reply>>
      /\ pending = None => UNCHANGED done
      /\ pending # None => done' = [done EXCEPT ![pending] = Head(toBridge).result]
      /\ done \in [Attempts -> Results \cup {None}] /\ pending \in Attempts \cup {None}
  BY DEF PairingResult, CodeTypes, HandlerTypes, cloudVars
<1>2. /\ 1 \in 1 .. Len(toBridge) /\ Head(toBridge) = toBridge[1] /\ IsResult(toBridge[1])
      /\ \A i \in 1 .. Len(toBridge') :
           i + 1 \in 1 .. Len(toBridge) /\ i + 1 # 1 /\ toBridge'[i] = toBridge[i + 1]
  BY Arrived DEF PairingResult, IsResult
<1>3. ASSUME NEW c \in Attempts, Lost(c) PROVE Lost(c)'
  <2>1. done'[c] = done[c]
    BY <1>1, <1>3 DEF Lost
  <2>2. \A r : Told(c, r)' <=> Told(c, r)
    BY <1>1, <2>1 DEF Told
  <2> QED
    BY <1>1, <1>3, <2>2 DEF Lost
<1>4. ASSUME AllRight PROVE AllRight'
  <2>1. pending # None /\ verdict[pending] = Head(toBridge).result
    BY <1>2, <1>4 DEF AllRight
  <2>2. \A a \in Attempts : done'[a] = IF a = pending THEN verdict[a] ELSE done[a]
    BY <1>1, <2>1
  <2>3. \A a \in Attempts, r \in Judgement : Told(a, r)' => verdict'[a] = r
    BY <1>1, <1>4, <2>2 DEF Told, AllRight
  <2>4. \A i \in 1 .. Len(toBridge') : ~IsResult(toBridge'[i])
    BY <1>2, <1>4 DEF AllRight
  <2> QED
    BY <2>3, <2>4 DEF AllRight
<1> QED
  BY <1>3, <1>4 DEF LostInv

LEMMA LostAtJudgement ==
  ASSUME CodeTypes, CloudTypes, CodesInv, LostInv, JudgeCode
  PROVE  LostInv'
<1>0. /\ None \notin Attempts /\ None \notin Judgement /\ UNCHANGED <<done, reply, pending>>
      /\ verdict \in [Attempts -> Judgement \cup {None}] /\ Len(toBridge) \in Nat
      /\ "ok" \in Judgement /\ "refused" \in Judgement
  BY LenProperties DEF JudgeCode, CodeTypes, Judgement, handlerVars, sessionVars
<1>1. PICK a \in Attempts, r \in Judgement :
        /\ Submitted(a) /\ verdict' = [verdict EXCEPT ![a] = r]
        /\ Send(<<Verdict(r)>>) \/ \E c \in ToBridge : ~IsResult(c) /\ Send(<<c>> \o <<Verdict(r)>>)
  <2>1. \A t \in Tenants : ConfigFor(t) \in ToBridge /\ ~IsResult(ConfigFor(t))
    BY DEF ConfigFor, ToBridge, IsResult
  <2> QED
    BY <1>0, <2>1, CodeJudged
<1>2. verdict[a] = None /\ \A c \in Attempts : verdict'[c] = IF c = a THEN r ELSE verdict[c]
  BY <1>0, <1>1 DEF CodesInv
<1>3. \A c, s : Told(c, s)' <=> Told(c, s)
  BY <1>0 DEF Told
<1>4. ASSUME NEW c \in Attempts, Lost(c) PROVE Lost(c)'
  BY <1>0, <1>2, <1>3, <1>4 DEF Lost
<1>5. ASSUME AllRight, a # pending PROVE Lost(a)'
  BY <1>0, <1>2, <1>3, <1>5 DEF AllRight, Lost
<1>6. ASSUME AllRight, a = pending PROVE AllRight'
  <2>1. ASSUME NEW i \in 1 .. Len(toBridge) PROVE ~IsResult(toBridge[i])
    <3>1. IsResult(toBridge[i]) => toBridge[i].result \in Judgement
      BY ElementOfSeq, MessageFacts DEF CloudTypes, IsResult
    <3> QED
      BY <1>0, <1>2, <1>6, <3>1 DEF AllRight
  <2>2. IsResult(Verdict(r)) /\ Verdict(r).result = r /\ Verdict(r) \in ToBridge
    BY DEF IsResult, Verdict, ToBridge
  <2>3. \E n \in Nat : \A i \in 1 .. Len(toBridge') :
          IsResult(toBridge'[i]) => i = n /\ toBridge'[i].result = r
    <3>1. CASE UNCHANGED toBridge
      BY <2>1, <3>1
    <3>2. ASSUME Send(<<Verdict(r)>>), live
          PROVE  \A i \in 1 .. Len(toBridge') :
                   IsResult(toBridge'[i]) => i = Len(toBridge) + 1 /\ toBridge'[i].result = r
      <4>1. Added(Verdict(r))
        BY <2>2, <3>2, SentOne
      <4> QED
        BY <2>1, <2>2, <4>1 DEF Added
    <3>3. ASSUME NEW c \in ToBridge, ~IsResult(c), Send(<<c>> \o <<Verdict(r)>>), live
          PROVE  \A i \in 1 .. Len(toBridge') :
                   IsResult(toBridge'[i]) => i = Len(toBridge) + 2 /\ toBridge'[i].result = r
      <4>1. AddedTwo(c, Verdict(r))
        BY <2>2, <3>3, SentTwo
      <4> QED
        BY <2>1, <2>2, <3>3, <4>1 DEF AddedTwo
    <3>4. CASE ~live
      <4>1. UNCHANGED toBridge
        BY <1>1, <2>2, <3>4, SentOne, SentTwo
      <4> QED
        BY <3>1, <4>1
    <3>5. Len(toBridge) + 1 \in Nat /\ Len(toBridge) + 2 \in Nat
      BY <1>0
    <3> QED
      BY <1>1, <3>2, <3>3, <3>4, <3>5
  <2>4. \A i \in 1 .. Len(toBridge') : IsResult(toBridge'[i]) =>
          pending' # None /\ verdict'[pending'] = toBridge'[i].result
    BY <1>0, <1>2, <1>6, <2>3
  <2>5. \A c \in Attempts, s \in Judgement : Told(c, s)' => verdict'[c] = s
    BY <1>0, <1>2, <1>3, <1>6 DEF AllRight
  <2> QED
    BY <2>3, <2>4, <2>5 DEF AllRight
<1> QED
  BY <1>4, <1>5, <1>6 DEF LostInv

LEMMA LostKept ==
  CodeTypes /\ CloudTypes /\ CodesInv /\ LostInv /\ [Next]_vars => LostInv'
BY QuietSteps, LostQuietly, LostAtResult, LostAtJudgement

LEMMA LostExplains ==
  ASSUME LostInv PROVE MismatchExplained
BY DEF LostInv, AllRight, Lost, MismatchExplained

-----------------------------------------------------------------------------
(* How many are told.                                                      *)

Coming(r)  == {i \in 1 .. Len(toBridge) : IsResult(toBridge[i]) /\ toBridge[i].result = r}
ToldSet(r) == {a \in Attempts : Told(a, r)}
Judged(r)  == {a \in Attempts : verdict[a] = r}

\* The judgements told and those under way are no more than those made.
CountInv ==
  \A r \in Judgement : Cardinality(ToldSet(r)) + Cardinality(Coming(r)) <= Cardinality(Judged(r))

\* A set of places shifted into another has no more elements.
LEMMA Shifted ==
  ASSUME NEW S \in SUBSET Nat, NEW T, IsFiniteSet(T), NEW d \in Nat, \A i \in S : i + d \in T
  PROVE  IsFiniteSet(S) /\ Cardinality(S) <= Cardinality(T)
<1> DEFINE f == [i \in S |-> i + d]
<1>1. \A i, k \in S : i + d = k + d => i = k
  OBVIOUS
<1>2. f \in Injection(S, T)
  BY <1>1, Fun_IsInj
<1> QED
  BY <1>2, FS_Injection

LEMMA OneMore ==
  ASSUME NEW S, NEW x, IsFiniteSet(S)
  PROVE  IsFiniteSet(S \cup {x}) /\ Cardinality(S \cup {x}) <= Cardinality(S) + 1
<1>1. IsFiniteSet(S \cup {x}) /\ Cardinality(S) \in Nat
  BY FS_AddElement, FS_CardinalityType
<1>2. Cardinality(S \cup {x}) = IF x \in S THEN Cardinality(S) ELSE Cardinality(S) + 1
  BY FS_AddElement
<1> QED
  BY <1>1, <1>2

LEMMA Counts ==
  ASSUME IsFiniteSet(Attempts), CloudTypes, NEW r
  PROVE  /\ IsFiniteSet(ToldSet(r)) /\ Cardinality(ToldSet(r)) \in Nat
         /\ IsFiniteSet(Judged(r)) /\ Cardinality(Judged(r)) \in Nat
         /\ IsFiniteSet(Coming(r)) /\ Cardinality(Coming(r)) \in Nat
         /\ Coming(r) \subseteq 1 .. Len(toBridge) /\ Coming(r) \in SUBSET Nat
<1>1. ToldSet(r) \in SUBSET Attempts /\ Judged(r) \in SUBSET Attempts
  BY DEF ToldSet, Judged
<1>2. Len(toBridge) \in Nat /\ Coming(r) \in SUBSET (1 .. Len(toBridge))
  BY LenProperties DEF Coming, CloudTypes
<1>3. IsFiniteSet(1 .. Len(toBridge))
  BY <1>2, FS_Interval
<1>4. IsFiniteSet(ToldSet(r)) /\ IsFiniteSet(Judged(r)) /\ IsFiniteSet(Coming(r))
  BY <1>1, <1>2, <1>3, FS_Subset
<1> QED
  BY <1>2, <1>4, FS_CardinalityType

LEMMA CountQuietly ==
  ASSUME IsFiniteSet(Attempts), CloudTypes, CloudTypes', CountInv, Quiet
  PROVE  CountInv'
<1> SUFFICES ASSUME NEW r \in Judgement
             PROVE  Cardinality(ToldSet(r)') + Cardinality(Coming(r)') <= Cardinality(Judged(r)')
  BY DEF CountInv
<1>1. ToldSet(r)' \subseteq ToldSet(r) /\ Judged(r)' = Judged(r)
  BY DEF Quiet, ToldNoMore, ToldSet, Judged
<1>2. Cardinality(ToldSet(r)') <= Cardinality(ToldSet(r))
  BY <1>1, Counts, FS_Subset
<1>3. Coming(r)' \in SUBSET Nat
  BY LenProperties DEF Coming, CloudTypes
<1>4. PICK d \in {0, 1} : \A i \in Coming(r)' : i + d \in Coming(r)
  BY DEF Quiet, NoNewResult, Coming
<1>5. IsFiniteSet(Coming(r)') /\ Cardinality(Coming(r)') <= Cardinality(Coming(r))
  BY <1>3, <1>4, Shifted, Counts
<1>6. IsFiniteSet(ToldSet(r)') /\ Cardinality(ToldSet(r)') \in Nat /\ Cardinality(Coming(r)') \in Nat
  BY <1>1, <1>5, Counts, FS_Subset, FS_CardinalityType
<1> QED
  BY <1>1, <1>2, <1>5, <1>6, Counts DEF CountInv

LEMMA CountAtResult ==
  ASSUME IsFiniteSet(Attempts), CodeTypes, CloudTypes, CloudTypes', CountInv, PairingResult
  PROVE  CountInv'
<1> SUFFICES ASSUME NEW r \in Judgement
             PROVE  Cardinality(ToldSet(r)') + Cardinality(Coming(r)') <= Cardinality(Judged(r)')
  BY DEF CountInv
<1>1. /\ None \notin Attempts /\ UNCHANGED <<verdict, reply>>
      /\ pending = None => UNCHANGED done
      /\ pending # None => done' = [done EXCEPT ![pending] = Head(toBridge).result]
      /\ done \in [Attempts -> Results \cup {None}] /\ pending \in Attempts \cup {None}
  BY DEF PairingResult, CodeTypes, HandlerTypes, cloudVars
<1>2. /\ 1 \in 1 .. Len(toBridge) /\ Head(toBridge) = toBridge[1] /\ IsResult(toBridge[1])
      /\ \A i \in 1 .. Len(toBridge') :
           i + 1 \in 1 .. Len(toBridge) /\ i + 1 # 1 /\ toBridge'[i] = toBridge[i + 1]
  BY Arrived DEF PairingResult, IsResult
<1>3. Judged(r)' = Judged(r)
  BY <1>1 DEF Judged
<1>4. Coming(r)' \in SUBSET Nat
  BY LenProperties DEF Coming, CloudTypes
<1>5. \A i \in Coming(r)' : i + 1 \in Coming(r) \ {1}
  BY <1>2 DEF Coming
<1>6. IsFiniteSet(Coming(r) \ {1}) /\ Cardinality(Coming(r) \ {1}) = IF 1 \in Coming(r) THEN Cardinality(Coming(r)) - 1
                                                                   ELSE Cardinality(Coming(r))
  BY Counts, FS_RemoveElement
<1>7. IsFiniteSet(Coming(r)') /\ Cardinality(Coming(r)') <= Cardinality(Coming(r) \ {1})
  BY <1>4, <1>5, <1>6, Shifted
<1>8. CASE Head(toBridge).result = r
  <2>1. ToldSet(r)' \subseteq ToldSet(r) \cup {pending}
    BY <1>1 DEF ToldSet, Told
  <2>2. /\ IsFiniteSet(ToldSet(r) \cup {pending})
        /\ Cardinality(ToldSet(r) \cup {pending}) <= Cardinality(ToldSet(r)) + 1
    BY Counts, OneMore
  <2>3. /\ IsFiniteSet(ToldSet(r)')
        /\ Cardinality(ToldSet(r)') <= Cardinality(ToldSet(r) \cup {pending})
    BY <2>1, <2>2, FS_Subset
  <2>4. 1 \in Coming(r)
    BY <1>2, <1>8 DEF Coming
  <2>5. Cardinality(ToldSet(r)') \in Nat /\ Cardinality(Coming(r)') \in Nat
        /\ Cardinality(ToldSet(r) \cup {pending}) \in Nat
    BY <1>7, <2>2, <2>3, FS_CardinalityType
  <2> QED
    BY <1>3, <1>6, <1>7, <2>2, <2>3, <2>4, <2>5, Counts DEF CountInv
<1>9. CASE Head(toBridge).result # r
  <2>1. ToldSet(r)' \subseteq ToldSet(r)
    BY <1>1, <1>9 DEF ToldSet, Told
  <2>2. IsFiniteSet(ToldSet(r)') /\ Cardinality(ToldSet(r)') <= Cardinality(ToldSet(r))
    BY <2>1, Counts, FS_Subset
  <2>3. Cardinality(ToldSet(r)') \in Nat /\ Cardinality(Coming(r)') \in Nat
    BY <1>7, <2>2, FS_CardinalityType
  <2> QED
    BY <1>3, <1>6, <1>7, <2>2, <2>3, Counts DEF CountInv
<1> QED
  BY <1>8, <1>9

\* Behind the others comes one result at most, the judgement just made.
LEMMA ComingAtJudgement ==
  ASSUME CloudTypes, NEW v \in Judgement,
         Send(<<Verdict(v)>>) \/ \E c \in ToBridge : ~IsResult(c) /\ Send(<<c>> \o <<Verdict(v)>>)
  PROVE  \E n : \A r : Coming(r)' \subseteq IF r = v THEN Coming(r) \cup {n} ELSE Coming(r)
<1>1. IsResult(Verdict(v)) /\ Verdict(v).result = v /\ Verdict(v) \in ToBridge
  BY DEF IsResult, Verdict, ToBridge
<1>2. CASE UNCHANGED toBridge
  BY <1>2 DEF Coming
<1>3. ASSUME Send(<<Verdict(v)>>), live
      PROVE  \A r : Coming(r)' \subseteq IF r = v THEN Coming(r) \cup {Len(toBridge) + 1} ELSE Coming(r)
  <2>1. Added(Verdict(v))
    BY <1>1, <1>3, SentOne
  <2> QED
    BY <1>1, <2>1 DEF Added, Coming
<1>4. ASSUME NEW c \in ToBridge, ~IsResult(c), Send(<<c>> \o <<Verdict(v)>>), live
      PROVE  \A r : Coming(r)' \subseteq IF r = v THEN Coming(r) \cup {Len(toBridge) + 2} ELSE Coming(r)
  <2>1. AddedTwo(c, Verdict(v))
    BY <1>1, <1>4, SentTwo
  <2> QED
    BY <1>1, <1>4, <2>1 DEF AddedTwo, Coming
<1>5. CASE ~live
  <2>1. UNCHANGED toBridge
    BY <1>1, <1>5, SentOne, SentTwo
  <2> QED
    BY <1>2, <2>1
<1> QED
  BY <1>3, <1>4, <1>5

LEMMA CountAtJudgement ==
  ASSUME IsFiniteSet(Attempts), CodeTypes, CloudTypes, CodesInv, CountInv, JudgeCode
  PROVE  CountInv'
<1>0. /\ None \notin Judgement /\ UNCHANGED <<done, reply>>
      /\ verdict \in [Attempts -> Judgement \cup {None}]
      /\ "ok" \in Judgement /\ "refused" \in Judgement
  BY DEF JudgeCode, CodeTypes, Judgement, handlerVars
<1>1. PICK a \in Attempts, v \in Judgement :
        /\ Submitted(a) /\ verdict' = [verdict EXCEPT ![a] = v]
        /\ Send(<<Verdict(v)>>) \/ \E c \in ToBridge : ~IsResult(c) /\ Send(<<c>> \o <<Verdict(v)>>)
  <2>1. \A t \in Tenants : ConfigFor(t) \in ToBridge /\ ~IsResult(ConfigFor(t))
    BY DEF ConfigFor, ToBridge, IsResult
  <2> QED
    BY <1>0, <2>1, CodeJudged
<1>2. verdict[a] = None /\ \A c \in Attempts : verdict'[c] = IF c = a THEN v ELSE verdict[c]
  BY <1>0, <1>1 DEF CodesInv
<1>3. PICK n : \A r : Coming(r)' \subseteq IF r = v THEN Coming(r) \cup {n} ELSE Coming(r)
  BY <1>1, ComingAtJudgement
<1> SUFFICES ASSUME NEW r \in Judgement
             PROVE  Cardinality(ToldSet(r)') + Cardinality(Coming(r)') <= Cardinality(Judged(r)')
  BY DEF CountInv
<1>4. ToldSet(r)' = ToldSet(r)
  BY <1>0 DEF ToldSet, Told
<1>5. CASE r = v
  <2>1. Judged(r)' = Judged(r) \cup {a} /\ a \notin Judged(r)
    BY <1>0, <1>2, <1>5 DEF Judged
  <2>2. Cardinality(Judged(r)') = Cardinality(Judged(r)) + 1
    BY <2>1, Counts, FS_AddElement
  <2>3. /\ IsFiniteSet(Coming(r) \cup {n}) /\ Cardinality(Coming(r) \cup {n}) <= Cardinality(Coming(r)) + 1
        /\ Coming(r)' \subseteq Coming(r) \cup {n}
    BY <1>3, <1>5, Counts, OneMore
  <2>4. IsFiniteSet(Coming(r)') /\ Cardinality(Coming(r)') <= Cardinality(Coming(r) \cup {n})
    BY <2>3, FS_Subset
  <2>5. Cardinality(Coming(r)') \in Nat /\ Cardinality(Coming(r) \cup {n}) \in Nat
    BY <2>3, <2>4, FS_CardinalityType
  <2> QED
    BY <1>4, <2>2, <2>3, <2>4, <2>5, Counts DEF CountInv
<1>6. CASE r # v
  <2>1. Judged(r)' = Judged(r)
    BY <1>0, <1>2, <1>6 DEF Judged
  <2>2. Coming(r)' \subseteq Coming(r)
    BY <1>3, <1>6
  <2>3. IsFiniteSet(Coming(r)') /\ Cardinality(Coming(r)') <= Cardinality(Coming(r))
    BY <2>2, Counts, FS_Subset
  <2>4. Cardinality(Coming(r)') \in Nat
    BY <2>3, FS_CardinalityType
  <2> QED
    BY <1>4, <2>1, <2>3, <2>4, Counts DEF CountInv
<1> QED
  BY <1>5, <1>6

LEMMA CountKept ==
  ASSUME IsFiniteSet(Attempts)
  PROVE  CodeTypes /\ CloudTypes /\ CloudTypes' /\ CodesInv /\ CountInv /\ [Next]_vars => CountInv'
BY QuietSteps, CountQuietly, CountAtResult, CountAtJudgement

LEMMA CountBounds ==
  ASSUME IsFiniteSet(Attempts), CloudTypes, CountInv PROVE ResultsToldOnce
<1> SUFFICES ASSUME NEW r \in Judgement PROVE Cardinality(ToldSet(r)) <= Cardinality(Judged(r))
  BY DEF ResultsToldOnce, ToldSet, Judged
<1>1. Cardinality(ToldSet(r)) \in Nat /\ Cardinality(Coming(r)) \in Nat /\ Cardinality(Judged(r)) \in Nat
  BY Counts
<1> QED
  BY <1>1 DEF CountInv

-----------------------------------------------------------------------------
(* The handshake and the end of a claim.                                   *)

\* Nothing precedes the handshake on a connection, the status in it is not yet
\* out of date if it says UNCLAIMED, and no claim is ended but by a release.
WireInv ==
  /\ phase = "hello" => toCloud = <<>>
  /\ \A i \in 1 .. Len(toBridge) : toBridge[i].type = "welcome" =>
       i = 1 /\ phase = "hello" /\ (toBridge[i].status = "UNCLAIMED" => owner = None)
  /\ \A i \in 1 .. Len(toBridge) : toBridge[i].type = "unpaired" => releases > 0

\* Some messages of before, in their order, and none or one or two behind them.
LEMMA WireMoves ==
  ASSUME CloudTypes, CodeTypes, BoundTypes, WireInv, phase' = "hello" => toCloud' = <<>>,
         phase' = phase \/ \A i \in 1 .. Len(toBridge') : toBridge'[i].type # "welcome",
         phase = "hello" /\ owner = None => owner' = None, releases' \in {releases, releases + 1},
         \A i \in 1 .. Len(toBridge') :
           \/ \E k \in 1 .. Len(toBridge) : toBridge'[i] = toBridge[k] /\ (k = 1 => i = 1)
           \/ toBridge'[i].type \notin {"welcome", "unpaired"}
           \/ toBridge'[i].type = "unpaired" /\ releases' > 0
  PROVE  WireInv'
<1>1. releases \in Nat
  BY DEF BoundTypes
<1>2. \A i \in 1 .. Len(toBridge') : toBridge'[i].type = "unpaired" => releases' > 0
  BY <1>1 DEF WireInv
<1>3. ASSUME NEW i \in 1 .. Len(toBridge'), toBridge'[i].type = "welcome"
      PROVE  i = 1 /\ phase' = "hello" /\ (toBridge'[i].status = "UNCLAIMED" => owner' = None)
  <2>1. PICK k \in 1 .. Len(toBridge) : toBridge'[i] = toBridge[k] /\ (k = 1 => i = 1)
    BY <1>3
  <2> QED
    BY <1>3, <2>1 DEF WireInv
<1> QED
  BY <1>2, <1>3 DEF WireInv

\* Every message was there before, or is one of N.
FromBefore(N) ==
  \A i \in 1 .. Len(toBridge') :
    \/ \E k \in 1 .. Len(toBridge) : toBridge'[i] = toBridge[k] /\ (k = 1 => i = 1)
    \/ toBridge'[i] \in N

LEMMA NoneAdded ==
  ASSUME CloudTypes,
         \/ UNCHANGED toBridge \/ toBridge' = <<>>
         \/ \E type : Arrives(type)
         \/ \E n \in 0 .. Len(toBridge) : toBridge' = SubSeq(toBridge, 1, n)
  PROVE  FromBefore({})
<1>0. toBridge \in Seq(ToBridge) /\ Len(toBridge) \in Nat
  BY LenProperties DEF CloudTypes
<1>1. CASE UNCHANGED toBridge
  BY <1>1 DEF FromBefore
<1>2. CASE toBridge' = <<>>
  BY <1>2 DEF FromBefore
<1>3. ASSUME NEW type, Arrives(type) PROVE FromBefore({})
  BY <1>3, Arrived DEF FromBefore
<1>4. ASSUME NEW n \in 0 .. Len(toBridge), toBridge' = SubSeq(toBridge, 1, n) PROVE FromBefore({})
  BY <1>0, <1>4, PrefixPlaces DEF FromBefore
<1> QED
  BY <1>1, <1>2, <1>3, <1>4

LEMMA OneAdded ==
  ASSUME CloudTypes, NEW m \in ToBridge, Send(<<m>>) PROVE FromBefore({m})
<1>1. CASE live
  <2>1. Added(m)
    BY <1>1, SentOne
  <2> QED
    BY <2>1 DEF Added, FromBefore
<1>2. CASE ~live
  BY <1>2, SentOne DEF FromBefore
<1> QED
  BY <1>1, <1>2

LEMMA TwoAdded ==
  ASSUME CloudTypes, NEW c \in ToBridge, NEW m \in ToBridge, Send(<<c>> \o <<m>>) PROVE FromBefore({c, m})
<1>1. CASE live
  <2>1. AddedTwo(c, m)
    BY <1>1, SentTwo
  <2> QED
    BY <2>1 DEF AddedTwo, FromBefore
<1>2. CASE ~live
  BY <1>2, SentTwo DEF FromBefore
<1> QED
  BY <1>1, <1>2

LEMMA CloudMessages ==
  /\ \A t \in Tenants : /\ [type |-> "verify_claim", name |-> t] \in ToBridge
                        /\ [type |-> "verify_claim", name |-> t].type = "verify_claim"
  /\ [type |-> "unpaired"] \in ToBridge /\ [type |-> "unpaired"].type = "unpaired"
  /\ \A t \in Tenants : ConfigFor(t) \in ToBridge /\ ConfigFor(t).type = "config" /\ ConfigFor(t).name = t
  /\ \A r \in Judgement : Verdict(r) \in ToBridge /\ IsResult(Verdict(r)) /\ Verdict(r).result = r
BY DEF ToBridge, ConfigFor, Verdict, IsResult

LEMMA WireKept ==
  ASSUME CodeTypes, CloudTypes, BoundTypes, WireInv, [Next]_vars
  PROVE  WireInv'
<1> USE DEF handlerVars, sessionVars, stateVars, cloudVars, netVars, boundVars
<1>1. ASSUME UNCHANGED <<phase, releases>> \/ (phase # "hello" /\ phase' # "hello" /\ UNCHANGED releases),
             phase' = "hello" => UNCHANGED toCloud, UNCHANGED owner \/ phase # "hello",
             NEW N \in SUBSET ToBridge, FromBefore(N),
             \A m \in N : m.type \notin {"welcome", "unpaired"}
      PROVE  WireInv'
  <2>1. phase' = "hello" => toCloud' = <<>>
    BY <1>1 DEF WireInv
  <2>2. phase' = phase \/ \A i \in 1 .. Len(toBridge') : toBridge'[i].type # "welcome"
    BY <1>1 DEF WireInv, FromBefore
  <2>3. \A i \in 1 .. Len(toBridge') :
           \/ \E k \in 1 .. Len(toBridge) : toBridge'[i] = toBridge[k] /\ (k = 1 => i = 1)
           \/ toBridge'[i].type \notin {"welcome", "unpaired"}
    BY <1>1 DEF FromBefore
  <2> QED
    BY <1>1, <2>1, <2>2, <2>3, WireMoves
<1>2. ASSUME UNCHANGED <<phase, releases, toCloud, owner, toBridge>> PROVE WireInv'
  BY <1>1, <1>2, NoneAdded
<1>3. ASSUME NEW b \in Browsers, LoadStatus(b) \/ ShowReply(b) PROVE WireInv'
  BY <1>2, <1>3 DEF LoadStatus, ShowReply
<1>4. ASSUME NEW b \in Browsers, NEW a \in Attempts, PostPair(b, a) PROVE WireInv'
  BY <1>2, <1>4 DEF PostPair
<1>5. CASE HandlerNext
  BY <1>2, <1>5 DEF HandlerNext, Answer, TimeOut
<1>6. CASE Connect
  <2>1. PICK m : /\ toBridge' = <<m>> /\ m.type = "welcome"
                 /\ m.status = IF owner = None THEN "UNCLAIMED" ELSE "ACTIVE"
    BY <1>6 DEF Connect
  <2>2. \A i \in 1 .. Len(toBridge') : i = 1 /\ toBridge'[i] = m
    BY <2>1
  <2>3. phase' = "hello" /\ toCloud' = <<>> /\ owner' = owner
    BY <1>6 DEF Connect
  <2>4. m.status = "UNCLAIMED" => owner' = None
    BY <2>1, <2>3
  <2> QED
    BY <2>1, <2>2, <2>3, <2>4 DEF WireInv
<1>7. CASE Welcome
  <2>1. \A i \in 1 .. Len(toBridge') : i + 1 \in 1 .. Len(toBridge) /\ i + 1 # 1 /\ toBridge'[i] = toBridge[i + 1]
    BY <1>7, Arrived DEF Welcome
  <2>2. phase' = "loop" /\ UNCHANGED releases
    BY <1>7 DEF Welcome
  <2> QED
    BY <2>1, <2>2 DEF WireInv
<1>8. CASE SessionEnds
  BY <1>8 DEF SessionEnds, WireInv
<1>9. CASE SubmitCode
  BY <1>1, <1>9, NoneAdded DEF SubmitCode
<1>10. CASE PairingResult \/ Config \/ VerifyClaim \/ Unpaired
  <2>1. FromBefore({})
    BY <1>10, NoneAdded DEF PairingResult, Config, VerifyClaim, Unpaired
  <2>2. phase = "loop" /\ phase' # "hello" /\ UNCHANGED releases
    BY <1>10 DEF PairingResult, Config, VerifyClaim, Unpaired
  <2> QED
    BY <1>1, <2>1, <2>2
<1>11. CASE JudgeCode
  <2>1. toCloud # <<>> /\ UNCHANGED <<phase, releases>>
    BY <1>11 DEF JudgeCode
  <2>2. phase # "hello"
    BY <2>1 DEF WireInv
  <2>3. \E N \in SUBSET ToBridge : FromBefore(N) /\ \A m \in N : m.type \notin {"welcome", "unpaired"}
    <3>1. /\ \A r \in Judgement : Verdict(r) \in ToBridge /\ Verdict(r).type \notin {"welcome", "unpaired"}
          /\ \A t \in Tenants : ConfigFor(t) \in ToBridge /\ ConfigFor(t).type \notin {"welcome", "unpaired"}
          /\ "ok" \in Judgement /\ "refused" \in Judgement
      BY DEF Verdict, ConfigFor, ToBridge, Judgement
    <3>2. \/ \E r \in Judgement : Send(<<Verdict(r)>>)
          \/ \E t \in Tenants : Send(<<ConfigFor(t)>> \o <<Verdict("ok")>>)
      BY <1>11, <3>1, CodeJudged
    <3>3. CASE \E r \in Judgement : Send(<<Verdict(r)>>)
      <4>1. PICK r \in Judgement : Send(<<Verdict(r)>>)
        BY <3>3
      <4>2. FromBefore({Verdict(r)})
        BY <3>1, <4>1, OneAdded
      <4> QED
        BY <3>1, <4>2
    <3>4. CASE \E t \in Tenants : Send(<<ConfigFor(t)>> \o <<Verdict("ok")>>)
      <4>1. PICK t \in Tenants : Send(<<ConfigFor(t)>> \o <<Verdict("ok")>>)
        BY <3>4
      <4>2. FromBefore({ConfigFor(t), Verdict("ok")})
        BY <3>1, <4>1, TwoAdded
      <4> QED
        BY <3>1, <4>2
    <3> QED
      BY <3>2, <3>3, <3>4
  <2> QED
    BY <1>1, <2>1, <2>2, <2>3
<1>12. CASE ClaimVerified
  <2>1. toCloud # <<>> /\ UNCHANGED <<phase, releases, toBridge>>
    BY <1>12 DEF ClaimVerified
  <2>2. phase # "hello"
    BY <2>1 DEF WireInv
  <2> QED
    BY <1>1, <2>1, <2>2, NoneAdded
<1>13. CASE SendConfig
  <2>1. ConfigFor(owner) \in ToBridge /\ ConfigFor(owner).type = "config"
    BY <1>13 DEF SendConfig, ConfigFor, ToBridge, CloudTypes
  <2>2. FromBefore({ConfigFor(owner)})
    BY <1>13, <2>1, OneAdded DEF SendConfig
  <2>3. UNCHANGED <<phase, releases, toCloud, owner>>
    BY <1>13 DEF SendConfig
  <2> QED
    BY <1>1, <2>1, <2>2, <2>3
<1>14. ASSUME NEW t \in Tenants, SendVerifyClaim(t) PROVE WireInv'
  <2>1. PICK m \in ToBridge : m = [type |-> "verify_claim", name |-> t] /\ m.type = "verify_claim"
    BY CloudMessages
  <2>2. FromBefore({m})
    BY <1>14, <2>1, OneAdded DEF SendVerifyClaim
  <2>3. UNCHANGED <<phase, releases, toCloud, owner>>
    BY <1>14 DEF SendVerifyClaim
  <2> QED
    BY <1>1, <2>1, <2>2, <2>3
<1>15. CASE Release
  <2>1. PICK m \in ToBridge : m = [type |-> "unpaired"] /\ m.type = "unpaired"
    BY CloudMessages
  <2>2. FromBefore({m})
    BY <1>15, <2>1, OneAdded DEF Release
  <2>3. /\ UNCHANGED <<phase, toCloud>> /\ owner' = None /\ releases' = releases + 1 /\ releases' > 0
        /\ owner # None
    BY <1>15 DEF Release, BoundTypes
  <2>4. \A i \in 1 .. Len(toBridge') :
           \/ \E k \in 1 .. Len(toBridge) : toBridge'[i] = toBridge[k] /\ (k = 1 => i = 1)
           \/ toBridge'[i].type = "unpaired" /\ releases' > 0
    BY <2>1, <2>2, <2>3 DEF FromBefore
  <2>5. phase' = "hello" => toCloud' = <<>>
    BY <2>3 DEF WireInv
  <2> QED
    BY <2>3, <2>4, <2>5, WireMoves
<1>16. CASE Break
  BY <1>1, <1>16, NoneAdded DEF Break
<1>17. CASE Restart
  BY <1>17 DEF Restart, WireInv
<1>18. CASE UNCHANGED vars
  BY <1>2, <1>18 DEF vars
<1> QED
  BY <1>3, <1>4, <1>5, <1>6, <1>7, <1>8, <1>9, <1>10, <1>11, <1>12, <1>13, <1>14, <1>15, <1>16, <1>17, <1>18
     DEF Next, SessionNext, CloudNext

-----------------------------------------------------------------------------
(* A result "ok" and the claim it announces.                               *)

\* The cloud puts config before the result, and no claim is ended.
Undisputed == configFirst /\ releases = 0 /\ restarts = 0

OkTold == \A a \in Attempts : Told(a, "ok") => claimed /\ owner # None

\* An "ok" on its way follows the claim, or the config that makes it.
OkComing ==
  \A i \in 1 .. Len(toBridge) : IsResult(toBridge[i]) /\ toBridge[i].result = "ok" =>
    /\ owner # None
    /\ claimed \/ \E k \in 1 .. Len(toBridge) : k < i /\ toBridge[k].type = "config"

OkInv == Undisputed => OkTold /\ OkComing

\* Steps that bring no result and end no claim.
LEMMA OkQuietly ==
  ASSUME CloudTypes, OkTold, OkComing, ToldNoMore, claimed => claimed', owner # None => owner' # None,
         \/ UNCHANGED toBridge
         \/ toBridge' = <<>>
         \/ \E type : Arrives(type) /\ (type = "config" => claimed')
         \/ \E m \in ToBridge : Send(<<m>>) /\ ~IsResult(m)
         \/ \E m \in ToBridge : toBridge' = <<m>> /\ ~IsResult(m)
         \/ \E n \in 0 .. Len(toBridge) : toBridge' = SubSeq(toBridge, 1, n)
  PROVE  OkTold' /\ OkComing'
<1>0. toBridge \in Seq(ToBridge) /\ Len(toBridge) \in Nat
  BY LenProperties DEF CloudTypes
<1>1. OkTold'
  BY DEF OkTold, ToldNoMore, Judgement
<1>2. CASE UNCHANGED toBridge
  BY <1>1, <1>2 DEF OkComing
<1>3. CASE toBridge' = <<>>
  BY <1>1, <1>3 DEF OkComing
<1>4. ASSUME NEW type, Arrives(type), type = "config" => claimed' PROVE OkComing'
  <2>1. /\ 1 \in 1 .. Len(toBridge) /\ toBridge[1].type = type
        /\ \A i \in 1 .. Len(toBridge') :
             i + 1 \in 1 .. Len(toBridge) /\ i + 1 # 1 /\ toBridge'[i] = toBridge[i + 1]
        /\ \A k \in 1 .. Len(toBridge) :
             k # 1 => k - 1 \in 1 .. Len(toBridge') /\ toBridge'[k - 1] = toBridge[k]
    BY <1>4, Arrived
  <2> SUFFICES ASSUME NEW i \in 1 .. Len(toBridge'), IsResult(toBridge'[i]), toBridge'[i].result = "ok"
               PROVE  /\ owner' # None
                      /\ claimed' \/ \E k \in 1 .. Len(toBridge') : k < i /\ toBridge'[k].type = "config"
    BY DEF OkComing
  <2>2. /\ owner # None
        /\ claimed \/ \E k \in 1 .. Len(toBridge) : k < i + 1 /\ toBridge[k].type = "config"
    BY <2>1 DEF OkComing
  <2>3. ASSUME NEW k \in 1 .. Len(toBridge), k < i + 1, toBridge[k].type = "config", k # 1
        PROVE  k - 1 \in 1 .. Len(toBridge') /\ k - 1 < i /\ toBridge'[k - 1].type = "config"
    BY <1>0, <2>1, <2>3
  <2>4. ASSUME toBridge[1].type = "config" PROVE claimed'
    BY <1>4, <2>1, <2>4
  <2> QED
    BY <2>2, <2>3, <2>4
<1>5. ASSUME NEW m \in ToBridge, Send(<<m>>), ~IsResult(m) PROVE OkComing'
  <2>1. CASE live
    <3>1. Added(m)
      BY <1>5, <2>1, SentOne
    <3>2. ASSUME NEW i \in 1 .. Len(toBridge'), IsResult(toBridge'[i])
          PROVE  i \in 1 .. Len(toBridge) /\ toBridge'[i] = toBridge[i]
      BY <1>5, <3>1, <3>2 DEF Added
    <3>3. \A k \in 1 .. Len(toBridge) : k \in 1 .. Len(toBridge') /\ toBridge'[k] = toBridge[k]
      BY <3>1 DEF Added
    <3> QED
      BY <3>2, <3>3 DEF OkComing
  <2>2. CASE ~live
    BY <1>2, <1>5, <2>2, SentOne
  <2> QED
    BY <2>1, <2>2
<1>6. ASSUME NEW m \in ToBridge, toBridge' = <<m>>, ~IsResult(m) PROVE OkComing'
  BY <1>6 DEF OkComing
<1>7. ASSUME NEW n \in 0 .. Len(toBridge), toBridge' = SubSeq(toBridge, 1, n) PROVE OkComing'
  <2>1. /\ n \in Nat /\ Len(toBridge') = n /\ n <= Len(toBridge)
        /\ \A i \in 1 .. n : toBridge'[i] = toBridge[i]
    <3>1. n \in Nat /\ n <= Len(toBridge) /\ \A j \in 1 .. n : toBridge[j] \in ToBridge
      BY <1>0, ElementOfSeq
    <3> QED
      BY <1>7, <3>1, SubSeqProperties
  <2> SUFFICES ASSUME NEW i \in 1 .. Len(toBridge'), IsResult(toBridge'[i]), toBridge'[i].result = "ok"
               PROVE  /\ owner' # None
                      /\ claimed' \/ \E k \in 1 .. Len(toBridge') : k < i /\ toBridge'[k].type = "config"
    BY DEF OkComing
  <2>2. i \in 1 .. Len(toBridge) /\ toBridge'[i] = toBridge[i]
    BY <1>0, <2>1
  <2>3. /\ owner # None
        /\ claimed \/ \E k \in 1 .. Len(toBridge) : k < i /\ toBridge[k].type = "config"
    BY <2>2 DEF OkComing
  <2>4. ASSUME NEW k \in 1 .. Len(toBridge), k < i, toBridge[k].type = "config"
        PROVE  k \in 1 .. Len(toBridge') /\ toBridge'[k].type = "config"
    <3>1. k \in 1 .. n
      BY <1>0, <2>1, <2>4
    <3> QED
      BY <2>1, <2>4, <3>1
  <2> QED
    BY <2>3, <2>4
<1> QED
  BY <1>1, <1>2, <1>3, <1>4, <1>5, <1>6, <1>7

LEMMA OkKept ==
  ASSUME CodeTypes, CloudTypes, BoundTypes, WireInv, OkInv, [Next]_vars
  PROVE  OkInv'
<1> USE DEF handlerVars, sessionVars, stateVars, cloudVars, netVars, boundVars
<1>0. /\ releases \in Nat /\ restarts \in Nat /\ HandlerTypes /\ "ok" \in Judgement
  BY DEF BoundTypes, CodeTypes, Judgement
<1>1. ASSUME Undisputed => OkTold' /\ OkComing', Undisputed' => Undisputed PROVE OkInv'
  BY <1>1 DEF OkInv
<1>2. UNCHANGED <<configFirst, releases, restarts>> => (Undisputed' => Undisputed)
  BY DEF Undisputed
<1>3. UNCHANGED handlerVars => ToldNoMore
  BY DEF ToldNoMore, Told
<1>4. ASSUME Undisputed => ToldNoMore /\ (claimed => claimed') /\ (owner # None => owner' # None),
             UNCHANGED <<configFirst, releases, restarts>>,
             \/ UNCHANGED toBridge
             \/ toBridge' = <<>>
             \/ \E type : Arrives(type) /\ (type = "config" => claimed')
             \/ \E m \in ToBridge : Send(<<m>>) /\ ~IsResult(m)
             \/ \E m \in ToBridge : toBridge' = <<m>> /\ ~IsResult(m)
             \/ \E n \in 0 .. Len(toBridge) : toBridge' = SubSeq(toBridge, 1, n)
      PROVE  OkInv'
  <2>1. ASSUME Undisputed PROVE OkTold' /\ OkComing'
    <3>1. OkTold /\ OkComing /\ ToldNoMore /\ (claimed => claimed') /\ (owner # None => owner' # None)
      BY <1>4, <2>1 DEF OkInv
    <3> QED
      BY <1>4, <3>1, OkQuietly
  <2> QED
    BY <1>1, <1>2, <1>4, <2>1
<1>5. ASSUME UNCHANGED <<claimed, owner, configFirst, releases, restarts, toBridge>>, ToldNoMore
      PROVE  OkInv'
  BY <1>4, <1>5
<1>6. ASSUME NEW b \in Browsers, LoadStatus(b) \/ ShowReply(b) PROVE OkInv'
  BY <1>3, <1>5, <1>6 DEF LoadStatus, ShowReply
<1>7. ASSUME NEW b \in Browsers, NEW a \in Attempts, PostPair(b, a) PROVE OkInv'
  <2>1. /\ UNCHANGED <<done, claimed, owner, configFirst, releases, restarts, toBridge>>
        /\ reply' \in {[reply EXCEPT ![a] = "waiting"], [reply EXCEPT ![a] = "busy"]}
    BY <1>7 DEF PostPair
  <2>2. ToldNoMore
    BY <1>0, <2>1 DEF ToldNoMore, Told, Judgement, HandlerTypes
  <2> QED
    BY <1>5, <2>1, <2>2
<1>8. ASSUME NEW a \in Attempts, Answer(a) PROVE OkInv'
  <2>1. /\ UNCHANGED <<claimed, owner, configFirst, releases, restarts, toBridge>>
        /\ reply' = [reply EXCEPT ![a] = done[a]] /\ done' = [done EXCEPT ![a] = None]
    BY <1>8 DEF Answer
  <2>2. ToldNoMore
    BY <1>0, <2>1 DEF CodeTypes, ToldNoMore, Told, HandlerTypes
  <2> QED
    BY <1>5, <2>1, <2>2
<1>9. ASSUME NEW a \in Attempts, TimeOut(a) PROVE OkInv'
  <2>1. /\ UNCHANGED <<done, claimed, owner, configFirst, releases, restarts, toBridge>>
        /\ reply' = [reply EXCEPT ![a] = "timeout"]
    BY <1>9 DEF TimeOut
  <2>2. ToldNoMore
    BY <1>0, <2>1 DEF ToldNoMore, Told, Judgement, HandlerTypes
  <2> QED
    BY <1>5, <2>1, <2>2
<1>10. CASE Connect
  <2>1. \E m \in ToBridge : toBridge' = <<m>> /\ ~IsResult(m)
    <3>1. /\ [type |-> "welcome", status |-> IF owner = None THEN "UNCLAIMED" ELSE "ACTIVE"] \in ToBridge
          /\ toBridge' = << [type |-> "welcome", status |-> IF owner = None THEN "UNCLAIMED" ELSE "ACTIVE"] >>
      BY <1>10 DEF Connect, ToBridge
    <3> QED
      BY <3>1 DEF IsResult
  <2>2. UNCHANGED <<handlerVars, claimed, owner, configFirst, releases, restarts>>
    BY <1>10 DEF Connect
  <2> QED
    BY <1>3, <1>4, <2>1, <2>2
<1>11. CASE Welcome
  <2>1. Arrives("welcome") /\ UNCHANGED <<handlerVars, owner, configFirst, releases, restarts>>
    BY <1>11 DEF Welcome
  <2>2. CASE Head(toBridge).status = "UNCLAIMED"
    <3>1. owner = None
      BY <2>1, <2>2, Arrived DEF WireInv
    <3>2. ASSUME Undisputed, OkTold, OkComing PROVE OkTold' /\ OkComing'
      <4>1. OkTold'
        BY <1>3, <2>1, <3>1, <3>2 DEF OkTold, ToldNoMore, Judgement
      <4>2. \A i \in 1 .. Len(toBridge') : i + 1 \in 1 .. Len(toBridge) /\ toBridge'[i] = toBridge[i + 1]
        BY <2>1, Arrived
      <4>3. OkComing'
        BY <3>1, <3>2, <4>2 DEF OkComing
      <4> QED
        BY <4>1, <4>3
    <3> QED
      BY <1>1, <1>2, <2>1, <3>2 DEF OkInv
  <2>3. CASE Head(toBridge).status # "UNCLAIMED"
    <3>1. claimed'
      BY <1>11, <2>3 DEF Welcome, InvalidateClaimToken
    <3> QED
      BY <1>3, <1>4, <2>1, <3>1
  <2> QED
    BY <2>2, <2>3
<1>12. CASE SessionEnds
  BY <1>3, <1>4, <1>12 DEF SessionEnds
<1>13. CASE SubmitCode
  <2>1. PICK a \in Attempts : a = Head(pairingCh)
    BY <1>0, <1>13, TailPlaces DEF SubmitCode, HandlerTypes
  <2>2. /\ UNCHANGED <<toBridge, reply, claimed, owner, configFirst, releases, restarts>>
        /\ done' \in {done, [done EXCEPT ![a] = "send_failed"]}
    BY <1>13, <2>1 DEF SubmitCode
  <2>3. ToldNoMore
    BY <1>0, <2>2 DEF ToldNoMore, Told, Judgement, HandlerTypes
  <2> QED
    BY <1>5, <2>2, <2>3
<1>14. CASE PairingResult
  <2>1. /\ Arrives("pairing_result") /\ UNCHANGED <<reply, claimed, owner, configFirst, releases, restarts>>
        /\ pending = None => UNCHANGED done
        /\ pending # None => done' = [done EXCEPT ![pending] = Head(toBridge).result]
    BY <1>14 DEF PairingResult
  <2>2. /\ 1 \in 1 .. Len(toBridge) /\ Head(toBridge) = toBridge[1] /\ IsResult(toBridge[1])
        /\ Len(toBridge) \in Nat
    BY <2>1, Arrived, LenProperties DEF IsResult, CloudTypes
  <2>3. ASSUME NEW a \in Attempts, Told(a, "ok")'
        PROVE  Told(a, "ok") \/ Head(toBridge).result = "ok"
    BY <1>0, <2>1, <2>3 DEF Told, HandlerTypes
  <2>4. ASSUME Undisputed, OkTold, OkComing PROVE OkTold' /\ OkComing'
    <3>1. ASSUME Head(toBridge).result = "ok" PROVE claimed /\ owner # None
      BY <2>2, <2>4, <3>1 DEF OkComing
    <3>2. OkTold'
      BY <2>1, <2>3, <2>4, <3>1 DEF OkTold
    <3>3. /\ \A i \in 1 .. Len(toBridge') :
               i + 1 \in 1 .. Len(toBridge) /\ i + 1 # 1 /\ toBridge'[i] = toBridge[i + 1]
          /\ \A k \in 1 .. Len(toBridge) :
               k # 1 => k - 1 \in 1 .. Len(toBridge') /\ toBridge'[k - 1] = toBridge[k]
      BY <2>1, Arrived
    <3>4. ASSUME NEW i \in 1 .. Len(toBridge'), IsResult(toBridge'[i]), toBridge'[i].result = "ok"
          PROVE  /\ owner' # None
                 /\ claimed' \/ \E k \in 1 .. Len(toBridge') : k < i /\ toBridge'[k].type = "config"
      <4>1. /\ owner # None
            /\ claimed \/ \E k \in 1 .. Len(toBridge) : k < i + 1 /\ toBridge[k].type = "config"
        BY <2>4, <3>3, <3>4 DEF OkComing
      <4>2. ASSUME NEW k \in 1 .. Len(toBridge), k < i + 1, toBridge[k].type = "config"
            PROVE  k - 1 \in 1 .. Len(toBridge') /\ k - 1 < i /\ toBridge'[k - 1].type = "config"
        <5>1. k # 1
          BY <2>2, <4>2 DEF IsResult
        <5> QED
          BY <2>2, <3>3, <4>2, <5>1
      <4> QED
        BY <2>1, <4>1, <4>2
    <3>5. OkComing'
      BY <3>4 DEF OkComing
    <3> QED
      BY <3>2, <3>5
  <2> QED
    BY <1>1, <1>2, <2>1, <2>4 DEF OkInv
<1>15. CASE Config
  <2>1. Arrives("config") /\ claimed' /\ UNCHANGED <<handlerVars, owner, configFirst, releases, restarts>>
    BY <1>15 DEF Config, InvalidateClaimToken
  <2> QED
    BY <1>3, <1>4, <2>1
<1>16. CASE VerifyClaim
  <2>1. Arrives("verify_claim") /\ (claimed => claimed')
    BY <1>16 DEF VerifyClaim, InvalidateClaimToken
  <2>2. UNCHANGED <<handlerVars, owner, configFirst, releases, restarts>>
    BY <1>16 DEF VerifyClaim
  <2> QED
    BY <1>3, <1>4, <2>1, <2>2
<1>17. CASE Unpaired
  <2>1. releases > 0 /\ UNCHANGED <<configFirst, releases, restarts>>
    BY <1>17, Arrived DEF Unpaired, WireInv
  <2> QED
    BY <1>0, <2>1 DEF OkInv, Undisputed
<1>18. CASE JudgeCode
  <2>1. /\ UNCHANGED <<handlerVars, claimed, configFirst, releases, restarts>> /\ ToldNoMore
    BY <1>3, <1>18 DEF JudgeCode
  <2>2. CASE Send(<<Verdict("refused")>>) /\ UNCHANGED owner
    <3>1. ASSUME Undisputed, OkTold, OkComing PROVE OkTold' /\ OkComing'
      <4>1. OkTold'
        BY <2>1, <2>2, <3>1 DEF OkTold, ToldNoMore, Judgement
      <4>2. OkComing'
        <5>1. CASE live
          <6>1. Verdict("refused").result = "refused" /\ Verdict("refused") \in ToBridge
            BY CloudMessages DEF Judgement
          <6>2. Added(Verdict("refused"))
            BY <2>2, <5>1, <6>1, SentOne
          <6>3. ASSUME NEW i \in 1 .. Len(toBridge'), toBridge'[i].result = "ok"
                PROVE  i \in 1 .. Len(toBridge) /\ toBridge'[i] = toBridge[i]
            BY <6>1, <6>2, <6>3 DEF Added
          <6>4. \A k \in 1 .. Len(toBridge) : k \in 1 .. Len(toBridge') /\ toBridge'[k] = toBridge[k]
            BY <6>2 DEF Added
          <6> QED
            BY <2>1, <2>2, <3>1, <6>3, <6>4 DEF OkComing
        <5>2. CASE ~live
          <6>1. UNCHANGED toBridge
            BY <2>2, <5>2, SentOne, CloudMessages DEF Judgement
          <6> QED
            BY <2>1, <2>2, <3>1, <6>1 DEF OkComing
        <5> QED
          BY <5>1, <5>2
      <4> QED
        BY <4>1, <4>2
    <3> QED
      BY <1>1, <1>2, <2>1, <3>1 DEF OkInv
  <2>3. ASSUME owner = None, owner' \in Tenants, configFirst => Send(<<ConfigFor(owner')>> \o <<Verdict("ok")>>)
        PROVE  OkInv'
    <3>1. owner' # None
      BY <2>3, PairingAssumption
    <3>2. ASSUME Undisputed, OkTold, OkComing PROVE OkTold' /\ OkComing'
      <4>1. OkTold'
        BY <2>1, <2>3, <3>1, <3>2 DEF OkTold, ToldNoMore, Judgement
      <4>2. PICK t \in Tenants : t = owner' /\ Send(<<ConfigFor(t)>> \o <<Verdict("ok")>>)
        BY <2>3, <3>2 DEF Undisputed
      <4>3. /\ ConfigFor(t) \in ToBridge /\ Verdict("ok") \in ToBridge /\ ConfigFor(t).type = "config"
        BY CloudMessages DEF Judgement
      <4>4. OkComing'
        <5>1. CASE live
          <6>1. AddedTwo(ConfigFor(t), Verdict("ok"))
            BY <4>2, <4>3, <5>1, SentTwo
          <6>2. ASSUME NEW i \in 1 .. Len(toBridge'), IsResult(toBridge'[i]), toBridge'[i].result = "ok"
                PROVE  i = Len(toBridge) + 2
            <7>1. i \notin 1 .. Len(toBridge)
              BY <2>3, <3>2, <6>1, <6>2 DEF OkComing, AddedTwo
            <7>2. i # Len(toBridge) + 1
              BY <4>3, <6>1, <6>2 DEF AddedTwo, IsResult
            <7> QED
              BY <6>1, <7>1, <7>2 DEF AddedTwo
          <6>3. /\ Len(toBridge) + 1 \in 1 .. Len(toBridge') /\ Len(toBridge) + 1 < Len(toBridge) + 2
                /\ toBridge'[Len(toBridge) + 1].type = "config"
            BY <4>3, <6>1 DEF AddedTwo
          <6> QED
            BY <3>1, <6>2, <6>3 DEF OkComing
        <5>2. CASE ~live
          <6>1. UNCHANGED toBridge
            BY <4>2, <4>3, <5>2, SentTwo
          <6> QED
            BY <2>1, <2>3, <3>2, <6>1 DEF OkComing
        <5> QED
          BY <5>1, <5>2
      <4> QED
        BY <4>1, <4>4
    <3> QED
      BY <1>1, <1>2, <2>1, <3>2 DEF OkInv
  <2> QED
    BY <1>18, <2>2, <2>3, CodeJudged
<1>19. CASE ClaimVerified
  <2>1. UNCHANGED <<handlerVars, claimed, configFirst, releases, restarts, toBridge>>
    BY <1>19 DEF ClaimVerified
  <2>2. owner # None => owner' # None
    BY <1>19 DEF ClaimVerified
  <2> QED
    BY <1>3, <1>4, <2>1, <2>2
<1>20. CASE SendConfig
  <2>1. ConfigFor(owner) \in ToBridge /\ ~IsResult(ConfigFor(owner)) /\ Send(<<ConfigFor(owner)>>)
    BY <1>20, CloudMessages DEF SendConfig, CloudTypes, IsResult
  <2>2. UNCHANGED <<handlerVars, claimed, owner, configFirst, releases, restarts>>
    BY <1>20 DEF SendConfig
  <2> QED
    BY <1>3, <1>4, <2>1, <2>2
<1>21. ASSUME NEW t \in Tenants, SendVerifyClaim(t) PROVE OkInv'
  <2>1. \E m \in ToBridge : Send(<<m>>) /\ ~IsResult(m)
    <3>1. /\ [type |-> "verify_claim", name |-> t] \in ToBridge /\ ~IsResult([type |-> "verify_claim", name |-> t])
          /\ Send(<<[type |-> "verify_claim", name |-> t]>>)
      BY <1>21, CloudMessages DEF SendVerifyClaim, IsResult
    <3> QED
      BY <3>1
  <2>2. UNCHANGED <<handlerVars, claimed, owner, configFirst, releases, restarts>>
    BY <1>21 DEF SendVerifyClaim
  <2> QED
    BY <1>3, <1>4, <2>1, <2>2
<1>22. CASE Release
  BY <1>0, <1>22 DEF Release, OkInv, Undisputed
<1>23. CASE Break
  BY <1>3, <1>4, <1>23 DEF Break
<1>24. CASE Restart
  BY <1>0, <1>24 DEF Restart, OkInv, Undisputed
<1>25. CASE UNCHANGED vars
  BY <1>3, <1>5, <1>25 DEF vars
<1> QED
  BY <1>6, <1>7, <1>8, <1>9, <1>10, <1>11, <1>12, <1>13, <1>14, <1>15, <1>16, <1>17, <1>18, <1>19, <1>20,
     <1>21, <1>22, <1>23, <1>24, <1>25
     DEF Next, HandlerNext, SessionNext, CloudNext

LEMMA OkClaims == ASSUME OkInv, PageTypes PROVE OkMeansClaimed
BY DEF OkInv, OkTold, Undisputed, Told, PageTypes, OkMeansClaimed

-----------------------------------------------------------------------------
(* What bridge and cloud know of each other while they are connected.      *)

Connected ==
  /\ live /\ phase # "away"
  /\ \A i \in 1 .. Len(toBridge) : toBridge[i].type # "unpaired"

ConfigComing == \E i \in 1 .. Len(toBridge) : toBridge[i].type = "config"
ClaimGoing   == \E i \in 1 .. Len(toCloud) : toCloud[i].type = "verified" /\ toCloud[i].ok

NewsRight ==
  \A i \in 1 .. Len(toBridge) :
    /\ toBridge[i].type = "config" => toBridge[i].name = owner
    /\ toBridge[i].type = "welcome" /\ toBridge[i].status = "ACTIVE" => owner # None

\* A claim the bridge does not know of is still to be told to it, and one the
\* cloud does not know of is still to be told to the cloud.
StateInv ==
  Connected =>
    /\ NewsRight
    /\ owner # None /\ ~owes => ConfigComing \/ (phase = "loop" /\ claimed /\ tenant = owner)
    /\ owner = None /\ phase = "loop" /\ claimed => ClaimGoing

\* No config and no release gets lost, and no claim on its way to the cloud.
Retained ==
  /\ \A i \in 1 .. Len(toBridge) : toBridge[i].type \in {"config", "unpaired"} =>
       \E k \in 1 .. Len(toBridge') : toBridge'[k] = toBridge[i]
  /\ ClaimGoing => ClaimGoing'

LEMMA StateQuietly ==
  ASSUME StateInv, UNCHANGED <<owner, phase, live, claimed, tenant, owes>>, Retained,
         NEW N, FromBefore(N), \A m \in N : m.type \notin {"welcome", "config"}
  PROVE  StateInv'
<1>1. Connected' => Connected
  BY DEF Connected, Retained
<1>2. NewsRight => NewsRight'
  BY DEF NewsRight, FromBefore
<1>3. ConfigComing => ConfigComing'
  BY DEF ConfigComing, Retained
<1> QED
  BY <1>1, <1>2, <1>3 DEF StateInv, Retained

LEMMA CloudLineTail ==
  ASSUME toCloud \in Seq(ToCloud), toCloud # <<>>, toCloud' = Tail(toCloud),
         ~(Head(toCloud).type = "verified" /\ Head(toCloud).ok)
  PROVE  ClaimGoing => ClaimGoing'
<1>1. /\ Head(toCloud) = toCloud[1]
      /\ \A k \in 1 .. Len(toCloud) : k # 1 => k - 1 \in 1 .. Len(toCloud') /\ toCloud'[k - 1] = toCloud[k]
  BY TailPlaces
<1> QED
  BY <1>1 DEF ClaimGoing

LEMMA CloudLineAppend ==
  ASSUME toCloud \in Seq(ToCloud), NEW m \in ToCloud, toCloud' = Append(toCloud, m)
  PROVE  /\ ClaimGoing => ClaimGoing'
         /\ m.type = "verified" /\ m.ok => ClaimGoing'
<1>1. /\ Len(toCloud) \in Nat
      /\ 1 .. Len(toCloud') = 1 .. Len(toCloud) \cup {Len(toCloud) + 1}
      /\ \A i \in 1 .. Len(toCloud) : toCloud'[i] = toCloud[i]
      /\ toCloud'[Len(toCloud) + 1] = m
  BY AppendPlaces
<1> QED
  BY <1>1 DEF ClaimGoing

LEMMA StateAtWelcome ==
  ASSUME CloudTypes, WireInv, StateInv, Welcome PROVE StateInv'
<1>1. /\ Arrives("welcome") /\ phase = "hello" /\ phase' = "loop" /\ UNCHANGED <<live, toCloud, owner, owes>>
      /\ Head(toBridge).status = "UNCLAIMED" => Unpair
      /\ Head(toBridge).status # "UNCLAIMED" => InvalidateClaimToken /\ UNCHANGED tenant
  BY DEF Welcome, netVars, cloudVars
<1>2. /\ 1 \in 1 .. Len(toBridge) /\ Head(toBridge) = toBridge[1] /\ toBridge[1].type = "welcome"
      /\ toBridge[1] \in ToBridge
      /\ \A i \in 1 .. Len(toBridge') :
           i + 1 \in 1 .. Len(toBridge) /\ i + 1 # 1 /\ toBridge'[i] = toBridge[i + 1]
      /\ \A k \in 1 .. Len(toBridge) :
           k # 1 => k - 1 \in 1 .. Len(toBridge') /\ toBridge'[k - 1] = toBridge[k]
  BY <1>1, Arrived
<1>3. toBridge[1].status \in {"UNCLAIMED", "ACTIVE"}
  BY <1>2 DEF ToBridge
<1> SUFFICES ASSUME Connected'
             PROVE  /\ NewsRight'
                    /\ owner' # None /\ ~owes' =>
                         ConfigComing' \/ (phase' = "loop" /\ claimed' /\ tenant' = owner')
                    /\ owner' = None /\ phase' = "loop" /\ claimed' => ClaimGoing'
  BY DEF StateInv
<1>4. Connected
  BY <1>1, <1>2 DEF Connected
<1>5. NewsRight'
  BY <1>1, <1>2, <1>4 DEF StateInv, NewsRight
<1>6. owner' # None /\ ~owes' => ConfigComing'
  BY <1>1, <1>2, <1>4 DEF StateInv, ConfigComing
<1>7. ~(owner' = None /\ claimed')
  <2>1. CASE toBridge[1].status = "UNCLAIMED"
    BY <1>1, <1>2, <2>1 DEF Unpair
  <2>2. CASE toBridge[1].status = "ACTIVE"
    BY <1>1, <1>2, <1>4, <2>2 DEF StateInv, NewsRight
  <2> QED
    BY <1>3, <2>1, <2>2
<1> QED
  BY <1>5, <1>6, <1>7

LEMMA StateAtConfig ==
  ASSUME CloudTypes, StateInv, Config PROVE StateInv'
<1>1. /\ Arrives("config") /\ tenant' = Head(toBridge).name /\ claimed' /\ phase = "loop"
      /\ UNCHANGED <<phase, live, toCloud, owner, owes>>
  BY DEF Config, netVars, cloudVars, sessionVars, InvalidateClaimToken
<1>2. /\ 1 \in 1 .. Len(toBridge) /\ Head(toBridge) = toBridge[1] /\ toBridge[1].type = "config"
      /\ toBridge[1] \in ToBridge
      /\ \A i \in 1 .. Len(toBridge') :
           i + 1 \in 1 .. Len(toBridge) /\ i + 1 # 1 /\ toBridge'[i] = toBridge[i + 1]
      /\ \A k \in 1 .. Len(toBridge) :
           k # 1 => k - 1 \in 1 .. Len(toBridge') /\ toBridge'[k - 1] = toBridge[k]
  BY <1>1, Arrived
<1>3. Connected' => Connected
  BY <1>1, <1>2 DEF Connected
<1>4. Connected => NewsRight'
  BY <1>1, <1>2 DEF StateInv, NewsRight
<1>5. Connected => tenant' = owner /\ owner # None
  BY <1>1, <1>2, MessageFacts, PairingAssumption DEF StateInv, NewsRight
<1> QED
  BY <1>1, <1>3, <1>4, <1>5 DEF StateInv

LEMMA StateAtVerify ==
  ASSUME CloudTypes, StateInv, VerifyClaim PROVE StateInv'
<1>1. /\ Arrives("verify_claim") /\ phase = "loop" /\ UNCHANGED <<phase, live, tenant, owner, owes>>
      /\ toCloud \in Seq(ToCloud)
  BY DEF VerifyClaim, netVars, cloudVars, sessionVars, CloudTypes
<1>2. PICK ok \in BOOLEAN :
        /\ ok => claimed'
        /\ ~ok => UNCHANGED claimed
        /\ live => toCloud' = Append(toCloud, [type |-> "verified", name |-> Head(toBridge).name, ok |-> ok])
  BY DEF VerifyClaim, InvalidateClaimToken
<1>3. /\ 1 \in 1 .. Len(toBridge) /\ Head(toBridge) = toBridge[1] /\ toBridge[1].type = "verify_claim"
      /\ toBridge[1] \in ToBridge
      /\ \A i \in 1 .. Len(toBridge') :
           i + 1 \in 1 .. Len(toBridge) /\ i + 1 # 1 /\ toBridge'[i] = toBridge[i + 1]
      /\ \A k \in 1 .. Len(toBridge) :
           k # 1 => k - 1 \in 1 .. Len(toBridge') /\ toBridge'[k - 1] = toBridge[k]
  BY <1>1, Arrived
<1>4. PICK m \in ToCloud : /\ m = [type |-> "verified", name |-> Head(toBridge).name, ok |-> ok]
                           /\ m.type = "verified" /\ (ok => m.ok)
  <2>1. Head(toBridge).name \in Tenants
    BY <1>3, MessageFacts
  <2>2. [type |-> "verified", name |-> Head(toBridge).name, ok |-> ok] \in ToCloud
    BY <2>1 DEF ToCloud
  <2> QED
    BY <2>2
<1>5. live => (ClaimGoing => ClaimGoing') /\ (ok => ClaimGoing')
  BY <1>1, <1>2, <1>4, CloudLineAppend
<1>6. Connected' => Connected
  BY <1>1, <1>3 DEF Connected
<1>7. NewsRight => NewsRight'
  BY <1>1, <1>3 DEF NewsRight
<1>8. ConfigComing => ConfigComing'
  BY <1>3 DEF ConfigComing
<1>9. CASE ok
  BY <1>1, <1>2, <1>5, <1>6, <1>7, <1>8, <1>9 DEF StateInv, Connected
<1>10. CASE ~ok
  BY <1>1, <1>2, <1>5, <1>6, <1>7, <1>8, <1>10 DEF StateInv, Connected
<1> QED
  BY <1>9, <1>10

LEMMA StateAtConnect ==
  ASSUME Connect PROVE StateInv'
<1>1. PICK m : /\ toBridge' = <<m>> /\ m.type = "welcome"
               /\ m.status = IF owner = None THEN "UNCLAIMED" ELSE "ACTIVE"
  BY DEF Connect
<1>2. phase' = "hello" /\ owner' = owner /\ (owes' <=> owner # None)
  BY DEF Connect
<1>3. \A i \in 1 .. Len(toBridge') : toBridge'[i] = m
  BY <1>1
<1>4. NewsRight'
  BY <1>1, <1>2, <1>3 DEF NewsRight
<1> QED
  BY <1>2, <1>4 DEF StateInv

\* While no tenant has the bridge, no config is on its way to it.
LEMMA NoConfigYet ==
  ASSUME CloudTypes, NewsRight, owner = None PROVE ~ConfigComing
<1>1. ASSUME NEW i \in 1 .. Len(toBridge), toBridge[i].type = "config" PROVE FALSE
  <2>1. toBridge[i].name \in Tenants
    BY <1>1, ElementOfSeq, MessageFacts DEF CloudTypes
  <2> QED
    BY <1>1, <2>1, PairingAssumption DEF NewsRight
<1> QED
  BY <1>1 DEF ConfigComing

LEMMA StateAtJudgement ==
  ASSUME CloudTypes, StateInv, JudgeCode PROVE StateInv'
<1>1. /\ UNCHANGED <<phase, live, claimed, tenant>> /\ toCloud \in Seq(ToCloud)
      /\ toCloud # <<>> /\ toCloud' = Tail(toCloud) /\ Head(toCloud).type = "submit"
  BY DEF JudgeCode, netVars, sessionVars, stateVars, CloudTypes
<1>2. ClaimGoing => ClaimGoing'
  BY <1>1, CloudLineTail
<1>3. \A r \in Judgement : Verdict(r) \in ToBridge /\ Verdict(r).type = "pairing_result"
  BY CloudMessages DEF IsResult
<1>4. CASE Send(<<Verdict("refused")>>) /\ UNCHANGED <<owner, owes>>
  <2>1. Verdict("refused") \in ToBridge /\ Verdict("refused").type = "pairing_result"
    BY <1>3 DEF Judgement
  <2>2. FromBefore({Verdict("refused")})
    BY <1>4, <2>1, OneAdded
  <2>3. Retained
    <3>1. CASE live
      BY <1>2, <1>4, <2>1, <3>1, SentOne DEF Added, Retained
    <3>2. CASE ~live
      BY <1>2, <1>4, <2>1, <3>2, SentOne DEF Retained
    <3> QED
      BY <3>1, <3>2
  <2> QED
    BY <1>1, <1>4, <2>1, <2>2, <2>3, StateQuietly
<1>5. ASSUME owner = None, owner' \in Tenants, owes' = ~configFirst,
             configFirst => Send(<<ConfigFor(owner')>> \o <<Verdict("ok")>>),
             ~configFirst => Send(<<Verdict("ok")>>)
      PROVE  StateInv'
  <2>1. PICK t \in Tenants : t = owner'
    BY <1>5
  <2>2. /\ ConfigFor(t) \in ToBridge /\ ConfigFor(t).type = "config" /\ ConfigFor(t).name = t /\ t # None
        /\ Verdict("ok") \in ToBridge /\ Verdict("ok").type = "pairing_result"
    BY <1>3, CloudMessages, PairingAssumption DEF Judgement
  <2>3. ASSUME live, configFirst PROVE Connected' => NewsRight' /\ ConfigComing'
    <3>1. AddedTwo(ConfigFor(t), Verdict("ok"))
      BY <1>5, <2>1, <2>2, <2>3, SentTwo
    <3>2. Connected' => Connected
      BY <1>1, <3>1 DEF Connected, AddedTwo
    <3>3. Connected => NewsRight /\ ~ConfigComing
      BY <1>5, NoConfigYet DEF StateInv
    <3>4. NewsRight /\ ~ConfigComing => NewsRight'
      BY <1>5, <2>1, <2>2, <3>1 DEF NewsRight, ConfigComing, AddedTwo
    <3>5. ConfigComing'
      BY <2>2, <3>1 DEF ConfigComing, AddedTwo
    <3> QED
      BY <3>2, <3>3, <3>4, <3>5
  <2>4. ASSUME live, ~configFirst PROVE Connected' => NewsRight'
    <3>1. Added(Verdict("ok"))
      BY <1>5, <2>2, <2>4, SentOne
    <3>2. Connected' => Connected
      BY <1>1, <3>1 DEF Connected, Added
    <3>3. Connected => NewsRight /\ ~ConfigComing
      BY <1>5, NoConfigYet DEF StateInv
    <3>4. NewsRight /\ ~ConfigComing => NewsRight'
      BY <1>5, <2>1, <2>2, <3>1 DEF NewsRight, ConfigComing, Added
    <3> QED
      BY <3>2, <3>3, <3>4
  <2>5. Connected' => live
    BY <1>1 DEF Connected
  <2>6. ~owes' <=> configFirst
    BY <1>5
  <2>7. owner' # None
    BY <2>1, <2>2
  <2> QED
    BY <2>3, <2>4, <2>5, <2>6, <2>7 DEF StateInv
<1> QED
  BY <1>4, <1>5, CodeJudged

LEMMA StateAtClaim ==
  ASSUME CloudTypes, StateInv, ClaimVerified PROVE StateInv'
<1>1. /\ UNCHANGED <<phase, live, claimed, tenant, toBridge>> /\ toCloud \in Seq(ToCloud)
      /\ toCloud # <<>> /\ toCloud' = Tail(toCloud) /\ Head(toCloud).type = "verified"
      /\ Head(toCloud).ok /\ owner = None => owner' = Head(toCloud).name /\ owes'
      /\ ~(Head(toCloud).ok /\ owner = None) => UNCHANGED <<owner, owes>>
  BY DEF ClaimVerified, netVars, sessionVars, stateVars, CloudTypes
<1>2. CASE Head(toCloud).ok /\ owner = None
  <2>1. owner' # None
    BY <1>1, <1>2, TailPlaces, MessageFacts, PairingAssumption
  <2>2. Connected' => Connected
    BY <1>1 DEF Connected
  <2>3. NewsRight /\ ~ConfigComing => NewsRight'
    BY <1>1, <2>1 DEF NewsRight, ConfigComing
  <2> QED
    BY <1>1, <1>2, <2>1, <2>2, <2>3, NoConfigYet DEF StateInv
<1>3. CASE ~(Head(toCloud).ok /\ owner = None)
  <2>1. Connected' <=> Connected
    BY <1>1 DEF Connected
  <2>2. NewsRight' <=> NewsRight
    BY <1>1, <1>3 DEF NewsRight
  <2>3. ConfigComing' <=> ConfigComing
    BY <1>1 DEF ConfigComing
  <2>4. owner = None => (ClaimGoing => ClaimGoing')
    BY <1>1, <1>3, CloudLineTail
  <2> QED
    BY <1>1, <1>3, <2>1, <2>2, <2>3, <2>4 DEF StateInv
<1> QED
  BY <1>2, <1>3

LEMMA StateAtSend ==
  ASSUME CloudTypes, StateInv, SendConfig PROVE StateInv'
<1>1. /\ live /\ owner \in Tenants /\ UNCHANGED <<phase, live, claimed, tenant, toCloud, owner>>
      /\ Send(<<ConfigFor(owner)>>)
  BY DEF SendConfig, netVars, sessionVars, stateVars, CloudTypes
<1>2. ConfigFor(owner) \in ToBridge /\ ConfigFor(owner).type = "config" /\ ConfigFor(owner).name = owner
  BY <1>1, CloudMessages
<1>3. Added(ConfigFor(owner))
  BY <1>1, <1>2, SentOne
<1>4. Connected' => Connected
  BY <1>1, <1>3 DEF Connected, Added
<1>5. NewsRight => NewsRight'
  BY <1>1, <1>2, <1>3 DEF NewsRight, Added
<1>6. ConfigComing'
  BY <1>2, <1>3 DEF ConfigComing, Added
<1>7. owner' # None
  BY <1>1, PairingAssumption
<1> QED
  BY <1>4, <1>5, <1>6, <1>7 DEF StateInv

LEMMA StateKept ==
  ASSUME CodeTypes, CloudTypes, WireInv, StateInv, [Next]_vars
  PROVE  StateInv'
<1> USE DEF handlerVars, sessionVars, stateVars, cloudVars, netVars, boundVars
<1>1. ASSUME ~Connected' PROVE StateInv'
  BY <1>1 DEF StateInv
<1>2. ASSUME UNCHANGED <<owner, phase, live, claimed, tenant, owes, toBridge, toCloud>> PROVE StateInv'
  <2>1. FromBefore({})
    BY <1>2, NoneAdded
  <2>2. Retained
    BY <1>2 DEF Retained, ClaimGoing
  <2> QED
    BY <1>2, <2>1, <2>2, StateQuietly
<1>3. ASSUME NEW b \in Browsers, LoadStatus(b) \/ ShowReply(b) PROVE StateInv'
  BY <1>2, <1>3 DEF LoadStatus, ShowReply
<1>4. ASSUME NEW b \in Browsers, NEW a \in Attempts, PostPair(b, a) PROVE StateInv'
  BY <1>2, <1>4 DEF PostPair
<1>5. CASE HandlerNext
  BY <1>2, <1>5 DEF HandlerNext, Answer, TimeOut
<1>6. CASE Connect
  BY <1>6, StateAtConnect
<1>7. CASE Welcome
  BY <1>7, StateAtWelcome
<1>8. CASE SessionEnds \/ Unpaired \/ Break \/ Restart
  BY <1>1, <1>8 DEF SessionEnds, Unpaired, Break, Restart, Connected
<1>9. CASE SubmitCode
  <2>1. UNCHANGED <<owner, phase, live, claimed, tenant, owes, toBridge>>
    BY <1>9 DEF SubmitCode
  <2>2. ClaimGoing => ClaimGoing'
    <3>1. pairingCh # <<>> /\ pairingCh \in Seq(Attempts) /\ toCloud \in Seq(ToCloud)
      BY <1>9 DEF SubmitCode, CodeTypes, HandlerTypes
    <3>2. [type |-> "submit", attempt |-> Head(pairingCh)] \in ToCloud
      BY <3>1, TailPlaces DEF ToCloud
    <3>3. toCloud' \in {toCloud, Append(toCloud, [type |-> "submit", attempt |-> Head(pairingCh)])}
      BY <1>9 DEF SubmitCode
    <3>4. CASE toCloud' = toCloud
      BY <3>4 DEF ClaimGoing
    <3>5. CASE toCloud' = Append(toCloud, [type |-> "submit", attempt |-> Head(pairingCh)])
      BY <3>1, <3>2, <3>5, CloudLineAppend
    <3> QED
      BY <3>3, <3>4, <3>5
  <2>3. FromBefore({}) /\ Retained
    BY <2>1, <2>2, NoneAdded DEF Retained
  <2> QED
    BY <2>1, <2>3, StateQuietly
<1>10. CASE PairingResult
  <2>1. UNCHANGED <<owner, phase, live, claimed, tenant, owes, toCloud>> /\ Arrives("pairing_result")
    BY <1>10 DEF PairingResult
  <2>2. FromBefore({})
    BY <2>1, NoneAdded
  <2>3. Retained
    BY <2>1, Arrived DEF Retained, ClaimGoing
  <2> QED
    BY <2>1, <2>2, <2>3, StateQuietly
<1>11. CASE Config
  BY <1>11, StateAtConfig
<1>12. CASE VerifyClaim
  BY <1>12, StateAtVerify
<1>13. CASE JudgeCode
  BY <1>13, StateAtJudgement
<1>14. CASE ClaimVerified
  BY <1>14, StateAtClaim
<1>15. CASE SendConfig
  BY <1>15, StateAtSend
<1>16. ASSUME NEW t \in Tenants, SendVerifyClaim(t) PROVE StateInv'
  <2>1. live /\ UNCHANGED <<owner, phase, live, claimed, tenant, owes, toCloud>>
    BY <1>16 DEF SendVerifyClaim
  <2>2. PICK m \in ToBridge : m = [type |-> "verify_claim", name |-> t] /\ m.type = "verify_claim"
    BY CloudMessages
  <2>3. Send(<<m>>)
    BY <1>16, <2>2 DEF SendVerifyClaim
  <2>4. FromBefore({m}) /\ Added(m)
    BY <2>1, <2>3, OneAdded, SentOne
  <2>5. Retained
    BY <2>1, <2>4 DEF Added, Retained, ClaimGoing
  <2> QED
    BY <2>1, <2>2, <2>4, <2>5, StateQuietly
<1>17. CASE Release
  <2>1. PICK m \in ToBridge : m = [type |-> "unpaired"] /\ m.type = "unpaired"
    BY CloudMessages
  <2>2. Send(<<m>>) /\ UNCHANGED live
    BY <1>17, <2>1 DEF Release
  <2>3. ~Connected'
    BY <2>1, <2>2, SentOne DEF Added, Connected
  <2> QED
    BY <1>1, <2>3
<1>18. CASE UNCHANGED vars
  BY <1>2, <1>18 DEF vars
<1> QED
  BY <1>3, <1>4, <1>5, <1>6, <1>7, <1>8, <1>9, <1>10, <1>11, <1>12, <1>13, <1>14, <1>15, <1>16, <1>17, <1>18
     DEF Next, SessionNext, CloudNext

LEMMA StateIsAgreed == ASSUME StateInv PROVE StateAgrees
<1> SUFFICES ASSUME phase = "loop", live, toBridge = <<>>, toCloud = <<>>, ~owes
             PROVE  (claimed <=> owner # None) /\ (claimed => tenant = owner)
  BY DEF StateAgrees
<1>1. Connected /\ ~ConfigComing /\ ~ClaimGoing
  BY DEF Connected, ConfigComing, ClaimGoing
<1>2. owner # None => claimed /\ tenant = owner
  BY <1>1 DEF StateInv
<1>3. owner = None => ~claimed
  BY <1>1 DEF StateInv
<1> QED
  BY <1>2, <1>3

-----------------------------------------------------------------------------
(* All parts together.                                                     *)

\* What pages are told, and what bridge and cloud know of each other.
NewsInv == CodesInv /\ LostInv /\ WireInv /\ OkInv /\ StateInv

LEMMA NewsTypes ==
  IInv => CodeTypes /\ HandlerTypes /\ CloudTypes /\ PageTypes /\ BoundTypes
BY TypeParts, PairingAssumption DEF IInv, CodeTypes, HandlerTypes, CloudTypes, Judgement

LEMMA NewsInit == Init => NewsInv /\ CountInv
<1> SUFFICES ASSUME Init PROVE NewsInv /\ CountInv
  OBVIOUS
<1>1. /\ toCloud = <<>> /\ toBridge = <<>> /\ pairingCh = <<>> /\ phase = "away" /\ pending = None
      /\ verdict = [a \in Attempts |-> None] /\ reply = [a \in Attempts |-> "unused"]
      /\ done = [a \in Attempts |-> None]
  BY DEF Init
<1>2. \A a \in Attempts, r \in Judgement : ~Told(a, r)
  BY <1>1, PairingAssumption DEF Told, Judgement
<1>3. CodesInv
  BY <1>1, PairingAssumption DEF CodesInv, SubmittedOnce, Waiting, Submitted, Judgement
<1>4. LostInv
  BY <1>1, <1>2 DEF LostInv, AllRight
<1>5. WireInv
  BY <1>1 DEF WireInv
<1>6. OkInv
  BY <1>1, <1>2 DEF OkInv, OkTold, OkComing, Judgement
<1>7. StateInv
  BY <1>1 DEF StateInv, Connected
<1>8. CountInv
  <2> SUFFICES ASSUME NEW r \in Judgement
               PROVE  Cardinality(ToldSet(r)) + Cardinality(Coming(r)) <= Cardinality(Judged(r))
    BY DEF CountInv
  <2>1. ToldSet(r) = {} /\ Coming(r) = {}
    BY <1>1, <1>2 DEF ToldSet, Coming
  <2>2. Judged(r) = {}
    BY <1>1, PairingAssumption DEF Judged, Judgement
  <2> QED
    BY <2>1, <2>2, FS_EmptySet
<1> QED
  BY <1>3, <1>4, <1>5, <1>6, <1>7, <1>8 DEF NewsInv

LEMMA NewsKept == IInv /\ NewsInv /\ [Next]_vars => NewsInv'
<1> SUFFICES ASSUME IInv, NewsInv, [Next]_vars PROVE NewsInv'
  OBVIOUS
<1>1. /\ CodeTypes /\ CloudTypes /\ BoundTypes /\ CodesInv /\ LostInv /\ WireInv /\ OkInv /\ StateInv
  BY NewsTypes DEF NewsInv
<1>2. CodesInv'
  BY <1>1, CodesKept
<1>3. LostInv'
  BY <1>1, LostKept
<1>4. WireInv'
  BY <1>1, WireKept
<1>5. OkInv'
  BY <1>1, OkKept
<1>6. StateInv'
  BY <1>1, StateKept
<1> QED
  BY <1>2, <1>3, <1>4, <1>5, <1>6 DEF NewsInv

LEMMA NewsHold == Safety => []NewsInv
BY NewsInit, NewsKept, InvariantHolds, PTL DEF Safety

-----------------------------------------------------------------------------
(* What is proved.                                                         *)

\* Every reachable state of pages, handlers, session and cloud is well-typed.
THEOREM PairingTypeCorrect == Safety => []TypeOK
BY InvariantHolds, PTL DEF IInv

\* Sending a Result on Done never blocks the session goroutine, however many
\* pages ask, time out and ask again.
THEOREM ResultsNeverBlock == Safety => []SessionNeverBlocks
<1>1. IInv => SessionNeverBlocks
  BY DEF IInv, DoneInv, Waiting, SessionNeverBlocks
<1> QED
  BY <1>1, InvariantHolds, PTL

\* A page is told the judgement of another code only if some other code was
\* judged and its page is never told, whatever pages, session and cloud do.
THEOREM MismatchesExplained == Safety => []MismatchExplained
<1>1. NewsInv => MismatchExplained
  BY LostExplains DEF NewsInv
<1> QED
  BY <1>1, NewsHold, PTL

\* No judgement is told to more pages than it was made for codes: a session
\* gives each pairing_result to one page at most.
THEOREM ResultsOnce ==
  ASSUME IsFiniteSet(Attempts)
  PROVE  Safety => []ResultsToldOnce
<1>1. IInv /\ IInv' /\ NewsInv /\ CountInv /\ [Next]_vars => CountInv'
  <2>1. IInv' => CloudTypes'
    BY DEF IInv, TypeOK, CloudTypes
  <2> QED
    BY <2>1, NewsTypes, CountKept DEF NewsInv
<1>2. IInv /\ CountInv => ResultsToldOnce
  BY NewsTypes, CountBounds
<1> QED
  BY <1>1, <1>2, NewsInit, NewsHold, InvariantHolds, PTL DEF Safety

\* If config precedes the pairing_result, a page that is told "ok" finds the
\* bridge claimed, unless the claim was ended in between.
THEOREM OkIsClaimed == Safety => []OkMeansClaimed
<1>1. IInv /\ NewsInv => OkMeansClaimed
  BY NewsTypes, OkClaims DEF NewsInv
<1> QED
  BY <1>1, NewsHold, InvariantHolds, PTL

\* Once nothing is under way between them, bridge and cloud agree on the claim.
THEOREM BridgeAgrees == Safety => []StateAgrees
<1>1. NewsInv => StateAgrees
  BY StateIsAgreed DEF NewsInv
<1> QED
  BY <1>1, NewsHold, PTL
=============================================================================
