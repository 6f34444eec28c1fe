-------------------------- MODULE ClaimTokenProofs --------------------------
(***************************************************************************)
(* Proofs about ClaimToken, for any number of requests to /setup/info, any *)
(* threshold and lock, and any number of tokens and failures.              *)
(***************************************************************************)
EXTENDS ClaimToken, TLAPS

\* What the token sections keep: a token that ended is never the token again,
\* a token given away that is not the token has ended, and one that was found
\* right has ended or is about to.
TokensKept ==
  /\ claimToken \notin ended
  /\ handed \subseteq ended \cup {claimToken}
  /\ step = "right" => tok # 0 /\ claimToken = tok
  /\ step = "wrong" => tok \in handed \cup {0}
  /\ \A t \in Tokens : verified[t] # 0 => verified[t] = 1 /\ (t \in ended \/ (step = "right" /\ tok = t))

\* What the lock sections keep: once /setup/info was asked, no failure counts
\* that is older than the last lock.
FailuresKept ==
  /\ failCount <= failures
  /\ asked => failCount <= recent

IInv == TypeOK /\ Coherent /\ TokensKept /\ RefusalExplained /\ FailuresKept /\ LockEarned

\* The parts of TypeOK that different provers are good at.
Flags ==
  /\ claimed \in BOOLEAN /\ named \in BOOLEAN /\ bridgeID \in BOOLEAN
  /\ lockSet \in BOOLEAN /\ asked \in BOOLEAN

Numbers ==
  /\ claimToken \in 0 .. MaxTokens /\ tok \in 0 .. MaxTokens
  /\ fresh \in 0 .. MaxTokens /\ claimToken <= fresh
  /\ failCount \in 0 .. MaxFailures /\ lockLeft \in (-1) .. LockTicks
  /\ failures \in 0 .. MaxFailures /\ recent \in 0 .. failures
  /\ handed \in SUBSET (1 .. fresh) /\ ended \in SUBSET (1 .. fresh)

Places ==
  /\ step \in {"select", "welcome", "config", "right", "wrong"}
  /\ at \in [Requests -> {"out", "unlocked", "registered"}]
  /\ verified \in [Tokens -> Nat]

LEMMA TypeParts == TypeOK <=> Flags /\ Numbers /\ Places
BY DEF TypeOK, Flags, Numbers, Places

LEMMA TypePartsNext == TypeOK' <=> Flags' /\ Numbers' /\ Places'
BY DEF TypeOK, Flags, Numbers, Places

-----------------------------------------------------------------------------

LEMMA InitOK == Init => IInv
<1> SUFFICES ASSUME Init PROVE IInv
  OBVIOUS
<1> USE ClaimAssumption DEF Init, Tokens
<1>1. Flags
  BY DEF Flags
<1>2. Numbers
  BY DEF Numbers
<1>3. Places
  BY DEF Places
<1>4. Coherent /\ TokensKept /\ RefusalExplained
  BY DEF Coherent, TokensKept, RefusalExplained
<1>5. FailuresKept /\ LockEarned
  BY DEF FailuresKept, LockEarned
<1> QED
  BY <1>1, <1>2, <1>3, <1>4, <1>5, TypeParts DEF IInv

LEMMA StutterOK == IInv /\ UNCHANGED vars => IInv'
BY DEF IInv, TypeOK, Coherent, TokensKept, RefusalExplained, FailuresKept, LockEarned, Step,
       vars, claimVars, lockVars, loopVars, tokenVars, failVars

\* The sections that only the session goroutine enters.
LEMMA LoopOK == IInv /\ LoopNext => IInv'
<1> USE ClaimAssumption
        DEF IInv, TypeOK, Coherent, TokensKept, RefusalExplained, FailuresKept, LockEarned, Tokens,
            Flags, Numbers, Places, claimVars, lockVars, loopVars, tokenVars, failVars
<1> SUFFICES ASSUME IInv, LoopNext PROVE IInv'
  OBVIOUS
<1>1. CASE Welcome
  BY <1>1 DEF Welcome
<1>2. CASE WelcomeStatus
  <2>1. Flags'
    BY <1>2 DEF WelcomeStatus, Unpair, InvalidateClaimToken, Drop
  <2>2. Numbers'
    <3>1. CASE Unpair
      BY <1>2, <3>1 DEF WelcomeStatus, Unpair, Drop
    <3>2. CASE InvalidateClaimToken
      BY <1>2, <3>2 DEF WelcomeStatus, InvalidateClaimToken, Drop
    <3>3. CASE UNCHANGED <<claimVars, fresh, ended>>
      BY <1>2, <3>3 DEF WelcomeStatus
    <3> QED
      BY <1>2, <3>1, <3>2, <3>3 DEF WelcomeStatus
  <2>3. Places'
    BY <1>2 DEF WelcomeStatus, Unpair, InvalidateClaimToken, Drop
  <2>4. Coherent' /\ TokensKept' /\ RefusalExplained'
    BY <1>2 DEF WelcomeStatus, Unpair, InvalidateClaimToken, Drop
  <2>5. FailuresKept' /\ LockEarned'
    BY <1>2 DEF WelcomeStatus, Unpair, InvalidateClaimToken, Drop
  <2> QED
    BY <2>1, <2>2, <2>3, <2>4, <2>5, TypePartsNext DEF IInv
<1>3. ASSUME NEW t \in handed \cup {0}, VerifyClaim(t) PROVE IInv'
  BY <1>3 DEF VerifyClaim, CheckToken
<1>4. CASE VerifyRight
  BY <1>4 DEF VerifyRight, InvalidateClaimToken, Drop
<1>5. CASE VerifyWrong
  <2>1. Flags'
    BY <1>5 DEF VerifyWrong, RecordVerifyFailure, Locks, LockDuration
  <2>2. Numbers'
    BY <1>5 DEF VerifyWrong, RecordVerifyFailure, Locks, LockDuration
  <2>3. Places'
    BY <1>5 DEF VerifyWrong, RecordVerifyFailure, Locks, LockDuration
  <2>4. Coherent' /\ TokensKept' /\ RefusalExplained'
    BY <1>5 DEF VerifyWrong, RecordVerifyFailure, Locks, LockDuration
  <2>5. FailuresKept' /\ LockEarned'
    BY <1>5 DEF VerifyWrong, RecordVerifyFailure, Locks, LockDuration
  <2> QED
    BY <2>1, <2>2, <2>3, <2>4, <2>5, TypePartsNext DEF IInv
<1>6. CASE Config
  BY <1>6 DEF Config
<1>7. CASE ConfigClaims
  BY <1>7 DEF ConfigClaims, InvalidateClaimToken, Drop
<1>8. CASE Unpaired
  <2>1. Flags'
    BY <1>8 DEF Unpaired, Unpair, Drop
  <2>2. Numbers'
    BY <1>8 DEF Unpaired, Unpair, Drop
  <2>3. Places'
    BY <1>8 DEF Unpaired, Unpair, Drop
  <2>4. Coherent' /\ TokensKept' /\ RefusalExplained'
    BY <1>8 DEF Unpaired, Unpair, Drop
  <2>5. FailuresKept' /\ LockEarned'
    BY <1>8 DEF Unpaired, Unpair, Drop
  <2> QED
    BY <2>1, <2>2, <2>3, <2>4, <2>5, TypePartsNext DEF IInv
<1> QED
  BY <1>1, <1>2, <1>3, <1>4, <1>5, <1>6, <1>7, <1>8 DEF LoopNext

\* The sections of /setup/info.
LEMMA AskOK ==
  ASSUME NEW r \in Requests, IInv, AskLocked(r) \/ AskBridgeID(r) \/ AskToken(r)
  PROVE  IInv'
<1> USE ClaimAssumption
        DEF IInv, TypeOK, Coherent, TokensKept, RefusalExplained, FailuresKept, LockEarned, Tokens,
            Flags, Numbers, Places, claimVars, lockVars, loopVars, tokenVars, failVars, Step
<1>1. CASE AskLocked(r)
  BY <1>1 DEF AskLocked, IsLocked, Expired
<1>2. CASE AskBridgeID(r)
  BY <1>2 DEF AskBridgeID
<1>3. CASE AskToken(r)
  BY <1>3 DEF AskToken, NeedsToken
<1> QED
  BY <1>1, <1>2, <1>3

LEMMA TickOK == IInv /\ Tick => IInv'
<1> SUFFICES ASSUME IInv, Tick PROVE IInv'
  OBVIOUS
<1> USE ClaimAssumption
        DEF IInv, TypeOK, Coherent, TokensKept, RefusalExplained, FailuresKept, LockEarned, Tokens,
            Flags, Numbers, Places, claimVars, lockVars, loopVars, tokenVars, failVars
<1>1. Flags'
  BY DEF Tick
<1>2. Numbers'
  BY DEF Tick
<1>3. Places'
  BY DEF Tick
<1>4. Coherent' /\ TokensKept' /\ RefusalExplained'
  BY DEF Tick
<1>5. FailuresKept' /\ LockEarned'
  BY DEF Tick
<1> QED
  BY <1>1, <1>2, <1>3, <1>4, <1>5, TypePartsNext DEF IInv

LEMMA RestartOK == IInv /\ Restart => IInv'
<1> SUFFICES ASSUME IInv, Restart PROVE IInv'
  OBVIOUS
<1> USE ClaimAssumption
        DEF IInv, TypeOK, Coherent, TokensKept, RefusalExplained, FailuresKept, LockEarned, Tokens,
            Flags, Numbers, Places, claimVars, lockVars, loopVars, tokenVars, failVars
<1>1. Flags'
  BY DEF Restart, Drop
<1>2. Numbers'
  BY DEF Restart, Drop
<1>3. Places'
  BY DEF Restart, Drop
<1>4. Coherent' /\ TokensKept' /\ RefusalExplained'
  BY DEF Restart, Drop
<1>5. FailuresKept' /\ LockEarned'
  BY DEF Restart, Drop
<1> QED
  BY <1>1, <1>2, <1>3, <1>4, <1>5, TypePartsNext DEF IInv

LEMMA InvariantHolds == Spec => []IInv
<1>1. IInv /\ [Next]_vars => IInv'
  BY LoopOK, AskOK, TickOK, RestartOK, StutterOK DEF Next
<1> QED
  BY InitOK, <1>1, PTL DEF Spec

-----------------------------------------------------------------------------
(* What is proved.                                                         *)

\* Every reachable state of internal/state and its callers is well-typed.
THEOREM ClaimTypeCorrect == Spec => []TypeOK
BY InvariantHolds, PTL DEF IInv

\* However the requests to /setup/info fall between the sections of a message,
\* a claimed bridge has no token, and a name without a claim is being claimed.
THEOREM ClaimCoherent == Spec => []Coherent
BY InvariantHolds, PTL DEF IInv

\* No claim token is found right twice.
THEOREM TokenClaimsOnce == Spec => []VerifiesOnce
<1>1. IInv => VerifiesOnce
  BY DEF IInv, TypeOK, TokensKept, VerifiesOnce
<1> QED
  BY <1>1, InvariantHolds, PTL

\* A token that was given away is refused only when something has ended it.
THEOREM RefusalsExplained == Spec => []RefusalExplained
BY InvariantHolds, PTL DEF IInv

\* A lock takes Threshold failures since the last one, unless /setup/info was
\* not called since.
THEOREM LocksEarned == Spec => []LockEarned
BY InvariantHolds, PTL DEF IInv
=============================================================================
