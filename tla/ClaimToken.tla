----------------------------- MODULE ClaimToken -----------------------------
(***************************************************************************)
(* The claim of the bridge as internal/state keeps it: whether it is       *)
(* claimed, by whom, the claim token a till reads from /setup/info, and    *)
(* the lock after too many failed verify_claim messages.                   *)
(*                                                                         *)
(* Every function of internal/state is one critical section.  Its callers  *)
(* are the session goroutine, whose messages take up to two of them, and   *)
(* the handlers of /setup/info (internal/local/http.go), which take three; *)
(* sections of different goroutines interleave.  RotateClaimToken has no   *)
(* caller.  Tokens are random: they are numbered as they are generated, 0  *)
(* is none.  The cloud may send any message at any time, and any token a   *)
(* till has read; 0 stands for all other tokens it may send.               *)
(*                                                                         *)
(* lockUntil is kept as the ticks left: 0 is that very instant, -1 past.   *)
(***************************************************************************)
EXTENDS Integers

CONSTANTS
  Requests,     \* handlers of /setup/info at a time
  Threshold,    \* failThreshold
  LockTicks,    \* lockSeconds
  MaxTokens,    \* bound: tokens generated
  MaxFailures   \* bound: failed verifications

Tokens == 1 .. MaxTokens

ASSUME ClaimAssumption ==
  /\ Threshold \in Nat \ {0} /\ LockTicks \in Nat \ {0}
  /\ MaxTokens \in Nat /\ MaxFailures \in Nat

VARIABLES
  claimed, named, claimToken,     \* named: tenantName is not empty
  bridgeID,                       \* it is not empty
  failCount, lockSet, lockLeft,   \* lockSet: lockUntil is not zero
  step, tok,                      \* of the session goroutine: section to come, its token
  at,                             \* [Requests -> section the handler has passed]
  \* kept to state the properties
  fresh,       \* tokens generated
  handed,      \* tokens that /setup/info has given away
  ended,       \* tokens that a claim, an unpairing or a restart has ended
  verified,    \* [Tokens -> times it was found right]
  failures, recent, asked   \* failed verifications, those since the last lock
                            \* expired, and whether IsLocked was called since

claimVars == <<claimed, named, claimToken>>
lockVars  == <<failCount, lockSet, lockLeft>>
loopVars  == <<step, tok>>
tokenVars == <<fresh, handed, ended, verified>>
failVars  == <<failures, recent, asked>>
vars == <<claimVars, bridgeID, lockVars, loopVars, at, tokenVars, failVars>>

TypeOK ==
  /\ claimed \in BOOLEAN /\ named \in BOOLEAN /\ claimToken \in 0 .. MaxTokens
  /\ bridgeID \in BOOLEAN
  /\ failCount \in 0 .. MaxFailures /\ lockSet \in BOOLEAN /\ lockLeft \in (-1) .. LockTicks
  /\ step \in {"select", "welcome", "config", "right", "wrong"} /\ tok \in 0 .. MaxTokens
  /\ at \in [Requests -> {"out", "unlocked", "registered"}]
  /\ fresh \in 0 .. MaxTokens /\ claimToken <= fresh
  /\ handed \in SUBSET (1 .. fresh) /\ ended \in SUBSET (1 .. fresh)
  /\ verified \in [Tokens -> Nat]
  /\ failures \in 0 .. MaxFailures /\ recent \in 0 .. failures /\ asked \in BOOLEAN

Init ==
  /\ claimed = FALSE /\ named = FALSE /\ claimToken = 0 /\ bridgeID = FALSE
  /\ failCount = 0 /\ lockSet = FALSE /\ lockLeft = -1
  /\ step = "select" /\ tok = 0
  /\ at = [r \in Requests |-> "out"]
  /\ fresh = 0 /\ handed = {} /\ ended = {}
  /\ verified = [t \in Tokens |-> 0]
  /\ failures = 0 /\ recent = 0 /\ asked = TRUE

-----------------------------------------------------------------------------
(* internal/state.                                                         *)

Drop == ended' = ended \cup ({claimToken} \ {0})

\* Faulty: the token stays.
InvalidateClaimedOnly ==
  /\ claimed' = TRUE
  /\ UNCHANGED <<claimToken, named, fresh, ended>>

InvalidateClaimToken ==
  /\ claimed' = TRUE /\ claimToken' = 0 /\ Drop
  /\ UNCHANGED <<named, fresh>>

\* Faulty: the tenant's name stays.
UnpairKeepingName ==
  /\ fresh < MaxTokens
  /\ claimed' = FALSE
  /\ fresh' = fresh + 1 /\ claimToken' = fresh + 1 /\ Drop
  /\ UNCHANGED named

Unpair ==
  /\ fresh < MaxTokens
  /\ claimed' = FALSE /\ named' = FALSE
  /\ fresh' = fresh + 1 /\ claimToken' = fresh + 1 /\ Drop

NeedsAlways == ~claimed            \* faulty: as RotateClaimToken would
\* When GetClaimToken generates a token.
NeedsToken == ~claimed /\ claimToken = 0

CheckToken(t) == claimToken # 0 /\ t # 0 /\ t = claimToken

LocksTooSoon(n) == n > 0           \* faulty
Locks(n) == n >= Threshold

LockedTooLong == LockTicks + 1     \* faulty
LockDuration == LockTicks

RecordVerifyFailure ==
  /\ failures < MaxFailures
  /\ failCount' = failCount + 1
  /\ failures' = failures + 1 /\ recent' = recent + 1
  /\ IF Locks(failCount + 1) THEN lockSet' = TRUE /\ lockLeft' = LockDuration
                             ELSE UNCHANGED <<lockSet, lockLeft>>
  /\ UNCHANGED asked

IsLocked == lockSet /\ lockLeft > 0
Expired  == lockSet /\ lockLeft < 0

-----------------------------------------------------------------------------
(* The session goroutine.                                                  *)

\* The handshake: SetBridgeID, then the status.
Welcome ==
  /\ step = "select" /\ step' = "welcome"
  /\ \E bid \in BOOLEAN : bridgeID' = (bridgeID \/ bid)
  /\ UNCHANGED <<claimVars, lockVars, tok, at, tokenVars, failVars>>

WelcomeStatus ==
  /\ step = "welcome" /\ step' = "select"
  /\ Unpair \/ InvalidateClaimToken \/ UNCHANGED <<claimVars, fresh, ended>>
  /\ UNCHANGED <<bridgeID, lockVars, tok, at, handed, verified, failVars>>

\* case "verify_claim", as far as CheckToken.
VerifyClaim(t) ==
  /\ step = "select"
  /\ tok' = t
  /\ IF CheckToken(t)
     THEN step' = "right" /\ verified' = [verified EXCEPT ![t] = @ + 1]
     ELSE step' = "wrong" /\ UNCHANGED verified
  /\ UNCHANGED <<claimVars, bridgeID, lockVars, at, fresh, handed, ended, failVars>>

VerifyRight ==
  /\ step = "right" /\ step' = "select" /\ tok' = 0
  /\ InvalidateClaimToken
  /\ UNCHANGED <<bridgeID, lockVars, at, handed, verified, failVars>>

VerifyWrong ==
  /\ step = "wrong" /\ step' = "select" /\ tok' = 0
  /\ RecordVerifyFailure
  /\ UNCHANGED <<claimVars, bridgeID, at, tokenVars>>

\* case "config": SetTenantName, with a name that may be empty ...
Config ==
  /\ step = "select" /\ step' = "config"
  /\ named' \in BOOLEAN
  /\ UNCHANGED <<claimed, claimToken, bridgeID, lockVars, tok, at, tokenVars, failVars>>

\* ... then InvalidateClaimToken.
ConfigClaims ==
  /\ step = "config" /\ step' = "select"
  /\ InvalidateClaimToken
  /\ UNCHANGED <<bridgeID, lockVars, tok, at, handed, verified, failVars>>

Unpaired ==
  /\ step = "select" /\ Unpair
  /\ UNCHANGED <<bridgeID, lockVars, loopVars, at, handed, verified, failVars>>

-----------------------------------------------------------------------------
(* GET /setup/info, time, and the end of the process.                      *)

Step(r, from, to) == at[r] = from /\ at' = [at EXCEPT ![r] = to]

\* IsLocked: locked is an answer; after the lock the failures are forgotten.
AskLocked(r) ==
  /\ Step(r, "out", IF IsLocked THEN "out" ELSE "unlocked")
  /\ failCount' = IF Expired THEN 0 ELSE failCount
  /\ asked' = (asked \/ Expired)
  /\ UNCHANGED <<claimVars, bridgeID, lockSet, lockLeft, loopVars, tokenVars, failures, recent>>

\* GetBridgeID: no id is an answer too.
AskBridgeID(r) ==
  /\ Step(r, "unlocked", IF bridgeID THEN "registered" ELSE "out")
  /\ UNCHANGED <<claimVars, bridgeID, lockVars, loopVars, tokenVars, failVars>>

\* GetClaimToken, and the reply.
AskToken(r) ==
  /\ Step(r, "registered", "out")
  /\ NeedsToken => fresh < MaxTokens
  /\ fresh' = IF NeedsToken THEN fresh + 1 ELSE fresh
  /\ claimToken' = IF NeedsToken THEN fresh + 1 ELSE claimToken
  /\ handed' = handed \cup (IF claimed THEN {} ELSE {claimToken'})
  /\ UNCHANGED <<claimed, named, bridgeID, lockVars, loopVars, ended, verified, failVars>>

Tick ==
  /\ lockLeft >= 0 /\ lockLeft' = lockLeft - 1
  /\ IF lockLeft = 0 THEN recent' = 0 /\ asked' = FALSE ELSE UNCHANGED <<recent, asked>>
  /\ UNCHANGED <<claimVars, bridgeID, failCount, lockSet, loopVars, at, tokenVars, failures>>

\* The process ends and starts again: all of internal/state is gone.
Restart ==
  /\ claimed' = FALSE /\ named' = FALSE /\ claimToken' = 0 /\ bridgeID' = FALSE /\ Drop
  /\ failCount' = 0 /\ lockSet' = FALSE /\ lockLeft' = -1
  /\ step' = "select" /\ tok' = 0 /\ at' = [r \in Requests |-> "out"]
  /\ recent' = 0 /\ asked' = TRUE
  /\ UNCHANGED <<fresh, handed, verified, failures>>

LoopNext ==
  \/ Welcome \/ WelcomeStatus
  \/ \E t \in handed \cup {0} : VerifyClaim(t)
  \/ VerifyRight \/ VerifyWrong
  \/ Config \/ ConfigClaims \/ Unpaired

Next ==
  \/ LoopNext
  \/ \E r \in Requests : AskLocked(r) \/ AskBridgeID(r) \/ AskToken(r)
  \/ Tick \/ Restart

Spec == Init /\ [][Next]_vars

-----------------------------------------------------------------------------
(* What the claim state promises.                                          *)

\* Whatever /setup/info does in between, a claimed bridge has no token, and a
\* tenant's name without a claim exists only inside the handling of config.
Coherent ==
  /\ claimed => claimToken = 0
  /\ named => claimed \/ step = "config"

\* No token claims the bridge twice, whoever sends it again, also after an
\* unpairing or a restart.
VerifiesOnce == \A t \in Tokens : verified[t] <= 1

\* A token that a till got from /setup/info is refused only if a claim, an
\* unpairing, a handshake with UNCLAIMED or a restart has ended it since:
\* another till that asks does not end it.
RefusalExplained == step = "wrong" /\ tok \in handed => tok \in ended

\* Within one run of the process a lock takes Threshold failures since the
\* last one expired.  It takes fewer only if /setup/info, which is what makes
\* the bridge forget the old ones, was not called since.
LockEarned == lockLeft >= 0 /\ asked => recent >= Threshold
=============================================================================
