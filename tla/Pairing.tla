------------------------------- MODULE Pairing -------------------------------
(***************************************************************************)
(* Pairing a bridge with a tenant: the page of the pairing server, its     *)
(* handler of POST /api/pair (internal/pairing/serve.go), the session      *)
(* goroutine that passes codes on to the cloud (internal/cloud/client.go)  *)
(* and the claim state both of them use (internal/state).                  *)
(*                                                                         *)
(*  - A handler puts a request with a channel Done into pairingCh and      *)
(*    waits 15 s for a Result.                                             *)
(*  - The session goroutine sends the code and keeps Done in one variable, *)
(*    pendingPairingDone, until a pairing_result comes.  Neither message   *)
(*    names the request it belongs to.                                     *)
(*  - The bridge is told that it is claimed by a config message, by the    *)
(*    status in the handshake, or by a claim token the cloud verifies.     *)
(*                                                                         *)
(* An attempt is one POST /api/pair; it stands for its code too.  Claim    *)
(* tokens are left out but for the effect of verify_claim.  The cloud is   *)
(* external: it accepts or refuses codes, owns the true claim, and may     *)
(* release the bridge.  The sleep and the backoff of Run are left out, so  *)
(* that a session may begin at any moment after the last.                  *)
(***************************************************************************)
EXTENDS Naturals, Sequences, FiniteSets

CONSTANTS
  Browsers,      \* open pairing pages
  Attempts,      \* requests POST /api/pair
  Tenants,
  None,
  ChCap,         \* capacity of pairingCh
  MaxSessions,   \* bound: sessions
  MaxReleases,   \* bound: the cloud releases the bridge
  MaxConfigs,    \* bound: configs, and verify_claims, the cloud sends unasked
  MaxRestarts    \* bound: restarts of the process

ASSUME PairingAssumption ==
  /\ None \notin Attempts \cup Tenants \cup {"ok", "refused", "send_failed"}
  /\ ChCap \in Nat \ {0}
  /\ MaxSessions \in Nat /\ MaxReleases \in Nat
  /\ MaxConfigs \in Nat /\ MaxRestarts \in Nat

VARIABLES
  \* the pages and the handlers
  view,        \* [Browsers -> what the page shows]
  busy,        \* [Browsers -> attempt the page is waiting for: pending]
  reply,       \* [Attempts -> where the handler is, or what it answered]
  done,        \* [Attempts -> Result in the channel Done]
  \* the session goroutine
  pairingCh,
  phase,       \* of the session
  pending,     \* pendingPairingDone
  \* internal/state
  claimed, tenant,
  \* the connection
  live, toCloud, toBridge,
  \* the cloud
  owner,       \* tenant the bridge belongs to
  verdict,     \* [Attempts -> judgement of the code]
  owes,        \* a config is still to be sent for a new claim
  configFirst, \* the cloud sends config before the pairing_result: never changes
  \* counters for the bounds
  sessions, releases, configs, restarts

pageVars    == <<view, busy>>
handlerVars == <<reply, done>>
sessionVars == <<pairingCh, phase, pending>>
stateVars   == <<claimed, tenant>>
netVars     == <<live, toCloud, toBridge>>
cloudVars   == <<owner, verdict, owes, configFirst>>
boundVars   == <<sessions, releases, configs, restarts>>
vars == <<pageVars, handlerVars, sessionVars, stateVars, netVars, cloudVars, boundVars>>

Results   == {"ok", "refused", "send_failed"}
Judgement == {"ok", "refused"}
Replies   == Results \cup {"unused", "waiting", "busy", "timeout", "gone"}

ToBridge ==
  [type : {"welcome"}, status : {"UNCLAIMED", "ACTIVE"}]
    \cup [type : {"pairing_result"}, result : Judgement]
    \cup [type : {"config"}, name : Tenants]
    \cup [type : {"verify_claim"}, name : Tenants]
    \cup [type : {"unpaired"}]
ToCloud ==
  [type : {"submit"}, attempt : Attempts]
    \cup [type : {"verified"}, name : Tenants, ok : BOOLEAN]

TypeOK ==
  /\ view      \in [Browsers -> {"pair", "info"}]
  /\ busy      \in [Browsers -> Attempts \cup {None}]
  /\ reply     \in [Attempts -> Replies]
  /\ done      \in [Attempts -> Results \cup {None}]
  /\ pairingCh \in Seq(Attempts) /\ Len(pairingCh) <= ChCap
  /\ phase     \in {"away", "hello", "loop"}
  /\ pending   \in Attempts \cup {None}
  /\ claimed   \in BOOLEAN
  /\ tenant    \in Tenants \cup {None}
  /\ live      \in BOOLEAN
  /\ toCloud   \in Seq(ToCloud)
  /\ toBridge  \in Seq(ToBridge)
  /\ owner     \in Tenants \cup {None}
  /\ verdict   \in [Attempts -> Judgement \cup {None}]
  /\ owes      \in BOOLEAN
  /\ configFirst \in BOOLEAN
  /\ sessions  \in 0 .. MaxSessions /\ releases \in 0 .. MaxReleases
  /\ configs   \in 0 .. MaxConfigs  /\ restarts \in 0 .. MaxRestarts

Init ==
  /\ view = [b \in Browsers |-> "pair"] /\ busy = [b \in Browsers |-> None]
  /\ reply = [a \in Attempts |-> "unused"] /\ done = [a \in Attempts |-> None]
  /\ pairingCh = <<>> /\ phase = "away" /\ pending = None
  /\ claimed = FALSE /\ tenant = None
  /\ live = FALSE /\ toCloud = <<>> /\ toBridge = <<>>
  /\ owner = None /\ verdict = [a \in Attempts |-> None] /\ owes = FALSE
  /\ configFirst \in BOOLEAN
  /\ sessions = 0 /\ releases = 0 /\ configs = 0 /\ restarts = 0

-----------------------------------------------------------------------------
(* internal/state.                                                         *)

InvalidateClaimToken == claimed' = TRUE
Unpair == claimed' = FALSE /\ tenant' = None

-----------------------------------------------------------------------------
(* The page and the handlers.                                              *)

\* What /api/status makes the page show.
Status == IF claimed THEN "info" ELSE "pair"

\* loadStatus; if the status cannot be had, the page shows the form.
LoadStatus(b) ==
  /\ busy[b] = None
  /\ \E v \in {Status, "pair"} : view' = [view EXCEPT ![b] = v]
  /\ UNCHANGED <<busy, handlerVars, sessionVars, stateVars, netVars, cloudVars, boundVars>>

\* Faulty: no bound on the requests in the channel.
PostPairUnbounded(b, a) ==
  /\ view[b] = "pair" /\ busy[b] = None
  /\ reply[a] = "unused"
  /\ busy' = [busy EXCEPT ![b] = a]
  /\ pairingCh' = Append(pairingCh, a)
  /\ reply' = [reply EXCEPT ![a] = "waiting"]
  /\ UNCHANGED <<view, done, phase, pending, stateVars, netVars, cloudVars, boundVars>>

\* submitCode, and the handler as far as its wait: a send on pairingCh that
\* does not block, or the answer "busy".
PostPair(b, a) ==
  /\ view[b] = "pair" /\ busy[b] = None
  /\ reply[a] = "unused"
  /\ busy' = [busy EXCEPT ![b] = a]
  /\ IF Len(pairingCh) < ChCap
     THEN /\ pairingCh' = Append(pairingCh, a)
          /\ reply' = [reply EXCEPT ![a] = "waiting"]
     ELSE /\ reply' = [reply EXCEPT ![a] = "busy"]
          /\ UNCHANGED pairingCh
  /\ UNCHANGED <<view, done, phase, pending, stateVars, netVars, cloudVars, boundVars>>

\* case res := <-done
Answer(a) ==
  /\ reply[a] = "waiting" /\ done[a] # None
  /\ reply' = [reply EXCEPT ![a] = done[a]]
  /\ done'  = [done EXCEPT ![a] = None]
  /\ UNCHANGED <<pageVars, sessionVars, stateVars, netVars, cloudVars, boundVars>>

\* Faulty: the timer starts when the session has taken the request.
TimeOutOnceTaken(a) ==
  /\ reply[a] = "waiting"
  /\ ~\E i \in 1 .. Len(pairingCh) : pairingCh[i] = a
  /\ reply' = [reply EXCEPT ![a] = "timeout"]
  /\ UNCHANGED <<pageVars, done, sessionVars, stateVars, netVars, cloudVars, boundVars>>

\* case <-time.After(15 * time.Second); both cases may be ready.
TimeOut(a) ==
  /\ reply[a] = "waiting"
  /\ reply' = [reply EXCEPT ![a] = "timeout"]
  /\ UNCHANGED <<pageVars, done, sessionVars, stateVars, netVars, cloudVars, boundVars>>

\* The page has the answer.  After a success it fetches the status and shows
\* the information view if that fails.
ShowReply(b) ==
  /\ busy[b] # None /\ reply[busy[b]] # "waiting"
  /\ busy' = [busy EXCEPT ![b] = None]
  /\ IF reply[busy[b]] = "ok"
     THEN \E v \in {Status, "info"} : view' = [view EXCEPT ![b] = v]
     ELSE UNCHANGED view
  /\ UNCHANGED <<handlerVars, sessionVars, stateVars, netVars, cloudVars, boundVars>>

-----------------------------------------------------------------------------
(* The session goroutine.                                                  *)

\* Dial and handshake: the cloud answers with what it knows of the bridge.
Connect ==
  /\ phase = "away" /\ sessions < MaxSessions
  /\ sessions' = sessions + 1
  /\ phase' = "hello" /\ live' = TRUE
  /\ toCloud' = <<>>
  /\ toBridge' = << [type |-> "welcome", status |-> IF owner = None THEN "UNCLAIMED" ELSE "ACTIVE"] >>
  /\ owes' = (owner # None)
  /\ UNCHANGED <<pageVars, handlerVars, pairingCh, pending, stateVars, owner, verdict,
                 configFirst, releases, configs, restarts>>

Arrives(type) == toBridge # <<>> /\ Head(toBridge).type = type /\ toBridge' = Tail(toBridge)

\* Faulty: only the status ACTIVE is looked at.
WelcomeActiveOnly ==
  /\ phase = "hello" /\ Arrives("welcome")
  /\ phase' = "loop" /\ pending' = None
  /\ IF Head(toBridge).status = "ACTIVE" THEN InvalidateClaimToken ELSE UNCHANGED claimed
  /\ UNCHANGED <<pageVars, handlerVars, pairingCh, tenant, live, toCloud, cloudVars, boundVars>>

Welcome ==
  /\ phase = "hello" /\ Arrives("welcome")
  /\ phase' = "loop" /\ pending' = None
  /\ IF Head(toBridge).status = "UNCLAIMED" THEN Unpair
     ELSE InvalidateClaimToken /\ UNCHANGED tenant
  /\ UNCHANGED <<pageVars, handlerVars, pairingCh, live, toCloud, cloudVars, boundVars>>

\* errCh, or a failed handshake.  Done and what is left in recvLoop are lost.
SessionEnds ==
  /\ phase # "away" /\ ~live
  /\ phase' = "away"
  /\ pending' = None /\ toBridge' = <<>>
  /\ UNCHANGED <<pageVars, handlerVars, pairingCh, stateVars, live, toCloud, cloudVars,
                 boundVars>>

\* case pr := <-pairingCh.  A write to a broken connection fails or is lost.
SubmitCode ==
  LET a == Head(pairingCh) IN
  /\ phase = "loop" /\ pairingCh # <<>>
  /\ pairingCh' = Tail(pairingCh)
  /\ \/ /\ pending' = a
        /\ toCloud' = IF live THEN Append(toCloud, [type |-> "submit", attempt |-> a]) ELSE toCloud
        /\ UNCHANGED done
     \/ /\ ~live
        /\ done' = [done EXCEPT ![a] = "send_failed"]
        /\ UNCHANGED <<pending, toCloud>>
  /\ UNCHANGED <<pageVars, reply, phase, stateVars, live, toBridge, cloudVars, boundVars>>

\* Faulty: Done is kept, every waiting page is told, or "ok" is not understood.
PairingResultKeepingDone ==
  /\ phase = "loop" /\ Arrives("pairing_result")
  /\ IF pending = None THEN UNCHANGED done
     ELSE done' = [done EXCEPT ![pending] = Head(toBridge).result]
  /\ UNCHANGED <<pageVars, reply, pairingCh, phase, pending, stateVars, live, toCloud,
                 cloudVars, boundVars>>

PairingResultToAll ==
  /\ phase = "loop" /\ Arrives("pairing_result")
  /\ done' = [a \in Attempts |-> IF reply[a] = "waiting" THEN Head(toBridge).result ELSE done[a]]
  /\ pending' = None
  /\ UNCHANGED <<pageVars, reply, pairingCh, phase, stateVars, live, toCloud, cloudVars,
                 boundVars>>

PairingResultRefused ==
  /\ phase = "loop" /\ Arrives("pairing_result")
  /\ IF pending = None THEN UNCHANGED done
     ELSE done' = [done EXCEPT ![pending] = "refused"]
  /\ pending' = None
  /\ UNCHANGED <<pageVars, reply, pairingCh, phase, stateVars, live, toCloud, cloudVars,
                 boundVars>>

\* case "pairing_result"
PairingResult ==
  /\ phase = "loop" /\ Arrives("pairing_result")
  /\ IF pending = None THEN UNCHANGED done
     ELSE done' = [done EXCEPT ![pending] = Head(toBridge).result]
  /\ pending' = None
  /\ UNCHANGED <<pageVars, reply, pairingCh, phase, stateVars, live, toCloud, cloudVars,
                 boundVars>>

\* Faulty: the name is taken and the claim is not.
ConfigNameOnly ==
  /\ phase = "loop" /\ Arrives("config")
  /\ tenant' = Head(toBridge).name
  /\ UNCHANGED <<pageVars, handlerVars, sessionVars, claimed, live, toCloud, cloudVars, boundVars>>

\* case "config": SetTenantName, then InvalidateClaimToken.
Config ==
  /\ phase = "loop" /\ Arrives("config")
  /\ tenant' = Head(toBridge).name
  /\ InvalidateClaimToken
  /\ UNCHANGED <<pageVars, handlerVars, sessionVars, live, toCloud, cloudVars, boundVars>>

\* case "verify_claim": a claimed bridge has no token that could match.
VerifyClaim ==
  /\ phase = "loop" /\ Arrives("verify_claim")
  /\ \E ok \in BOOLEAN :
       /\ ok => ~claimed
       /\ IF ok THEN InvalidateClaimToken ELSE UNCHANGED claimed
       /\ toCloud' = IF live
                     THEN Append(toCloud, [type |-> "verified", name |-> Head(toBridge).name, ok |-> ok])
                     ELSE toCloud
  /\ UNCHANGED <<pageVars, handlerVars, sessionVars, tenant, live, cloudVars, boundVars>>

\* case "unpaired": the session ends, and Run closes the connection.
Unpaired ==
  /\ phase = "loop" /\ Arrives("unpaired")
  /\ Unpair
  /\ phase' = "away" /\ pending' = None /\ live' = FALSE
  /\ UNCHANGED <<pageVars, handlerVars, pairingCh, toCloud, cloudVars, boundVars>>

-----------------------------------------------------------------------------
(* The cloud, the network and the end of the process.                      *)

Send(ms) == toBridge' = IF live THEN toBridge \o ms ELSE toBridge

ConfigFor(t) == [type |-> "config", name |-> t]

\* The cloud takes a code: it refuses it, or the bridge belongs to a tenant.
JudgeCode ==
  LET a == Head(toCloud).attempt IN
  /\ toCloud # <<>> /\ Head(toCloud).type = "submit"
  /\ toCloud' = Tail(toCloud)
  /\ \/ /\ verdict' = [verdict EXCEPT ![a] = "refused"]
        /\ Send(<<[type |-> "pairing_result", result |-> "refused"]>>)
        /\ UNCHANGED <<owner, owes>>
     \/ /\ owner = None
        /\ verdict' = [verdict EXCEPT ![a] = "ok"]
        /\ \E t \in Tenants :
             /\ owner' = t
             /\ owes'  = ~configFirst
             /\ Send((IF configFirst THEN <<ConfigFor(t)>> ELSE <<>>)
                       \o <<[type |-> "pairing_result", result |-> "ok"]>>)
  /\ UNCHANGED <<pageVars, handlerVars, sessionVars, stateVars, live, configFirst, boundVars>>

\* The answer to a verify_claim.
ClaimVerified ==
  LET m == Head(toCloud) IN
  /\ toCloud # <<>> /\ m.type = "verified"
  /\ toCloud' = Tail(toCloud)
  /\ IF m.ok /\ owner = None THEN owner' = m.name /\ owes' = TRUE
                             ELSE UNCHANGED <<owner, owes>>
  /\ UNCHANGED <<pageVars, handlerVars, sessionVars, stateVars, live, toBridge, verdict,
                 configFirst, boundVars>>

\* A config for a new claim, or after a connect, or for another reason.
SendConfig ==
  /\ live /\ owner # None
  /\ \/ owes /\ UNCHANGED configs
     \/ configs < MaxConfigs /\ configs' = configs + 1
  /\ owes' = FALSE
  /\ Send(<<ConfigFor(owner)>>)
  /\ UNCHANGED <<pageVars, handlerVars, sessionVars, stateVars, live, toCloud, owner,
                 verdict, configFirst, sessions, releases, restarts>>

SendVerifyClaim(t) ==
  /\ live /\ owner = None
  /\ configs < MaxConfigs /\ configs' = configs + 1
  /\ Send(<<[type |-> "verify_claim", name |-> t]>>)
  /\ UNCHANGED <<pageVars, handlerVars, sessionVars, stateVars, live, toCloud, cloudVars,
                 sessions, releases, restarts>>

\* The cloud releases the bridge, connected or not.
Release ==
  /\ owner # None /\ releases < MaxReleases
  /\ releases' = releases + 1
  /\ owner' = None /\ owes' = FALSE
  /\ Send(<<[type |-> "unpaired"]>>)
  /\ UNCHANGED <<pageVars, handlerVars, sessionVars, stateVars, live, toCloud, verdict,
                 configFirst, sessions, configs, restarts>>

\* The connection breaks.  What was under way to the bridge arrives in part.
Break ==
  /\ live
  /\ live' = FALSE
  /\ \E n \in 0 .. Len(toBridge) : toBridge' = SubSeq(toBridge, 1, n)
  /\ UNCHANGED <<pageVars, handlerVars, sessionVars, stateVars, toCloud, cloudVars, boundVars>>

\* The process ends and starts again; the pages stay open.
Restart ==
  /\ restarts < MaxRestarts
  /\ restarts' = restarts + 1
  /\ reply' = [a \in Attempts |-> IF reply[a] = "waiting" THEN "gone" ELSE reply[a]]
  /\ done'  = [a \in Attempts |-> None]
  /\ pairingCh' = <<>> /\ phase' = "away" /\ pending' = None
  /\ claimed' = FALSE /\ tenant' = None
  /\ live' = FALSE /\ toBridge' = <<>>
  /\ UNCHANGED <<pageVars, toCloud, cloudVars, sessions, releases, configs>>

HandlerNext == \E a \in Attempts : Answer(a) \/ TimeOut(a)
SessionNext ==
  \/ Welcome \/ SessionEnds \/ SubmitCode
  \/ PairingResult \/ Config \/ VerifyClaim \/ Unpaired
CloudNext ==
  \/ JudgeCode \/ ClaimVerified \/ SendConfig \/ Release
  \/ \E t \in Tenants : SendVerifyClaim(t)

Next ==
  \/ \E b \in Browsers : LoadStatus(b) \/ ShowReply(b)
  \/ \E b \in Browsers, a \in Attempts : PostPair(b, a)
  \/ HandlerNext
  \/ Connect
  \/ SessionNext
  \/ CloudNext
  \/ Break \/ Restart

\* The handlers' timers expire, pages take their answers, the session runs, and
\* the cloud answers what it has received and owes a new claim its config.
Fairness ==
  /\ \A b \in Browsers : WF_vars(ShowReply(b))
  /\ \A a \in Attempts : WF_vars(Answer(a) \/ TimeOut(a))
  /\ WF_vars(SessionNext)
  /\ WF_vars(JudgeCode \/ ClaimVerified) /\ WF_vars(owes /\ SendConfig)

Safety == Init /\ [][Next]_vars
Spec   == Safety /\ Fairness

-----------------------------------------------------------------------------
(* What pairing promises.                                                  *)

\* A send on Done never blocks the session goroutine: the channel of a request
\* that is still to be answered is empty.
SessionNeverBlocks ==
  \A a \in Attempts :
    a = pending \/ (\E i \in 1 .. Len(pairingCh) : pairingCh[i] = a) => done[a] = None

Told(a, result) == done[a] = result \/ reply[a] = result

\* No judgement of the cloud is told to more pages than it was made for codes,
\* although a pairing_result does not say which request it answers.
ResultsToldOnce ==
  \A result \in Judgement :
    Cardinality({a \in Attempts : Told(a, result)})
      <= Cardinality({a \in Attempts : verdict[a] = result})

\* A page is told the judgement of another code only if some other code was
\* judged and its page is not told: one request at a time is answered right.
MismatchExplained ==
  \A a \in Attempts, result \in Judgement :
    Told(a, result) /\ verdict[a] # result
      => \E c \in Attempts \ {a} :
           verdict[c] # None /\ \A r \in Judgement : ~Told(c, r)

\* Once nothing is under way between them, bridge and cloud agree whether the
\* bridge is claimed and by whom, whatever was lost with earlier connections.
StateAgrees ==
  phase = "loop" /\ live /\ toBridge = <<>> /\ toCloud = <<>> /\ ~owes
    => /\ claimed <=> owner # None
       /\ claimed => tenant = owner

\* If config precedes the pairing_result, a page that is told "ok" finds the
\* bridge claimed when it asks for the status, unless the claim was ended.
OkMeansClaimed ==
  \A b \in Browsers :
    /\ busy[b] # None /\ reply[busy[b]] = "ok"
    /\ configFirst /\ releases = 0 /\ restarts = 0
    => claimed

\* A page never waits for ever, with or without a session and a cloud.
PageAnswered == \A b \in Browsers : busy[b] # None ~> busy[b] = None

\* A claim made by the cloud reaches a bridge that stays connected.
ClaimArrives == owner # None /\ phase = "loop" ~> claimed \/ ~live \/ owner = None
=============================================================================
