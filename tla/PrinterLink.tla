----------------------------- MODULE PrinterLink -----------------------------
(***************************************************************************)
(* The TCP side of the bridge: SendBytes of internal/printer/tcp.go, as    *)
(* seen by the goroutines that call it and by the printers.                *)
(*                                                                         *)
(* A call validates the address, takes the mutex of the endpoint, dials,   *)
(* writes the document in chunks, sleeps interJobDelay if all went well,   *)
(* and gives the mutex back.  Each of these is a step of the caller, so    *)
(* steps of different callers interleave.  The printer is external: of it  *)
(* the model keeps the logo in each NV slot and the time its flash still   *)
(* needs after a complete "FS q" upload.                                   *)
(*                                                                         *)
(* Time is counted in ticks.  A timer that has run down to 0 has expired;  *)
(* its owner may run on at any later moment.  Dialling and writing take    *)
(* any time at all: Tick may happen before and after each of them.         *)
(***************************************************************************)
EXTENDS Naturals

CONSTANTS
  Printers,       \* the usable endpoints, the "host:port" keys of the lock map
  Unusable,       \* stands for every address SendBytes rejects
  Senders,        \* the goroutines that call SendBytes
  Free,           \* the owner of a mutex nobody holds
  Slots,          \* NV logo slots of a printer
  Hashes,         \* identities of logos
  NoHash,         \* no logo: an NV slot never written
  Garbled,        \* what a cut-off upload may leave in an NV slot
  Chunks,         \* writes per document
  InterJobTicks,  \* interJobDelay
  FlashTicks      \* the longest an NV flash needs after an upload

ASSUME LinkAssumption ==
  /\ Unusable \notin Printers
  /\ Free \notin Senders
  /\ NoHash \notin Hashes
  /\ Garbled \notin Hashes \cup {NoHash}
  /\ Chunks \in Nat \ {0}
  /\ InterJobTicks \in Nat
  /\ FlashTicks \in Nat

VARIABLES
  lock,     \* [Printers -> holder of the endpoint's mutex]
  pc,       \* [Senders -> where the call of SendBytes is]
  dest,     \* [Senders -> address argument of the call]
  doc,      \* [Senders -> document argument of the call]
  left,     \* [Senders -> chunks still to write]
  timer,    \* [Senders -> ticks left of the sleep after the document]
  nv,       \* [Printers -> [Slots -> logo held by the slot]]
  flash,    \* [Printers -> ticks of flash programming left]
  flashBy   \* [Printers -> what keeps the flash busy, if anything]

linkVars == <<lock, pc, dest, doc, left, timer, nv, flash, flashBy>>

Addrs == Printers \cup {Unusable}

\* A document is an ordinary receipt or an NV upload.  An upload is the
\* prelude of a receipt or the body of a logo_provision job.
Plain   == [by |-> "plain"]
Upload  == [by : {"prelude", "provision"}, slot : Slots, hash : Hashes]
Docs    == Upload \cup {Plain}
Logos   == Hashes \cup {NoHash, Garbled}
LinkPCs == {"idle", "lock", "dial", "write", "pause", "ok", "err"}

LinkTypeOK ==
  /\ lock    \in [Printers -> Senders \cup {Free}]
  /\ pc      \in [Senders -> LinkPCs]
  /\ dest    \in [Senders -> Addrs]
  /\ doc     \in [Senders -> Docs]
  /\ left    \in [Senders -> 0 .. Chunks]
  /\ timer   \in [Senders -> 0 .. InterJobTicks]
  /\ nv      \in [Printers -> [Slots -> Logos]]
  /\ flash   \in [Printers -> 0 .. FlashTicks]
  /\ flashBy \in [Printers -> {"none", "prelude", "provision", "earlier run"}]

\* The calls that hold the mutex of their endpoint.
Holding(s) == pc[s] \in {"dial", "write", "pause"}

LinkInit ==
  /\ lock    = [p \in Printers |-> Free]
  /\ pc      = [s \in Senders |-> "idle"]
  /\ dest    = [s \in Senders |-> Unusable]
  /\ doc     = [s \in Senders |-> Plain]
  /\ left    = [s \in Senders |-> 0]
  /\ timer   = [s \in Senders |-> 0]
  /\ nv      = [p \in Printers |-> [x \in Slots |-> NoHash]]
  /\ flash   = [p \in Printers |-> 0]
  /\ flashBy = [p \in Printers |-> "none"]

-----------------------------------------------------------------------------
(* SendBytes, step by step.                                                *)

\* The call: an unusable address is an error before any lock is touched.
SendBytes(s, a, d) ==
  /\ pc[s] = "idle"
  /\ pc'   = [pc EXCEPT ![s] = IF a \in Printers THEN "lock" ELSE "err"]
  /\ dest' = [dest EXCEPT ![s] = a]
  /\ doc'  = [doc EXCEPT ![s] = d]
  /\ UNCHANGED <<lock, left, timer, nv, flash, flashBy>>

\* Faulty: without m.Lock().
TakeLockMissing(s) ==
  /\ pc[s] = "lock"
  /\ lock' = [lock EXCEPT ![dest[s]] = s]
  /\ pc'   = [pc EXCEPT ![s] = "dial"]
  /\ UNCHANGED <<dest, doc, left, timer, nv, flash, flashBy>>

\* m.Lock()
TakeLock(s) ==
  /\ pc[s] = "lock"
  /\ lock[dest[s]] = Free
  /\ lock' = [lock EXCEPT ![dest[s]] = s]
  /\ pc'   = [pc EXCEPT ![s] = "dial"]
  /\ UNCHANGED <<dest, doc, left, timer, nv, flash, flashBy>>

\* The deferred m.Unlock() of every return after m.Lock().
Unlock(s) == lock' = [lock EXCEPT ![dest[s]] = Free]

DialOk(s) ==
  /\ pc[s] = "dial"
  /\ pc'   = [pc EXCEPT ![s] = "write"]
  /\ left' = [left EXCEPT ![s] = Chunks]
  /\ UNCHANGED <<lock, dest, doc, timer, nv, flash, flashBy>>

\* Faulty: the error return without m.Unlock().
DialFailLeaking(s) ==
  /\ pc[s] = "dial"
  /\ pc' = [pc EXCEPT ![s] = "err"]
  /\ UNCHANGED <<lock, dest, doc, left, timer, nv, flash, flashBy>>

DialFail(s) ==
  /\ pc[s] = "dial"
  /\ pc' = [pc EXCEPT ![s] = "err"]
  /\ Unlock(s)
  /\ UNCHANGED <<dest, doc, left, timer, nv, flash, flashBy>>

WriteChunk(s) ==
  /\ pc[s] = "write" /\ left[s] > 1
  /\ left' = [left EXCEPT ![s] = @ - 1]
  /\ UNCHANGED <<lock, pc, dest, doc, timer, nv, flash, flashBy>>

\* The printer has a whole document: an upload goes to its slot, and the
\* flash is busy for at most FlashTicks from now on.
Receive(p, d) ==
  IF d \in Upload
  THEN /\ nv'      = [nv EXCEPT ![p][d.slot] = d.hash]
       /\ flash'   = [flash EXCEPT ![p] = FlashTicks]
       /\ flashBy' = [flashBy EXCEPT ![p] = d.by]
  ELSE UNCHANGED <<nv, flash, flashBy>>

\* The last chunk; SendBytes then sleeps with the mutex held.
WriteLast(s) ==
  /\ pc[s] = "write" /\ left[s] = 1
  /\ left'  = [left EXCEPT ![s] = 0]
  /\ pc'    = [pc EXCEPT ![s] = "pause"]
  /\ timer' = [timer EXCEPT ![s] = InterJobTicks]
  /\ Receive(dest[s], doc[s])
  /\ UNCHANGED <<lock, dest, doc>>

\* What an upload that was cut off may have done to its slot.
CutOff(p, d) ==
  \/ UNCHANGED nv
  \/ d \in Upload /\ nv' = [nv EXCEPT ![p][d.slot] = Garbled]

WriteFail(s) ==
  /\ pc[s] = "write"
  /\ pc'   = [pc EXCEPT ![s] = "err"]
  /\ left' = [left EXCEPT ![s] = 0]
  /\ CutOff(dest[s], doc[s])
  /\ Unlock(s)
  /\ UNCHANGED <<dest, doc, timer, flash, flashBy>>

EndPause(s) ==
  /\ pc[s] = "pause" /\ timer[s] = 0
  /\ pc' = [pc EXCEPT ![s] = "ok"]
  /\ Unlock(s)
  /\ UNCHANGED <<dest, doc, left, timer, nv, flash, flashBy>>

\* The caller takes the result, nil or an error, and runs on.
Return(s, result) ==
  /\ pc[s] = result /\ result \in {"ok", "err"}
  /\ pc'   = [pc EXCEPT ![s] = "idle"]
  /\ dest' = [dest EXCEPT ![s] = Unusable]
  /\ doc'  = [doc EXCEPT ![s] = Plain]
  /\ UNCHANGED <<lock, left, timer, nv, flash, flashBy>>

-----------------------------------------------------------------------------
(* Time, and the end of the process.                                       *)

Down(n) == IF n > 0 THEN n - 1 ELSE 0

Elapse ==
  /\ timer' = [s \in Senders |-> Down(timer[s])]
  /\ flash' = [p \in Printers |-> Down(flash[p])]
  /\ flashBy' = [p \in Printers |-> IF flash[p] > 1 THEN flashBy[p] ELSE "none"]
  /\ UNCHANGED <<lock, pc, dest, doc, left, nv>>

TimersRun == (\E s \in Senders : timer[s] > 0) \/ (\E p \in Printers : flash[p] > 0)

\* The process ends and starts again: mutexes, calls and timers are gone, the
\* printers stay as they are.  A document under way is cut off.
Abort ==
  /\ lock'  = [p \in Printers |-> Free]
  /\ pc'    = [s \in Senders |-> "idle"]
  /\ dest'  = [s \in Senders |-> Unusable]
  /\ doc'   = [s \in Senders |-> Plain]
  /\ left'  = [s \in Senders |-> 0]
  /\ timer' = [s \in Senders |-> 0]
  /\ \E cut \in SUBSET {s \in Senders : pc[s] = "write" /\ doc[s] \in Upload} :
       nv' = [p \in Printers |-> [x \in Slots |->
                IF \E s \in cut : dest[s] = p /\ doc[s].slot = x
                THEN Garbled ELSE nv[p][x]]]
  /\ flashBy' = [p \in Printers |-> IF flash[p] > 0 THEN "earlier run" ELSE "none"]
  /\ UNCHANGED flash

LinkStep(s) ==
  \/ TakeLock(s)
  \/ DialOk(s) \/ DialFail(s)
  \/ WriteChunk(s) \/ WriteLast(s) \/ WriteFail(s)
  \/ EndPause(s)

LinkNext ==
  \/ \E s \in Senders, a \in Addrs, d \in Docs : SendBytes(s, a, d)
  \/ \E s \in Senders : LinkStep(s)
  \/ \E s \in Senders, result \in {"ok", "err"} : Return(s, result)
  \/ Elapse
  \/ Abort

\* A call that was made is carried through: connectTimeout and the write
\* deadline bound the network steps, and sync.Mutex starves no waiter.
LinkFairness ==
  /\ WF_linkVars(TimersRun /\ Elapse)
  /\ \A s \in Senders : WF_linkVars(LinkStep(s)) /\ SF_linkVars(TakeLock(s))

LinkSafety == LinkInit /\ [][LinkNext]_linkVars
LinkSpec   == LinkSafety /\ LinkFairness

-----------------------------------------------------------------------------
(* What the link promises.                                                 *)

\* Per-endpoint serialization: from dial to the end of the sleep no other
\* call uses the same endpoint, so documents never interleave on a printer.
Exclusive ==
  \A s, t \in Senders :
    s # t /\ Holding(s) /\ Holding(t) => dest[s] # dest[t]

\* A mutex is held by nobody but a call under way: every return of SendBytes
\* gives it back, the error returns included.
NoLeakedLock ==
  \A p \in Printers : \A s \in Senders :
    lock[p] = s => Holding(s) /\ dest[s] = p

=============================================================================
