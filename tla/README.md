# Verification of orderpy-bridge

The bridge is a Go daemon in a restaurant's network. It connects the thermal
printers there (raw TCP, ESC/POS) with the OrderPy cloud (one websocket), serves
a small HTTP API to tills in the LAN, and a pairing page over HTTPS. This
directory holds TLA+ models of its concurrent parts, TLC configurations that
check them on small instances, and TLAPS proofs of what matters most for every
instance. Paths below are relative to the repository.

    tlc -workers 2 -config CloudSession_all.cfg MCCloudSession     # one run
    tlapm PrinterLinkProofs.tla                                    # one proof module

`PROJECT.json` lists the components, runs, theorems, hazards and findings, the
source lines every definition stands for (`map`), and for each property a mutant
of the code's model that breaks it (`mutants`).

## 1. Inventory

### Goroutines and processes

| who | where | state it keeps | talks to |
|---|---|---|---|
| session goroutine, one per websocket session | `cloud/client.go` `session` | `pendingPairingDone`, the printer list, tickers | cloud, spooler queue, printers, claim state, updater files |
| reader goroutine, one per session | `cloud/client.go:126` | nothing; feeds `recvLoop` (16) and `errCh` (1) | session goroutine |
| printer health, one per session | `cloud/health.go` | last probe per printer | printers, cloud |
| spooler | `spooler/spooler.go` | channel of jobs (1024), `logoCache`, job in `handle` | printers, cloud (SendAck) |
| handlers of the LAN API | `local/http.go` | none | spooler queue, claim state |
| handlers of the pairing server | `pairing/serve.go` | none; a channel `Done` per request | `pairingCh` (4), claim state |
| pairing page | HTML in `pairing/serve.go` | view, `pending` | pairing server |
| updater script (root) | `deploy/updater/orderpy-bridge-updater.sh` | `/opt/orderpy-bridge`, its `.old` | systemd, files |
| systemd | `deploy/systemd/*` | unit states, runtime directory | bridge, script |

Shared state: one mutex per printer endpoint (`printer/tcp.go`), the claim state
with its own mutex (`state/state.go`), the websocket with a write mutex
(`cloud/writeconn.go`), and the files `update-requested.json` and
`update-result.json` that bridge and script exchange.

### Components

**Printer link** (`printer/tcp.go`). *State*: the map of endpoint mutexes.
*Operations*: `SendBytes` (validate, lock, dial, write in chunks, sleep
`interJobDelay`, unlock), `Reachable`. *Callers*: spooler and session goroutine.
*Hard*: concurrent callers; errors in the middle of a document; a printer that
is still programming its flash after an upload. *Correct if* documents never
interleave on a printer, every return gives the mutex back, every call returns.

**Spooler** (`spooler/spooler.go`). *State*: channel, logo cache, the job in
`handle`. *Operations*: `Enqueue` (blocks when full), `handle` (render, logo
prelude, settle wait, body, cache, ack). *Hard*: blocking producers, partial
failure between upload and receipt, a cache of state that lives in the printer,
loss at a restart. *Correct if* jobs are served in order, once, with one
truthful verdict; a cached logo that has gone stale is explained; the flash is respected.

**Cloud session** (`cloud/client.go`, `writeconn.go`). *State*: see above.
*Operations*: `Run` (reconnect with backoff), handshake, the `select` of
`session` over `recvLoop`, `pairingCh`, `errCh` and tickers, one case per
message; `WriteMessage` under its mutex. *Hard*: the same goroutine reads
messages, prints, blocks in `Enqueue` and in writes that have no deadline;
writers of an old session live on beside the new one. *Correct if* messages
are handled in order, frames stay whole, a lost connection is noticed whatever
the goroutine was waiting for, and bridge and cloud agree on the claim.

**Printer health** (`cloud/health.go`). *State*: a ticker per session, whose context is
the process. *Operations*: probe the printers of the session's list, write a
report. *Hard*: it is never stopped. *Correct if* it does not harm other writers.

**Claim state** (`state/state.go`). *State*: claimed, tenant name, claim token,
bridge id, failure counter, lock. *Operations*: set and clear the claim, check
and generate the token, record failures, each one critical section; callers
use several in a row. *Hard*: sections of `/setup/info` between those of a message,
expiry of the lock. *Correct if* a claimed bridge has no usable token, a token
claims once, and a lock is earned.

**Pairing server and page** (`pairing/serve.go`, `types.go`). *State*: per request a
`Done` channel of capacity 1 and a 15 s timer; in the page, what it shows.
*Operations*: `GET /api/status`, `POST /api/pair`. *Hard*: results that name no
request, timeouts racing answers, requests left in `pairingCh` while there is no
session. *Correct if* a page always gets an answer, the right one, and what it
then shows agrees with the claim.

**Local HTTP API** (`local/http.go`). `POST /print` enqueues a job without ack;
`/setup/info` hands out the claim token; `/health` reads. Correct if a print
request becomes exactly one job.

**Updater** (`updater/trigger.go`, the script, the systemd units). *State*: trigger
and result files, two directories, the two units and their files. *Operations*:
`HandleUpdateAction`, `CheckWatchdog`, `ConsumePendingUpdateResult`, the script
line by line. *Hard*: three programs and systemd on the same files, kills and
power failures between any two steps. *Correct if* a version that works is never
lost, a failed update restores what it found, reports are true, a request is answered, and the
bridge runs in the end.

**Key store** (`keys/keys.go`). *State*: the files of the private and the public key. *Operations*: read,
or generate and write both. *Hard*: a crash or a full disk between or inside the two
writes; a key that exists and cannot be read. *Correct if* the cloud sees one identity, and its private key is there.

**Receipt layout** (`escpos/render.go`). *State*: none of its own, but the printer's modes
outlive a document. *Operations*: `Render` and what it calls. *Hard*: cut-off documents;
bytes, runes and columns. *Correct if* every line has the look it is meant to have, and columns
stand under each other.

**Configuration** (`config/config.go`): texts and two numbers of the environment, whose
digits are accumulated without a bound. **Wire types** (`wire/v3.go`): data.
**Process start and packaging** (`cmd/bridge/main.go`, installer): run once, alone.

The hazards of all of these are listed at their lines in `PROJECT.json`; a
hazard that no property covers, or only under an assumption, carries a note.

## 2. Modules

    PrinterLink  <---EXTENDS---  PrintSpool  ---INSTANCE--->  SpoolPromise
        ^                            ^
    PrinterLinkProofs  <---------  PrintSpoolProofs

    CloudSession  ---INSTANCE--->  MessageFeed        EscposLayout, EnvNumbers
        ^                                                ^             ^
    CloudSessionProofs                               MCFormats    FormatsProofs

    Pairing       ClaimToken       BridgeKeys       Updater
        ^             ^                ^               ^
    PairingProofs ClaimTokenProofs BridgeKeysProofs UpdaterProofs

`MC<module>` gives a module its instances for TLC; BridgeKeys needs none. A
definition whose comment begins with "Faulty" is no part of the model: it is
what a mutant puts in the place of the definition below it.

### PrinterLink: `printer/tcp.go`

`SendBytes` in its steps, for any set of callers. `lock` is the map of mutexes,
`pc`, `dest`, `doc`, `left`, `timer` are the call of each caller: `SendBytes`
(the call with its address check), `TakeLock`, `DialOk`/`DialFail`, `WriteChunk`,
`WriteLast`, `WriteFail`, `EndPause`, `Return`. `nv`, `flash` and `flashBy` are the
printer (external): which logo each NV slot holds, how long its flash is still
busy and with what. `Elapse` advances all timers by one tick; `Abort` is the end
of the process.

Abstractions. A document is a receipt or an upload, written in `Chunks` chunks; what
TCP has accepted counts as having reached the printer, since the code knows no
more. A document of no bytes, and `chunkDelay` between chunks, are left out: any
time may pass between two chunks anyway. A cut-off upload leaves the slot as it
was or `Garbled`.

### PrintSpool: `spooler/spooler.go` and the printing cases of `cloud/client.go`, `local/http.go`

Extends PrinterLink with two callers, `Spooler` and `Session`. `Take...`,
`Upload...`, `SettleOver`, `Body...` are `handle` between its calls of `SendBytes`,
each with everything the code does there (cache update, verdict, `SendAck`).
`ReceivePrintJob` and `PostPrint` hand jobs in; `Enqueue` is the send on the
channel, on which the session goroutine blocks (`act = "enqueue"`). `ReceiveDirect`,
`DirectSend` and `DirectReturn` are `print_order`, `print_service_call` and
`print_test`, which the session goroutine prints itself. `Connect`, `Break`, `SessionEnds`
are the websocket, `Restart` the end of the process. `paper` and `heard` are
what the printer and the cloud have seen of each job.

Abstractions. A message is a record of what the code branches on: address,
whether it renders, logo reference, whether its image is usable, and the logo a
`logo_provision` body loads. The bytes of messages the session prints itself come ready
from the cloud and are taken to be receipts, never uploads. An endpoint and a printer are the same
thing: two names for one printer would have two mutexes and two cache entries. `SendAck` is one step: that it may block on a full
socket is CloudSession's subject. A POST /print is accepted at any time. `DiscardPrintJob` is a
`print_job` with a field of another type: `handleMessage` returns without a job and without an ack,
and the verdict `discarded` is what the models keep of it.

The printer of the model obeys what it is sent during a flash as at any other time. The comment of the code
(`spooler.go:20`) warns that it might not; `LogoOnReceipt` and `StaleEntryExplained` hold of printers that do.

### SpoolPromise

What the above looks like to those who hand in jobs: a FIFO server with one
truthful verdict per job, which a restart robs of its pending jobs only. A job that is
not understood never becomes pending.
`PrintSpool!Promise` maps `pending` to the job in hand followed by the channel;
`ImplementsPromise` is checked by the run `spool_queue`.

### CloudSession: `cloud/client.go`, `writeconn.go`, `health.go`

The goroutines around one websocket after another. Sessions are numbered, and
what belongs to one (socket, reader, `recvLoop`, `errCh`, printer list, mutex of
the `writeConn`) is a function of that number, because the code leaves readers, probers
and jobs of old sessions behind. `Dial`, `HelloAnswered`, `HelloFails` are `Run` and the handshake;
`ReadMessage`, `PassOn`, `ReadError` the reader goroutine; `TakeErr`, `Announce` (a pairing code
or an update's result is sent) and `TakeMessage` the `select`, the last with
one disjunct per kind of message (a `print_job` that is not understood goes no further); `Probe` is printer health; `TakeMutex` and `Write` are
`WriteMessage`, called by the session goroutine (`Loop`), the spooler and the probers.
`CloudSends`, `CloudReads` and `Break` are the cloud and TCP (external).

Abstractions. A message is its type and, for printer lists, the ids. A job is the session
that brought it: how it is printed is PrintSpool's, and a print of the session itself takes time
and nothing else here. A write to a broken connection fails at
once; one to a full socket waits. What `Close` finds in the socket, and what
a break cuts off, is a suffix of any length. The end of the process is left
out, for it ends all of this. `MessageFeed` is what is left when reader, channel and socket are
looked at as one backlog per session: handled in order, lost as a suffix, never handed to another session.

### ClaimToken: `state/state.go`, `/setup/info` of `local/http.go`, the claim cases of `cloud/client.go`

One action per critical section. `Welcome`/`WelcomeStatus`, `VerifyClaim`/`VerifyRight`/`VerifyWrong`,
`Config`/`ConfigClaims` are messages that take two sections; `AskLocked`, `AskBridgeID`, `AskToken` the
three of a request, of which any number run at the same time. `Tick` is a unit of the lock's
time: `lockLeft` counts down to 0, the instant of `lockUntil` at which the code takes the lock neither for
closed nor for over, and to -1. Tokens are numbered as they are
generated. The cloud is free to send anything in any order, and every token that was given away, or another
one (0). `fresh`, `handed`, `ended`, `verified`, `failures`, `recent`, `asked` are history for the properties.
In Pairing the same claim is seen from further away, with the messages that carry it.

### BridgeKeys: `keys/keys.go`, the start of `Run`

`ReadPub`, `Generate`, and `Open`/`Write` for each file, since `os.WriteFile` truncates first. A public key is used
if it could be read and is not empty; any error of reading it, not only a missing file, leads to a new pair that is written over the
old one, and `misread` records the keys for which this happened. Every open and write may fail, which makes `LoadOrGeneratePublicKeyPEM` return an error and `Run` return for good (`keyless`): the
process then lives on without a session. `Crash` may come between any two steps;
`PowerFailure` also damages files that the kernel has not written back. A missing and an empty file are
the same to the code, a truncated public key is used as it is.

### EscposLayout: `escpos/render.go`; EnvNumbers: `config/config.go`

`Render` gives a sequence of commands and lines, by kind of message; the printer obeys them
one by one, keeps its modes from document to document, and may lose the rest of any document. `Cell`, `Cut`, `Pad`
and `Encode858` are the functions of the code on texts whose characters stand for how many bytes they take and whether code
page 858 has them. A body that comes ready in base64 (`Foreign`) may set any mode.

EnvNumbers is arithmetic in the width of `int` and `time.Duration`, whose largest values are constants. `env` is the raw
value of a variable: any of `Raws`, and the same for the life of the process, so its specification has no step. MCFormats
puts both modules over all short inputs. What the code computes in loops over characters and digits is written as recursive functions
on `0 .. Len(s)`, which can be reasoned about.

### Updater: `updater/trigger.go`, the script, the systemd units

`RequestUpdate` is `HandleUpdateAction`; `Tick` the session's 30 s ticker
(`CheckWatchdog`, then `ConsumePendingUpdateResult`), which exists in a session only: `online` is a bridge
that is connected and serves its `select`, `Connect` and `Disconnect` change it freely; `Begin` ... `CloseResult` the
script, one action per command that changes a file, a directory or a service;
`Kill` is `TimeoutStartSec=`, `PowerFailure` what it says, `AutoRestart` systemd's
`Restart=on-failure`, and `RemoveRuntime` its `RuntimeDirectory=`, which deletes
the shared directory whenever the bridge stops. Writing the result is two
steps, because the file is created empty and filled at its close. `install` and
`old` are directories that hold a version, nothing, or `Partial`; `units` is the version whose unit files lie
in `/etc/systemd/system` (`Partial` if the loop that installs them was cut off). `before` and `unitsThen` are what the
script found, `dropped` are the requests the
watchdog removed before the script had copied them, and those whose result was read before it was filled: history for the properties.

A *fault* is a failure the programs cannot prevent (a command that fails, a kill, a lost
report...). A run names the kinds and how many may happen, each kind once, and
properties say which faults they tolerate. Downloads and checks fail freely,
without being counted. `HandleUpdateAction` and the watchdog are single steps.
Commands under `set -e` that can hardly fail on their own (`mkdir`, `mktemp`)
are covered by `Kill`, which ends the script at the same place.

### Pairing: `pairing/serve.go`, `cloud/client.go` (handshake, codes, claim), `state/state.go`

Pages (`view`, `busy`), handlers (`reply`, `done`), the session goroutine (`pairingCh`,
`phase`, `pending`), the claim (`claimed`, `tenant`) and the cloud (`owner`, `verdict`,
`owes`; external). Every `select` case that touches the claim is an action: `Welcome`,
`SubmitCode`, `PairingResult`, `Config`, `VerifyClaim`, `Unpaired`. `TimeOut` races
`Answer`; `Break` cuts off any suffix of what is under way. Whether the cloud
sends `config` before or after `pairing_result` cannot be seen from this
repository: it is a free choice at `Init`, and a property that needs one order
names it. Claim tokens are ClaimToken's, except that a claimed bridge verifies none.

## 3. Runs

Runs of invariants alone use the specification without fairness; the four that
also check liveness (`spool_liveness`, `updater_faults`, `pairing_liveness`, `session`) use
`Spec` with it. `CHECK_DEADLOCK FALSE` is set where a bounded instance ends, when its
jobs, requests, tokens and sessions are used up.

| run | question | answer |
|---|---|---|
| `spool_logo` | two jobs of every kind, two logos, one slot, a direct print, a restart | documents do not interleave (`Exclusive`) and printers are touched by `SendBytes` alone (`ImplementsLink`); of a flash the spooler meets at most what is left after its waits (`FlashBounded`); a receipt that brought its logo meets it in the slot (`LogoOnReceipt`); if a cache entry goes stale, it is for one of two reasons (`StaleEntryExplained`) |
| `spool_queue` | three jobs, channel of one, two sessions, a restart | no job is lost, doubled or overtaken (`JobsConserved`, `ImplementsPromise`), acks tell the truth (`AckTruthful`) |
| `spool_liveness` | two jobs with logo, two sessions, a direct print, fairness | every job is settled, and answered while its session lasts, unless it was discarded unread |
| `session` | two sessions, a print queue, probers, an order and a job of an old session, full channels and sockets | frames stay whole whoever writes; messages are handled in order (`ImplementsFeed`); a lost connection is noticed and its reader ends, but for one case (`WindsUp`); nobody waits for ever for mutex, socket or queue (`NobodyStuck`) |
| `claim` | two requests beside every message of the session, three tokens, two locks in a row, restarts | see below |
| `keys` | three key pairs, every error, every crash, two power failures | one identity and a complete pair, unless a power failure damages a file or a public key cannot be read |
| `updater_faults` | two requests, any two faults | see below |
| `pairing_safety` | three requests, two pages, two sessions, two tenants, a release | telling a result never blocks the session; no judgement is told twice; a page told the wrong one has a counterpart that was not told; bridge and cloud agree once nothing is under way; "ok" means claimed if `config` comes first |
| `pairing_liveness` | verify_claim, unasked configs, a restart, fairness | pages are answered, claims arrive |
| `formats` | every kind of receipt after every mode and after every cut; every short text; every number | lines look as laid out, columns stand, numbers in range are used as meant |

`claim`: a claimed bridge has no token (`Coherent`); no token claims twice (`VerifiesOnce`); a token that a till was
given is refused only if a claim, an unpairing, a handshake with `UNCLAIMED` or a restart has ended it, never because
another till asked (`RefusalExplained`); a lock takes `failThreshold` failures since the last one, unless
`/setup/info` was not called in between: only that call forgets the old ones (`LockEarned`).

`session`, `WindsUp`: the one case is a reader whose session returned while `recvLoop` was full. It
waits there for ever, with its connection: one goroutine leaked. The state is reachable, and the property says
that there is no other.

`formats`: a row misses a column for each cell that was cut after two bytes of a character of three, and is
empty if it holds a character that the code page lacks; `ColumnsRight` says exactly this. `EnvironmentRight` holds
for numbers in the range of their types: larger ones overflow, and a negative health interval panics in `NewTicker`.

`updater_faults`: after a failure with a single cause the version found is back before the result is written, and
so are the unit files, unless what failed was the start of the new version (`FailureRestores`); a complete version
exists at every moment under one name or the other (`CopyKept`); "success" is reported only for a version that is
installed or runs (`SuccessTruthful`); no version is reported both ways, and one that was dropped is never reported by its
name (`OneVerdict`); a request that gets no answer was hit by a fault that takes the script, the
directory or the report away, was given up by the watchdog, had its result read too early, or was not the only one
(`SilenceExplained`); the bridge comes back unless one of the faults of `LeavesBridgeDown` happened
(`BridgeComesBack`); while the bridge stays in a session, a request is taken or timed out (`TriggerCleared`).

Two runs are meant to fail: they check what a comment or document says.

| run | says | does |
|---|---|---|
| `flash_direct` | sending while the flash is programmed "might cause incorrect operation" (`spooler.go:20`) | the spooler waits without the endpoint's mutex, so the session prints into it |
| `updater_backup` | the script "startet `orderpy-bridge` neu, schreibt `update-result.json`" (README:103) | after a failed backup `write_result` fails first, in the directory systemd removed, and `set -e` skips the restart |

More disagreements were seen while modelling and have no run of their own:

- `nvFlashSettleDelay` is called the wait "between an FS q upload and the next print" (`spooler.go:17`), but the upload of
  a `logo_provision` job is a body (`spooler.go:103`), and 0.4 s later comes the next
  job. `FlashBounded` subtracts `interJobDelay` only from the flash of a provision.
- The cache is said to hold the "last loaded logo_hash" (`spooler.go:37`), but an upload whose receipt fails
  changes the slot and not the cache; `StaleEntryExplained` names this case.
- "cloud sends exactly one Result" on `Done` (`types.go:12`), but a second code replaces the first one's `Done`, which
  then gets none; `ResultsToldOnce` claims at most one.
- The swap of directories is two `mv` and a copy, so not "atomar" (README:103), and a
  script that is killed leaves no result, so not every update is reported (README:104).
- `nvFlashSettleDelay` + `interJobDelay` = 4.4 s is less than the "4-5 seconds" of the comment (`spooler.go:20`). By `FlashBounded`
  a receipt after its prelude meets what is left: nothing of a flash of 4 s, up to 0.6 s of one of 5 s. The run has a flash that
  outlasts both waits by one tick, and the receipt does begin in that tick.
- A `print_job` that does not unmarshal (`client.go:317`) is dropped without a `print_ack`, so the cloud is not told of every job.
- After a failed start the script puts the directory back and not the unit files it installed before (lines 174-185): the old
  version then has the unit files of the new one. `FailureRestores` has this as its exception.
- Any error of reading the public key is taken for "no key yet" (`keys.go:32`): the bridge gets a new identity, and its private key is
  overwritten. If the new public key cannot be written either, the next start shows the old one, without its private key.
- The watchdog ticks in a session only (`client.go:141`), so that with the cloud away a request may lie for ever.
- Between `cp` and `rm -f` of the script (lines 70-71) the watchdog may give up a request that is carried out all the same: the cloud
  hears of a failure, without a version, and of a success. A second request that arrives there is deleted unread.

### Bounds and why they are enough

*Printing.* Two callers are what the code has, and one printer suffices, because the only state per printer is
its mutex, flash, slots and cache entries, and a job touches one of them (mutual exclusion for
any number of printers is proved, not checked). Two
logos for one slot let an entry go stale and be replaced; a third adds
nothing to compare it with. Three jobs and a channel of one have one job
in `handle`, one in the channel and one blocked. Two sessions let an ack come
late. Delays are a few ticks and keep the order of the real ones (in
`spool_logo`: pause 1, settle 1, flash 3, longer than both together as in the code; in `flash_direct`, in units of 0.2 s, pause 2, settle 20, flash 25). Chunks = 2
allows a cut in the middle.

*Session.* Two sessions: old readers, probers and jobs meet a new connection; a third would only add another that
is as old. `recvLoop`, queue and sockets have one place each, so that each fills up while the one behind it waits; with three
messages one is in the channel, one with the reader, one in the socket. 96 552 states, about three minutes.

*Claim.* Two requests, so that one falls between the sections of the other; three tokens; a threshold of two and five failures give two locks and one more failure. 614 541 states.

*Keys.* Three pairs and two power failures: a damaged pair replaces a good one and is replaced in turn; reading may fail at every start. 46 050 states.

*Updater.* Two requests let one arrive while the script works on the other; two faults of all kinds include a
fault in the handling of a fault. 303 581 states.

*Pairing.* Three attempts from two pages give a request in the channel, one pending and one answered.

*Formats.* Columns of two to five places and texts of up to four characters of every byte length, so that a text is cut at each
place inside a character; all modes at the start; ints of nine bits, which four digits overflow. 37 196 states.

`MaxSessions`, `MaxRestarts`, `MaxDirect`, `MaxTargets`, `MaxFaults`, `MaxReleases`, `MaxConfigs`, `MaxMessages`,
`MaxTokens`, `MaxFailures`, `MaxKeys`, `MaxPower`, `MaxDocs` are the bounds of the models; the
capacities (`QueueCap`, `ChCap`, `LoopCap`) are parameters of the code given small values, `SocketCap` is one of the network.

`SYMMETRY` is used in safety runs only, over jobs and logos, over pages, attempts and tenants, and over requests.

### Fairness

- `SendBytes` goes on: `connectTimeout` and the write deadline bound the network steps
  (`tcp.go`), the sleep ends. Acquiring the mutex is strongly fair, since
  Go's `sync.Mutex` hands a starving waiter the lock.
- `Enqueue(j)` is strongly fair: blocked senders on a Go channel are served first in, first out.
- The spooler, the session goroutine and the handlers are scheduled (weak fairness); a
  handler's timer fires; a page receives its answer.
- The script runs on, the ticker ticks as long as there is a session, systemd restarts what failed,
  fifteen minutes pass. That the bridge ever connects is not assumed.
- A `select` takes one of its ready cases at random, so a case that is ready again and again is taken: `TakeErr` and
  `TakeMessage` are strongly fair. So is `TakeMutex`, for the reason above.
- In `session` the cloud answers the handshake or the connection breaks, and it reads what it is sent. Neither is
  bounded by a timer of the code: `client.go` sets no deadline. If the cloud does not read, spooler and session wait
  for it until TCP gives up.
- In `pairing_liveness` the cloud judges what it receives and sends a new
  claim its config: `ClaimArrives` is about a cloud that does so; `PageAnswered` does not need it.
- Nothing else is assumed of connections, printers, faults, messages or the operator.

## 4. Proofs

Checked by TLAPS for every value of the constants: any number of printers, jobs, logos, sessions, requests, pages,
versions and faults, all capacities, delays and thresholds, all texts and widths. The only assumptions are the named `ASSUME`s of the
modules (constants are disjoint, sizes are naturals), which TLC evaluates on every run, and the hypothesis that the table names for `ResultsOnce`.
Every safety property of a passing run is a theorem.

| module | theorem | property | inductive invariant, and why it is needed |
|---|---|---|---|
| `PrinterLinkProofs` | `LinkTypeCorrect`, `SendsExclusive`, `LocksReturned` | types, `Exclusive`, no mutex left behind | `LockInv`: a call holds the lock of its `dest` exactly in the `pc`s from dial to pause. `Exclusive` alone does not say who owns the mutex |
| `PrintSpoolProofs` | `SpoolTypeCorrect` | types | together with `HandedIn`: jobs in the channel, blocked or in `handle` have a message |
| | `SpoolUsesLink`, `SpoolSerializes` | `ImplementsLink`; the theorems of the link for the spooler | every step of PrintSpool is one of PrinterLink or leaves it alone |
| | `FlashesBounded` | `FlashBounded` | `SettleInv`: while an upload is followed by its waits, what is left of its flash and what is left of the waits shrink together; `Exclusive` keeps others away before the pause is over |
| | `JobsNeverLost` | `JobsConserved` | `Placed`: it is inductive once a job without a message has no verdict |
| | `AcksTruthful` | `AckTruthful` | `PaperInv`: what is true of a verdict was true of the paper before there was one, for each place of the job in hand |
| | `PromiseKept` | `ImplementsPromise` | both of these: each kind of step is a step of SpoolPromise, or none |
| | `LogoPrinted`, `StaleEntries` | `LogoOnReceipt`, `StaleEntryExplained` | `CacheInv`: what the slot of the job in hand holds from its upload to its body; an entry is stale because that job is changing the slot, or for one of the two reasons |
| `CloudSessionProofs` | `SessionTypeCorrect` | types | `FeedInv` and `RoomInv`: nothing holds more than its capacity, and the reader has one message at a time |
| | `FramesStayWhole` | `FramesWhole` | `WriteInv`: a goroutine is in a write exactly when its state says so, so the connection of the write does not change under it, and it holds that one's mutex |
| | `FeedInOrder` | `ImplementsFeed` | `FeedInv`: a session that has ended is closed, and nothing is in socket, reader or channel of one to come, so that a new backlog starts empty |
| `ClaimTokenProofs` | `ClaimTypeCorrect`, `ClaimCoherent`, `TokenClaimsOnce`, `RefusalsExplained` | types, `Coherent`, `VerifiesOnce`, `RefusalExplained` | `TokensKept`: a token that ended is never the token again, and one that was given away is the token or has ended |
| | `LocksEarned` | `LockEarned` | `FailuresKept`: once asked, the counter is at most the failures since the last lock |
| `BridgeKeysProofs` | `KeysTypeCorrect`, `OneIdentity`, `PairsComplete` | types, `IdentityKept`, `PairOnDisk` | `KeysKept`: while a pair is written there is no public key, or one that could not be read, and the private one is written first |
| `PairingProofs` | `PairingTypeCorrect`, `ResultsNeverBlock` | types, `SessionNeverBlocks` | `DoneInv`: a request is in `pairingCh` once, or with the session, or neither, and until it is answered its `Done` is empty |
| | `MismatchesExplained` | `MismatchExplained` | `CodesInv`: a code is with the page, on its way or judged, once; `LostInv`: some code was judged and given up, or everything told and under way is right |
| | `ResultsOnce` | `ResultsToldOnce`, for finitely many attempts | `CountInv`: judgements told and under way are no more than those made |
| | `OkIsClaimed` | `OkMeansClaimed` | `OkInv`: an "ok" under way has its `config` in front of it, or the bridge is claimed; `WireInv`: nothing precedes the handshake |
| | `BridgeAgrees` | `StateAgrees` | `StateInv`: a claim that one side does not know of is still on its way to it, behind anything that says otherwise |
| `UpdaterProofs` | `UpdaterTypeCorrect`, `CopyIsKept`, `FailuresRestored` | types (in no run), `CopyKept`, `FailureRestores` | `SwapInv`: as long as one fault at most has happened, where the script is determines which directory holds the version found; a bridge without a version is down, so that no later script removes `.old`. `UnitsInv`: the unit files are those found until the loop that installs them |
| | `VerdictsAgree` | `OneVerdict` | `VerdictInv`: a request is in one place: not made, in the trigger, with the script, in the result file, or answered; one that was dropped is in none of them. It holds for any number of faults |
| | `SilenceIsExplained` | `SilenceExplained` | `LoudInv`: short of those faults a script that gets to its report finds a running bridge, hence the runtime directory; `VerdictInv` says where the request is meanwhile |
| | `SuccessIsTrue` | `SuccessTruthful` | `DownInv`, `PlaceInv`, `SmoothInv`, `TrueInv`: as long as a success lies in the result file unread, its version is installed or runs, and a next update moves it away only while it runs |
| `FormatsProofs` | `LinesAsLaidOut`, `ColumnsStand` | `PrintedAsLaidOut`, `ColumnsRight` | `LayoutInv`: what is left of a document is laid out from the printer's modes on (`Laid`: there are modes for each place, from which each element leads to the next) |
| | `EnvironmentHandled` | `EnvironmentRight` | the value never changes; the lemma `NumbersRight` holds of each |

*Lines of argument.* `PrintSpoolProofs` splits the steps of PrintSpool once into what they do to jobs (`StepMovesJobs`: a job arrives,
enters, begins, changes its stage, is concluded...), and every invariant about jobs is proved along these moves and not along the
actions. `PairingProofs` does the same for the messages on the wire (appended, taken from the front, cut off at the end).
For the layout each kind of document is composed from pieces (`LaidBoth`), of which `Begin` alone is laid out from
any modes; that is why it does not matter what the printer went through before.

*Induction.* TLAPS cannot instantiate the induction theorems of its library, whose parameter is an operator. `FormatsProofs`
has a principle of its own with a set of numbers in its place (`InductTo`, from the least element of a set of naturals),
and from it that a recursive function on `0 .. n` exists and has the values its definition says (`RunExists`). With that, sums
of bytes, joined fields, broken bytes and accumulated digits are treated for texts of every length.

*Trust.* The SMT encoding of TLAPS 1.4.5 takes it that everything with a `Len` has the domain `1 .. Len`, which is true
of sequences only. All proofs were therefore checked a second time with this axiom restricted to values that have such a domain,
and none depends on more.

Only model-checked: all liveness (`EveryJobSettled`, `EveryJobAnswered`, `WindsUp`, `NobodyStuck`, `PageAnswered`,
`ClaimArrives`, `BridgeComesBack`, `TriggerCleared`), since TLAPS proves neither `ENABLED` nor liveness from fairness. The two runs that are
meant to fail have no theorem, of course.

What models and proofs rest on, beside the constants: a printer
drops a command that is cut off with its connection; Go's mutexes, channels and `select` do as documented; `rename` is
atomic and commands of the script succeed or are one of the faults.

## 5. Plan

Modelled first is what the bridge is for (printing), then what can brick it (updates), what
a user meets first (pairing), and what carries them all (session, claim, keys, layout). Every safety property is proved. Still to come:

1. A composition of CloudSession with PrintSpool and Pairing for the one goroutine that serves all of them, with a
   cloud that does not read.
2. Abstract specifications of the updater (a version that is replaced or kept) and of the claim (what bridge and cloud
   agree on), with the detailed ones shown to implement them.

## 6. Not modelled

- The page polls `/api/status` for the tenant's name after a success; its markup and keyboard handling change nothing. Certificates
  and TLS set-up of the pairing server, Host and Origin checks decide who is served.
- Texts of dates, numbers and order ids on a receipt (`formatCreated`, `anyString`), wording, logging.
- Functions without a caller: `RotateClaimToken` and `SetUpdateStatus`. Since nobody sets it, `/health` reports the update status
  as idle always.
- The texts of the configuration (URLs, ports, paths), which nothing in the models depends on.
- `main`, which starts the goroutines and does no more; the installer and the container's entry point run once, alone.
- Two names or addresses of one printer, which the bridge cannot tell from two printers.
