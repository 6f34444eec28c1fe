----------------------------- MODULE BridgeKeys -----------------------------
(***************************************************************************)
(* The identity of the bridge: LoadOrGeneratePublicKeyPEM of internal/keys *)
(* and its use at the start of cloud.Run.  The cloud knows a bridge by the *)
(* public key in the handshake; the code itself never reads the private    *)
(* key.  Each key is written to its file by os.WriteFile, which truncates, *)
(* writes and closes, and calls no fsync.                                  *)
(*                                                                         *)
(* What can go wrong: the process is killed between any two steps, a file  *)
(* cannot be read or opened or the disk is full, and power failures, which *)
(* may empty or truncate a file that the kernel has not written back yet.  *)
(* Keys are numbered as they are generated; 0 is a file that is missing or *)
(* empty, which the code does not tell apart, -1 a truncated one.          *)
(***************************************************************************)
EXTENDS Integers, FiniteSets

CONSTANTS
  MaxKeys,     \* bound: keys generated
  MaxPower     \* bound: power failures

ASSUME KeysAssumption == MaxKeys \in Nat /\ MaxPower \in Nat

Nothing  == 0
Partial  == -1
Contents == {Nothing, Partial} \cup 1 .. MaxKeys
Files    == {"priv", "pub"}

VARIABLES
  pc,       \* where the start of the process is
  file,     \* [Files -> content]
  dirty,    \* files the kernel has not written back
  made,     \* number of keys generated; the last one is in memory
  key,      \* public key in hand
  \* kept to state the properties
  seen,     \* identities the cloud has seen
  lost,     \* files a power failure has damaged
  misread,  \* public keys that lay in the file when it could not be read
  power     \* counter for the bound

vars == <<pc, file, dirty, made, key, seen, lost, misread, power>>

TypeOK ==
  /\ pc    \in {"down", "load", "openPriv", "writePriv", "openPub", "writePub", "known",
                "registered", "keyless"}
  /\ file  \in [Files -> Contents]
  /\ dirty \in SUBSET Files
  /\ made  \in 0 .. MaxKeys
  /\ key   \in Contents /\ (pc \in {"known", "registered"} => key # Nothing)
  /\ seen  \in SUBSET Contents
  /\ lost  \in SUBSET Files
  /\ misread \in SUBSET Contents
  /\ power \in 0 .. MaxPower

Init ==
  /\ pc = "down" /\ file = [f \in Files |-> Nothing] /\ dirty = {}
  /\ made = 0 /\ key = Nothing
  /\ seen = {} /\ lost = {} /\ misread = {} /\ power = 0

Goto(from, to) == pc = from /\ pc' = to

\* The process starts, after whatever ended it.
Start ==
  /\ Goto("down", "load")
  /\ UNCHANGED <<file, dirty, made, key, seen, lost, misread, power>>

\* The faulty version takes an empty file for a key.
UsableIfPresent(content) == TRUE
Usable(content) == content # Nothing

\* os.ReadFile: what is in the file is the key, complete or not.
ReadPub ==
  /\ Goto("load", "known") /\ Usable(file["pub"])
  /\ key' = file["pub"]
  /\ UNCHANGED <<file, dirty, made, seen, lost, misread, power>>

\* A file that is missing or empty, and one that is there but cannot be read
\* (any error of os.ReadFile), end in a new pair.
Generate ==
  /\ Goto("load", "openPriv")
  /\ \/ ~Usable(file["pub"]) /\ UNCHANGED misread
     \/ file["pub"] # Nothing /\ misread' = misread \cup {file["pub"]}
  /\ made < MaxKeys /\ made' = made + 1
  /\ UNCHANGED <<file, dirty, key, seen, lost, power>>

\* Faulty: an error of os.WriteFile is not looked at.
OnErrorGoOn(next) == next
\* LoadOrGeneratePublicKeyPEM returns it, and Run returns: no session any more.
OnError(next) == "keyless"

\* os.WriteFile(f): the open truncates the file, or fails.
Open(f, from, to, next) ==
  \/ /\ Goto(from, to)
     /\ file' = [file EXCEPT ![f] = Nothing] /\ dirty' = dirty \cup {f}
     /\ UNCHANGED <<made, key, seen, lost, misread, power>>
  \/ /\ Goto(from, OnError(next))
     /\ key' = made
     /\ UNCHANGED <<file, dirty, made, seen, lost, misread, power>>

\* The write is complete, or the disk is full.
Write(f, from, next) ==
  /\ \/ /\ Goto(from, next)
        /\ file' = [file EXCEPT ![f] = made]
     \/ /\ Goto(from, OnError(next))
        /\ \E c \in {Nothing, Partial} : file' = [file EXCEPT ![f] = c]
  /\ dirty' = dirty \cup {f}
  /\ key' = made
  /\ UNCHANGED <<made, seen, lost, misread, power>>

\* Faulty: the public key goes first.
WriteKeysPubFirst ==
  \/ Open("pub", "openPriv", "writePriv", "openPub") \/ Write("pub", "writePriv", "openPub")
  \/ Open("priv", "openPub", "writePub", "known")    \/ Write("priv", "writePub", "known")

WriteKeys ==
  \/ Open("priv", "openPriv", "writePriv", "openPub") \/ Write("priv", "writePriv", "openPub")
  \/ Open("pub", "openPub", "writePub", "known")      \/ Write("pub", "writePub", "known")

\* Run dials, and the handshake shows the key.
Register ==
  /\ Goto("known", "registered")
  /\ seen' = seen \cup {key}
  /\ UNCHANGED <<file, dirty, made, key, lost, misread, power>>

\* The process is killed, or ends.
Crash ==
  /\ pc # "down" /\ pc' = "down" /\ key' = Nothing
  /\ UNCHANGED <<file, dirty, made, seen, lost, misread, power>>

WriteBack(f) ==
  /\ f \in dirty /\ dirty' = dirty \ {f}
  /\ UNCHANGED <<pc, file, made, key, seen, lost, misread, power>>

PowerFailure ==
  /\ power < MaxPower /\ power' = power + 1
  /\ \E damaged \in SUBSET dirty, c \in {Nothing, Partial} :
       /\ file' = [f \in Files |-> IF f \in damaged THEN c ELSE file[f]]
       /\ lost' = lost \cup damaged
  /\ dirty' = {} /\ pc' = "down" /\ key' = Nothing
  /\ UNCHANGED <<made, seen, misread>>

Next ==
  \/ Start \/ ReadPub \/ Generate \/ WriteKeys \/ Register \/ Crash
  \/ \E f \in Files : WriteBack(f)
  \/ PowerFailure

Spec == Init /\ [][Next]_vars

-----------------------------------------------------------------------------
(* What the key store promises.                                            *)

\* The cloud sees one identity, however often the start is interrupted or
\* fails.  Two things can change it: a power failure that damages the public
\* key, and a start that cannot read the public key, which makes a new pair.
IdentityKept == Cardinality(seen) > 1 => "pub" \in lost \/ misread # {}

\* "creates RSA-2048 keypair on disk": a complete public key that is shown to
\* the cloud has its private key beside it, unless a power failure damaged a
\* file, or a start that could not read this very key has since begun to write
\* another private key over its own.
PairOnDisk ==
  pc = "registered" /\ key \in 1 .. MaxKeys /\ lost = {} => file["priv"] = key \/ key \in misread
=============================================================================
