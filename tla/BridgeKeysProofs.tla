-------------------------- MODULE BridgeKeysProofs --------------------------
(***************************************************************************)
(* Proofs about BridgeKeys, for any number of keys and power failures.     *)
(***************************************************************************)
EXTENDS BridgeKeys, FiniteSetTheorems, TLAPS

Writing == {"openPriv", "writePriv", "openPub", "writePub"}

\* While a new pair is written there is no public key, or one that could not be
\* read; the key in use is the one in the file.  Without power failures and read
\* errors that file never changes once it was shown, and a complete public key
\* that was never misread lies beside its private key, which was written first.
KeysKept ==
  /\ pc \in Writing => file["pub"] \in {Nothing} \cup misread /\ made # 0
  /\ pc \in {"openPub", "writePub"} => file["priv"] = made
  /\ pc \in {"known", "registered"} => key = file["pub"]
  /\ "pub" \notin lost /\ misread = {} => \A k \in seen : k = file["pub"] /\ k # Nothing
  /\ lost = {} /\ file["pub"] \in 1 .. MaxKeys =>
       file["priv"] = file["pub"] \/ file["pub"] \in misread

IInv == TypeOK /\ KeysKept

-----------------------------------------------------------------------------

LEMMA InitOK == Init => IInv
BY KeysAssumption DEF Init, IInv, TypeOK, KeysKept, Contents, Files, Nothing, Partial, Writing

\* The two halves of os.WriteFile, for the private key ...
LEMMA WritePrivOK ==
  IInv /\ (Open("priv", "openPriv", "writePriv", "openPub") \/ Write("priv", "writePriv", "openPub"))
    => IInv'
<1> USE KeysAssumption
        DEF IInv, TypeOK, KeysKept, Contents, Files, Nothing, Partial, Writing, Goto, OnError
<1> SUFFICES ASSUME IInv PROVE
      Open("priv", "openPriv", "writePriv", "openPub") \/ Write("priv", "writePriv", "openPub") => IInv'
  OBVIOUS
<1>1. ASSUME Open("priv", "openPriv", "writePriv", "openPub") PROVE IInv'
  <2>1. pc = "openPriv" /\ file["pub"] \in {Nothing} \cup misread /\ made \in 1 .. MaxKeys
    BY <1>1 DEF Open
  <2>2. CASE Goto("openPriv", "writePriv")
    <3>1. /\ file' = [file EXCEPT !["priv"] = Nothing] /\ dirty' = dirty \cup {"priv"}
          /\ UNCHANGED <<made, key, seen, lost, misread, power>>
      BY <1>1, <2>2 DEF Open
    <3> QED
      BY <2>1, <2>2, <3>1
  <2>3. CASE Goto("openPriv", OnError("openPub"))
    <3>1. key' = made /\ UNCHANGED <<file, dirty, made, seen, lost, misread, power>>
      BY <1>1, <2>3 DEF Open
    <3> QED
      BY <2>1, <2>3, <3>1
  <2> QED
    BY <1>1, <2>2, <2>3 DEF Open
<1>2. Write("priv", "writePriv", "openPub") => IInv'
  BY DEF Write
<1> QED
  BY <1>1, <1>2

\* ... and for the public key.
LEMMA WritePubOK ==
  IInv /\ (Open("pub", "openPub", "writePub", "known") \/ Write("pub", "writePub", "known"))
    => IInv'
<1> USE KeysAssumption
        DEF IInv, TypeOK, KeysKept, Contents, Files, Nothing, Partial, Writing, Goto, OnError
<1> SUFFICES ASSUME IInv PROVE
      Open("pub", "openPub", "writePub", "known") \/ Write("pub", "writePub", "known") => IInv'
  OBVIOUS
<1>1. ASSUME Open("pub", "openPub", "writePub", "known") PROVE IInv'
  <2>1. pc = "openPub" /\ made \in 1 .. MaxKeys /\ file["priv"] = made
    BY <1>1 DEF Open
  <2>2. CASE Goto("openPub", "writePub")
    <3>1. /\ file' = [file EXCEPT !["pub"] = Nothing] /\ dirty' = dirty \cup {"pub"}
          /\ UNCHANGED <<made, key, seen, lost, misread, power>>
      BY <1>1, <2>2 DEF Open
    <3>2. TypeOK'
      BY <2>1, <2>2, <3>1
    <3>3. KeysKept'
      BY <2>1, <2>2, <3>1
    <3> QED
      BY <3>2, <3>3
  <2>3. CASE Goto("openPub", OnError("known"))
    <3>1. key' = made /\ UNCHANGED <<file, dirty, made, seen, lost, misread, power>>
      BY <1>1, <2>3 DEF Open
    <3> QED
      BY <2>1, <2>3, <3>1
  <2> QED
    BY <1>1, <2>2, <2>3 DEF Open
<1>2. Write("pub", "writePub", "known") => IInv'
  BY DEF Write
<1> QED
  BY <1>1, <1>2

LEMMA StepOK == IInv /\ [Next]_vars => IInv'
<1> USE KeysAssumption
        DEF IInv, TypeOK, KeysKept, Contents, Files, Nothing, Partial, Writing, Goto
<1> SUFFICES ASSUME IInv, [Next]_vars PROVE IInv'
  OBVIOUS
<1>1. CASE Start
  BY <1>1 DEF Start
<1>2. CASE ReadPub
  BY <1>2 DEF ReadPub, Usable
<1>3. CASE Generate
  <2>1. pc = "load" /\ pc' = "openPriv" /\ made' = made + 1 /\ made' \in 1 .. MaxKeys
    BY <1>3 DEF Generate
  <2>2. UNCHANGED <<file, dirty, key, seen, lost, power>>
    BY <1>3 DEF Generate
  <2>3. misread \subseteq misread' /\ misread' \in SUBSET Contents
        /\ file["pub"] \in {Nothing} \cup misread'
    BY <1>3 DEF Generate, Usable
  <2>4. TypeOK'
    BY <2>1, <2>2, <2>3
  <2>5. KeysKept'
    BY <2>1, <2>2, <2>3
  <2> QED
    BY <2>4, <2>5
<1>4. CASE WriteKeys
  BY <1>4, WritePrivOK, WritePubOK DEF WriteKeys
<1>5. CASE Register
  BY <1>5 DEF Register
<1>6. CASE Crash
  BY <1>6 DEF Crash
<1>7. ASSUME NEW f \in Files, WriteBack(f) PROVE IInv'
  BY <1>7 DEF WriteBack
<1>8. CASE PowerFailure
  BY <1>8 DEF PowerFailure
<1>9. CASE UNCHANGED vars
  BY <1>9 DEF vars
<1> QED
  BY <1>1, <1>2, <1>3, <1>4, <1>5, <1>6, <1>7, <1>8, <1>9 DEF Next

LEMMA InvariantHolds == Spec => []IInv
BY InitOK, StepOK, PTL DEF Spec

-----------------------------------------------------------------------------
(* What is proved.                                                         *)

\* Every reachable state of the key store is well-typed.
THEOREM KeysTypeCorrect == Spec => []TypeOK
BY InvariantHolds, PTL DEF IInv

\* However often the start of the bridge is killed or fails, the cloud sees one
\* identity, unless a power failure damages the public key or a read error hides
\* it from a start.
THEOREM OneIdentity == Spec => []IdentityKept
<1>1. ASSUME IInv PROVE IdentityKept
  <2>1. CASE "pub" \in lost \/ misread # {}
    BY <2>1 DEF IdentityKept
  <2>2. CASE "pub" \notin lost /\ misread = {}
    <3>1. seen \subseteq {file["pub"]}
      BY <1>1, <2>2 DEF IInv, KeysKept
    <3>2. IsFiniteSet({file["pub"]}) /\ Cardinality({file["pub"]}) = 1
      BY FS_Singleton
    <3>3. Cardinality(seen) <= 1
      BY <3>1, <3>2, FS_Subset
    <3>4. Cardinality(seen) \in Nat
      BY <3>1, <3>2, FS_Subset, FS_CardinalityType
    <3> QED
      BY <3>3, <3>4 DEF IdentityKept
  <2> QED
    BY <2>1, <2>2
<1> QED
  BY <1>1, InvariantHolds, PTL

\* The private key of a complete public key in use is on the disk, unless a
\* power failure has damaged a file or a start could not read that public key.
THEOREM PairsComplete == Spec => []PairOnDisk
<1>1. IInv => PairOnDisk
  BY DEF IInv, KeysKept, PairOnDisk
<1> QED
  BY <1>1, InvariantHolds, PTL
=============================================================================
