----------------------------- MODULE MCPrintSpool -----------------------------
(***************************************************************************)
(* Small instances of PrintSpool.  Each run picks the messages that its    *)
(* question needs.                                                         *)
(***************************************************************************)
EXTENDS PrintSpool, TLC

CONSTANTS p1, p2, j1, j2, j3, hA, hB, spooler, session

OnePrinter  == {p1}
OneJob      == {j1}
TwoJobs     == {j1, j2}
ThreeJobs   == {j1, j2, j3}
Logos2      == {hA, hB}
Logos1      == {hA}
Goroutines  == {spooler, session}
OneSlot     == {0}

Message(to, renders, logo, image, brings) ==
  [to |-> to, renders |-> renders, logo |-> logo, slot |-> 0,
   image |-> image, brings |-> brings]

\* Receipts without a logo, and messages that cannot be printed at all.
PlainReceipts == {Message(p, TRUE, NoHash, FALSE, NoHash) : p \in Printers}
Unprintable   == {Message(p, FALSE, NoHash, FALSE, NoHash) : p \in Printers}
Misaddressed  == {Message(Unusable, TRUE, h, TRUE, NoHash) : h \in Hashes}
\* Receipts with a logo, with and without the image.
LogoReceipts  == {Message(p, TRUE, h, image, NoHash) :
                    p \in Printers, h \in Hashes, image \in BOOLEAN}
Uploading     == {Message(p, TRUE, h, TRUE, NoHash) : p \in Printers, h \in Hashes}
\* logo_provision jobs.
Provisions    == {Message(p, TRUE, NoHash, FALSE, h) : p \in Printers, h \in Hashes}
ProvisionsRef == {Message(p, TRUE, g, TRUE, h) : p \in Printers, g \in Hashes, h \in Hashes}

AllInputs     == PlainReceipts \cup Unprintable \cup Misaddressed \cup LogoReceipts
                   \cup Provisions \cup ProvisionsRef
QueueInputs   == PlainReceipts \cup Unprintable \cup Uploading

SymJobsLogos   == Permutations(Jobs) \cup Permutations(Hashes)
SymJobs        == Permutations(Jobs)
=============================================================================
