----------------------------- MODULE EnvNumbers -----------------------------
(***************************************************************************)
(* The numbers of the environment, as internal/config reads them and       *)
(* internal/cloud uses them: the limit of a websocket frame, and the       *)
(* period of the printer health ticker.  The digits are accumulated in an  *)
(* int without a look at overflow, and the period becomes a time.Duration; *)
(* NewTicker panics if it is not positive, which ends the process.         *)
(*                                                                         *)
(* A raw value is the sequence of its characters: 0 .. 9, or Other.        *)
(***************************************************************************)
EXTENDS Integers, Sequences, SequencesExt

CONSTANTS
  MaxInt, MaxDuration,     \* the largest int and time.Duration, 2 ^ (w - 1) - 1
  Second,                  \* time.Second in its unit
  LeastInbound, DefaultInbound, LeastInterval, DefaultInterval,
  Raws                     \* the raw values somebody may set

Other == -1

ASSUME NumbersAssumption ==
  /\ {MaxInt, MaxDuration, Second, LeastInbound, LeastInterval} \subseteq Nat \ {0}
  /\ DefaultInbound \in LeastInbound .. MaxInt
  /\ DefaultInterval \in LeastInterval .. MaxInt
  /\ DefaultInterval * Second <= MaxDuration
  /\ Raws \subseteq Seq(0 .. 9 \cup {Other})

VARIABLE env   \* raw value of the variable, the same for the life of the process

EnvSpec == env \in Raws /\ [][UNCHANGED env]_env

\* The value of n in a two's complement type whose largest value is max.
Wrap(n, max) == ((n + max + 1) % (2 * (max + 1))) - (max + 1)

\* n = n*10 + int(c-'0')
Accumulate(raw) ==
  LET n[k \in 0 .. Len(raw)] == IF k = 0 THEN 0 ELSE Wrap(n[k - 1] * 10 + raw[k], MaxInt)
  IN  n[Len(raw)]

\* Faulty: without a floor.
NoFloor(n, least, instead) == n

Floor(n, least, instead) == IF n < least THEN instead ELSE n

\* Not set, or not a number.
Invalid(raw) == raw = <<>> \/ Contains(raw, Other)

WSMaxInbound(raw) ==
  IF Invalid(raw) THEN DefaultInbound ELSE Floor(Accumulate(raw), LeastInbound, DefaultInbound)

PrinterHealthInterval(raw) ==
  IF Invalid(raw) THEN DefaultInterval ELSE Floor(Accumulate(raw), LeastInterval, LeastInterval)

\* time.Duration(config.PrinterHealthInterval())*time.Second
Period(raw) == Wrap(PrinterHealthInterval(raw) * Second, MaxDuration)

TickerPanics(raw) == Period(raw) <= 0

\* The number the digits stand for.
Meant(raw) ==
  LET n[k \in 0 .. Len(raw)] == IF k = 0 THEN 0 ELSE n[k - 1] * 10 + raw[k]
  IN  n[Len(raw)]

InRange(raw) ==
  \/ Invalid(raw)
  \/ Meant(raw) <= MaxInt /\ Meant(raw) * Second <= MaxDuration

\* Whatever the environment says, frames of the usual size get through, and
\* the process dies of the health ticker only if the number is too large for
\* its type; a number in range is used as it was meant, raised to the floor.
EnvironmentRight ==
  /\ WSMaxInbound(env) >= LeastInbound
  /\ ~Invalid(env) /\ Meant(env) \in LeastInbound .. MaxInt => WSMaxInbound(env) = Meant(env)
  /\ InRange(env)
       => /\ PrinterHealthInterval(env) >= LeastInterval
          /\ ~Invalid(env) /\ Meant(env) >= LeastInterval => PrinterHealthInterval(env) = Meant(env)
          /\ ~TickerPanics(env)
=============================================================================
