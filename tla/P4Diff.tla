--------------------------------- MODULE P4Diff ---------------------------------
(***************************************************************************)
(* The bmv2 differential oracle, diff_suite: the verdict of the emitted P4 *)
(* is compared with the one expected from a run of the interpreter.        *)
(* Backends runs the two; the capture that carries the verdicts is         *)
(* Bmv2Poll's.                                                             *)
(***************************************************************************)
EXTENDS Interp, P4Parse

(***************************************************************************)
(* expected().                                                             *)
(***************************************************************************)
DeclaredReasons ==
  {t.to : t \in {u \in UNION {Targets(ir.states[s].trans) : s \in DOMAIN ir.states} : u.kind = "reject"}}

HeadersSeen == {headers[i].instance : i \in DOMAIN headers}
Declared == result.reason \in DeclaredReasons

\* Mutant: the failing instance is left in the bitmap.
ExpectedBitmapPartial == HeadersSeen

ExpectedBitmap ==
  IF result.outcome = "reject" /\ ~ Declared THEN HeadersSeen \ {result.instance} ELSE HeadersSeen

ExpectedErrors ==
  CASE result.outcome = "accept" -> {NoError}
    [] Declared -> {NoError, P4NoMatch}
    [] OTHER -> {PacketTooShort, HeaderTooShort, InvalidArgument}

(***************************************************************************)
(* Properties.                                                             *)
(***************************************************************************)
Compared == pc = "done" /\ p4pc = "done" /\ ~ Bailed

TooDeep == result.reason = MaxDepthExceeded
\* The instance that was cut had been extracted before.
CutAgain ==
  /\ result.field # None
  /\ \E i \in 1 .. Len(headers) - 1 : headers[i].instance = result.instance
EntriesHaveKinds ==
  \A s \in DOMAIN ir.states : \A a \in ToSet(ir.states[s].trans.arms) :
    \A e \in ToSet(a.entries) : e.kind # "none"

\* The conformance claim of the oracle, "the BMv2 differential observes exactly
\* (bitmap, err) per packet" (p4.rs:9): BMv2's verdict is the one expected of
\* the packet.  It holds where neither a loop is cut in a later element nor the
\* depth is exceeded, and no entry lacks its kind: there atomic segments,
\* stacks, narrowed lengths and omitted rejects lead to that verdict, whichever
\* errors the target chooses.
VerdictsAgreeOtherwise ==
  Compared /\ ~ TooDeep /\ ~ CutAgain /\ EntriesHaveKinds =>
    ValidInstances = ExpectedBitmap /\ perr \in ExpectedErrors

\* What the verdict does not show.  Fields refer to the element extracted last,
\* stacked or not, as the interpreter's environment does: at the end both hold
\* the same values; and with no error both consumed the same bits.
SameParse ==
  Compared /\ result.outcome = "accept" =>
    /\ \A p \in DOMAIN env : p \in DOMAIN last /\ last[p] = env[p]
    /\ perr = NoError => offset = result.consumed
================================================================================
