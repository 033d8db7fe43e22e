------------------------------- MODULE Validate -------------------------------
(***************************************************************************)
(* Well-formedness validation (ir/validate.rs): the structural checks, all *)
(* collected, and then, if there was no complaint, the path-sensitive      *)
(* definite-extraction analysis: a must-analysis run as sweeps over the    *)
(* states until one changes nothing.                                       *)
(*                                                                         *)
(* An error is <<kind, place...>>; the wording of messages is left out, as *)
(* are duplicate state-independent names the maps of PakelesIR cannot      *)
(* express (two header types of one name) and value labels.                *)
(***************************************************************************)
EXTENDS GivenIr, SequencesExt, FiniteSetsExt

VARIABLES
  vpc,      \* "structure", "sweep", "check" or "done"
  errs,     \* the errors collected
  inset,    \* state -> instances definitely extracted on entry
  at,       \* the state the sweep visits next, as a position in ir.order
  changed   \* has this sweep narrowed a set?

vvars == <<ir, vpc, errs, inset, at, changed>>

(***************************************************************************)
(* Instances and references.                                               *)
(***************************************************************************)
StateInstances(i, s) == {Instance(x) : x \in ToSet(i.states[s].extracts)}

\* HashMap: the last extraction of an instance, in listing order, decides the
\* type its fields are looked up in.
Extractions(i) == FlattenSeq([k \in DOMAIN i.order |-> i.states[i.order[k]].extracts])
InstanceTypes(i) ==
  LET known == {k \in DOMAIN Extractions(i) : Extractions(i)[k].type \in DOMAIN i.types}
  IN  [n \in {Instance(Extractions(i)[k]) : k \in known} |->
        Extractions(i)[Max({k \in known : Instance(Extractions(i)[k]) = n})].type]

\* The field references below an expression.
Refs(i, e) ==
  LET refs[k \in 0 .. Len(i.exprs)] ==
        IF k = 0 THEN {}
        ELSE LET x == i.exprs[k]
             IN  IF x.op = "field" THEN {<<x.h, x.f>>}
                 ELSE IF x.op \in BinOps THEN refs[x.l] \cup refs[x.r]
                 ELSE {}
  IN  refs[e]

FieldNames(i, t) == {f.name : f \in ToSet(i.types[t])}
RefResolves(i, r) ==
  /\ r[1] \in DOMAIN InstanceTypes(i)
  /\ r[2] \in FieldNames(i, InstanceTypes(i)[r[1]])

\* The width an entry must fit in, when its key is a plain fixed-width field.
FitsKey(i, key, v) ==
  LET x == i.exprs[key]
  IN  (x.op = "field" /\ RefResolves(i, <<x.h, x.f>>)) =>
        LET fs == i.types[InstanceTypes(i)[x.h]]
            f  == fs[Min({j \in DOMAIN fs : fs[j].name = x.f})]
        IN  f.width = "bits" => v < 2^f.n

EntryValues(entry) ==
  CASE entry.kind = "value" -> {entry.a}
    [] entry.kind \in {"masked", "range"} -> {entry.a, entry.b}
    [] OTHER -> {}

(***************************************************************************)
(* The structural checks.                                                  *)
(***************************************************************************)
DepthErrors(i) == IF i.max_depth = 0 THEN {<<"max_depth">>} ELSE {}

FieldErrors(i) == UNION {
  LET fs == i.types[t]
  IN  {<<"duplicate field", t, fs[j].name>> :
         j \in {k \in DOMAIN fs : \E m \in 1 .. k - 1 : fs[m].name = fs[k].name}}
      \cup {<<"width", t, f.name>> : f \in {g \in ToSet(fs) :
              g.width = "none" \/ (g.width = "bits" /\ g.n \notin 1 .. WordBits)}}
      \cup {<<"width ref", t, f.name>> : f \in {g \in ToSet(fs) :
              g.width = "bytes" /\ \E r \in Refs(i, g.n) : ~ RefResolves(i, r)}} :
  t \in DOMAIN i.types}

StateNameErrors(i) ==
  {<<"duplicate state", i.order[k]>> :
     k \in {m \in DOMAIN i.order : \E n \in 1 .. m - 1 : i.order[n] = i.order[m]}}
  \cup {<<"empty state name">> : s \in DOMAIN i.states \cap {""}}
  \cup (IF i.start \in DOMAIN i.states THEN {} ELSE {<<"start state", i.start>>})

ExtractErrors(i, s) ==
  {<<"header type", s, x.type>> :
     x \in {y \in ToSet(i.states[s].extracts) : y.type \notin DOMAIN i.types}}

\* A missing arm target and an empty Target pass.
TransitionErrors(i, s) ==
  LET tr == i.states[s].trans
  IN  (IF tr.kind = "none" THEN {<<"no transition", s>>} ELSE {})
      \cup {<<"target", s, n>> : n \in Successors(tr) \ DOMAIN i.states}
      \cup (IF tr.kind # "select" THEN {}
            ELSE {<<"key ref", s, r[1], r[2]>> : r \in
                    {q \in UNION {Refs(i, k) : k \in ToSet(tr.keys)} : ~ RefResolves(i, q)}}
                 \cup {<<"arity", s>> : a \in
                         {b \in ToSet(tr.arms) : Len(b.entries) # Len(tr.keys)}}
                 \cup {<<"entry width", s>> : a \in {b \in ToSet(tr.arms) :
                         \E k \in DOMAIN b.entries \cap DOMAIN tr.keys :
                           \E v \in EntryValues(b.entries[k]) : ~ FitsKey(i, tr.keys[k], v)}})

StructuralErrors(i) ==
  DepthErrors(i) \cup FieldErrors(i) \cup StateNameErrors(i)
  \cup UNION {ExtractErrors(i, s) \cup TransitionErrors(i, s) : s \in DOMAIN i.states}

(***************************************************************************)
(* The definite-extraction analysis.                                       *)
(***************************************************************************)
AllInstances(i) == UNION {StateInstances(i, s) : s \in DOMAIN i.states}

\* Nothing is certain at the start, everything elsewhere, until narrowed.
InitialSets(i) == [s \in DOMAIN i.states |-> IF s = i.start THEN {} ELSE AllInstances(i)]

CheckStructure ==
  /\ vpc = "structure"
  /\ errs' = StructuralErrors(ir)
  /\ IF errs' = {} THEN vpc' = "sweep" /\ inset' = InitialSets(ir)
     ELSE vpc' = "done" /\ UNCHANGED inset
  /\ UNCHANGED <<ir, at, changed>>

\* What is certain on leaving a state narrows what is certain on entering
\* each of its successors.
SweepState ==
  /\ vpc = "sweep"
  /\ at <= Len(ir.order)
  /\ LET s    == ir.order[at]
         out  == inset[s] \cup StateInstances(ir, s)
         next == [t \in DOMAIN inset |->
                   IF t \in Successors(ir.states[s].trans) THEN inset[t] \cap out ELSE inset[t]]
     IN  /\ inset' = next
         /\ changed' = (changed \/ next # inset)
  /\ at' = at + 1
  /\ UNCHANGED <<ir, vpc, errs>>

\* Mutants: one sweep only; the next one starts with the flag still set.
SweepOnce ==
  /\ vpc = "sweep"
  /\ at > Len(ir.order)
  /\ vpc' = "check"
  /\ UNCHANGED <<ir, errs, inset, at, changed>>
SweepForever ==
  /\ vpc = "sweep"
  /\ at > Len(ir.order)
  /\ IF changed THEN at' = 1 /\ UNCHANGED <<vpc, changed>>
     ELSE vpc' = "check" /\ UNCHANGED <<at, changed>>
  /\ UNCHANGED <<ir, errs, inset>>

SweepEnds ==
  /\ vpc = "sweep"
  /\ at > Len(ir.order)
  /\ IF changed THEN vpc' = vpc /\ at' = 1 /\ changed' = FALSE
     ELSE vpc' = "check" /\ UNCHANGED <<at, changed>>
  /\ UNCHANGED <<ir, errs, inset>>

\* The instances available to the width of a field of the k-th extract (its
\* own included) and, for k the number of extracts, to the select keys.
Available(i, ins, s, k) ==
  ins[s] \cup {Instance(i.states[s].extracts[j]) : j \in 1 .. k}

\* Mutant: the keys of a select are not looked at.
UseErrorsOfWidths(i, ins, s) ==
  LET xs == i.states[s].extracts
  IN  UNION {{<<"not definitely extracted", s, r[1], r[2]>> :
                r \in {q \in UNION {Refs(i, f.n) :
                                      f \in {g \in ToSet(i.types[xs[k].type]) : g.width = "bytes"}} :
                         q[1] \notin Available(i, ins, s, k)}} : k \in DOMAIN xs}

UseErrors(i, ins, s) ==
  LET xs == i.states[s].extracts
      tr == i.states[s].trans
  IN  (UNION {{<<"not definitely extracted", s, r[1], r[2]>> :
                 r \in {q \in UNION {Refs(i, f.n) :
                                       f \in {g \in ToSet(i.types[xs[k].type]) : g.width = "bytes"}} :
                          q[1] \notin Available(i, ins, s, k)}} : k \in DOMAIN xs})
      \cup {<<"not definitely extracted", s, r[1], r[2]>> :
              r \in {q \in UNION {Refs(i, k) : k \in ToSet(tr.keys)} :
                       tr.kind = "select" /\ q[1] \notin Available(i, ins, s, Len(xs))}}

CheckUses ==
  /\ vpc = "check"
  /\ errs' = UNION {UseErrors(ir, inset, s) : s \in DOMAIN ir.states}
  /\ vpc' = "done"
  /\ UNCHANGED <<ir, inset, at, changed>>

(***************************************************************************)
(* The specification.                                                      *)
(***************************************************************************)
VInit ==
  /\ ir \in Irs
  /\ vpc = "structure"
  /\ errs = {}
  /\ inset = <<>>
  /\ at = 1
  /\ changed = FALSE

VStep == CheckStructure \/ SweepState \/ SweepEnds \/ CheckUses
VReturned == vpc = "done" /\ UNCHANGED vvars
VNext == VStep \/ VReturned

VSpec == VInit /\ [][VNext]_vvars /\ WF_vvars(VStep)

(***************************************************************************)
(* Properties.                                                             *)
(***************************************************************************)

\* The states that can be entered without having extracted instance n: those
\* a chain of states that do not extract n leads to.
EnteredWithout(i, n) ==
  LET closed(R) == /\ i.start \in R
                   /\ \A s \in R : n \notin StateInstances(i, s) =>
                        Successors(i.states[s].trans) \subseteq R
  IN  {s \in DOMAIN i.states : \A R \in SUBSET DOMAIN i.states : closed(R) => s \in R}

\* Sets of known instances, only ever narrowed.
VTypeOK ==
  /\ ir \in Irs
  /\ vpc \in {"structure", "sweep", "check", "done"}
  /\ at \in 1 .. Len(ir.order) + 1
  /\ changed \in BOOLEAN
  /\ vpc \in {"sweep", "check"} => inset \in [DOMAIN ir.states -> SUBSET AllInstances(ir)]

\* At any moment of the fixpoint, a set still holds every instance that every
\* path really extracts: narrowing never drops one too many, in any sweep.
NeverTooNarrow ==
  vpc \in {"sweep", "check"} =>
    \A s \in DOMAIN ir.states : \A n \in AllInstances(ir) :
      s \notin EnteredWithout(ir, n) => n \in inset[s]

\* When the sweeps stop, the sets are exactly the meet over all paths
\* ("in(s) = intersection over predecessors", validate.rs:219-222).
MeetOverPaths ==
  vpc = "check" =>
    \A s \in DOMAIN ir.states : \A n \in AllInstances(ir) :
      n \in inset[s] <=> s \notin EnteredWithout(ir, n)

\* The sets a clean sweep leaves solve the dataflow inequations: nothing is
\* certain at the start, and nothing is certain on entering a successor that
\* was not certain, or extracted, before.
Solves(i, ins) ==
  /\ ins[i.start] = {}
  /\ \A s \in DOMAIN i.states : \A t \in Successors(i.states[s].trans) :
       ins[t] \subseteq ins[s] \cup StateInstances(i, s)

FixpointSolves == vpc = "check" \/ (vpc = "done" /\ StructuralErrors(ir) = {}) =>
                    Solves(ir, inset)

\* Validation returns: the sweeps narrow finite sets.
VTerminates == <>(vpc = "done")
=============================================================================
