------------------------------ MODULE LoadAndRun ------------------------------
(***************************************************************************)
(* A command of the CLI that runs a description (load_ir, then run): it is *)
(* validated, and run over a packet only if there was no complaint.        *)
(***************************************************************************)
EXTENDS Interp, Validate

lvars == <<vars, vpc, errs, inset, at, changed>>

LInit == Init /\ VInit

Load ==
  /\ VStep
  /\ UNCHANGED <<packet, pc, current, depth, ex, parsed, cursor, env, headers, trace, result>>

Run ==
  /\ vpc = "done"
  /\ errs = {}
  /\ Step
  /\ UNCHANGED <<vpc, errs, inset, at, changed>>

\* The command ends with the parse, or with the list of complaints.
Finished ==
  /\ vpc = "done" /\ (errs # {} \/ pc = "done")
  /\ UNCHANGED lvars

LNext == Load \/ Run \/ Finished

LSpec == LInit /\ [][LNext]_lvars /\ WF_lvars(Load \/ Run)

(***************************************************************************)
(* Properties.                                                             *)
(***************************************************************************)
Loaded == vpc = "done" /\ errs = {}

\* The analysis is sound for what really happens: whenever a state is being
\* extracted or about to choose, each instance counted as definitely
\* extracted there has a complete header behind it (definite_extraction_errors
\* against the extractions of run_bits), on every path and for every packet.
DefinitelyExtracted ==
  Loaded /\ pc \in {"extract", "field"} =>
    \A n \in Available(ir, inset, current, ex) :
      \E i \in DOMAIN headers :
        /\ headers[i].instance = n
        /\ Len(headers[i].fields) = Len(ir.types[headers[i].type])

(***************************************************************************)
(* What validate does not look at.                                         *)
(***************************************************************************)
OneTypePerInstance(i) ==
  \A s, t \in DOMAIN i.states :
    \A x \in ToSet(i.states[s].extracts), y \in ToSet(i.states[t].extracts) :
      Instance(x) = Instance(y) => x.type = y.type

NamesEveryTarget(i) ==
  \A s \in DOMAIN i.states :
    /\ i.states[s].trans.default.kind # "empty"
    /\ \A a \in ToSet(i.states[s].trans.arms) : a.next.kind \notin {"empty", "absent"}

CompleteExprs(i) ==
  \A e \in DOMAIN i.exprs :
    /\ i.exprs[e].op \notin {"empty", "unspecified"}
    /\ i.exprs[e].op \in BinOps => 0 \notin {i.exprs[e].l, i.exprs[e].r}
    /\ i.exprs[e].op = "field" => \A t \in DOMAIN i.types : \A j \in DOMAIN i.types[t] :
         i.types[t][j].name = i.exprs[e].f => i.types[t][j].width = "bits"

\* The bits of the fixed-width fields among the first j.
FixedBits(fields, j) ==
  LET sum[k \in 0 .. Len(fields)] ==
        IF k = 0 THEN 0
        ELSE sum[k - 1] + (IF fields[k].width = "bits" THEN fields[k].n ELSE 0)
  IN  sum[j]

\* Every header and every part of one between variable-length fields is whole
\* bytes.
WholeBytes(i) ==
  \A t \in DOMAIN i.types : \A j \in 0 .. Len(i.types[t]) :
    (j = Len(i.types[t]) \/ i.types[t][j + 1].width = "bytes") =>
      FixedBits(i.types[t], j) % ByteBits = 0

\* Lengths use earlier fields of their header, or other instances.
LengthsLookBack(i) ==
  \A t \in DOMAIN i.types : \A j \in DOMAIN i.types[t] :
    i.types[t][j].width = "bytes" =>
      \A r \in Refs(i, i.types[t][j].n) :
        InstanceTypes(i)[r[1]] = t => \E k \in 1 .. j - 1 : i.types[t][k].name = r[2]

HasVarLength(i) == \E t \in DOMAIN i.types : \E f \in ToSet(i.types[t]) : f.width = "bytes"

Closed(i) ==
  /\ OneTypePerInstance(i)
  /\ NamesEveryTarget(i)
  /\ CompleteExprs(i)
  /\ HasVarLength(i) => WholeBytes(i) /\ LengthsLookBack(i)

\* A description that validate accepts, and that is free of the four things
\* validate does not look at, never makes run_bits return Err, on any packet:
\* the checks that are there leave no other hole.
NeverBailsIfClosed == Loaded /\ Closed(ir) => ~ Bailed

\* "Err means the IR itself is malformed; anything about the *packet* is a
\* Reject" (interp/mod.rs:96-97), where malformed is what validate reports
\* ("Well-formedness validation: everything protobuf cannot express",
\* ir/validate.rs:1): an accepted description is never answered with Err.
ErrOnlyIfMalformed == Loaded => ~ Bailed
=============================================================================
