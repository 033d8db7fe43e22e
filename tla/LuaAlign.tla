-------------------------------- MODULE LuaAlign --------------------------------
(***************************************************************************)
(* entry_alignments of the Lua generator: at which bit of a byte each      *)
(* state is entered, by a worklist over the state graph.  What it should   *)
(* compute is Alignment: the one residue of all paths, if there is one.    *)
(***************************************************************************)
EXTENDS IrAnalysis, WireFields

\* What validate checks of the descriptions the generator is given.
Connected(i) ==
  /\ i.start \in DOMAIN i.states
  /\ \A s \in DOMAIN i.states : Successors(i.states[s].trans) \subseteq DOMAIN i.states

ASSUME ConnectedAssumption == \A i \in Irs : Connected(i)

VARIABLES
  align,  \* state -> the residue it was last merged to, or Conflict
  work    \* the states to look at again; the last one is next

Conflict == -1

FieldsOf(s) == WireFields(ir, ir.states[s].extracts)

\* The bits of the fixed-width fields before a field: a body has whole bytes.
BitsBefore(fs, k) ==
  LET fixed(f) == IF f.width = "bits" THEN f.n ELSE 0
      bits[n \in 0 .. Len(fs)] == IF n = 0 THEN 0 ELSE bits[n - 1] + fixed(fs[n].field)
  IN  bits[k - 1]

\* The bits a state moves the cursor by, up to whole bytes.
Delta(s) == BitsBefore(FieldsOf(s), Len(FieldsOf(s)) + 1) % ByteBits

(***************************************************************************)
(* The worklist.                                                           *)
(***************************************************************************)
Top == Last(work)
Exit == IF align[Top] = Conflict THEN Conflict ELSE (align[Top] + Delta(Top)) % ByteBits

\* successor_states: the targets in the order the transition lists them.
TargetSeq(trans) ==
  CASE trans.kind = "direct" -> <<trans.default>>
    [] trans.kind = "select" -> Append([i \in DOMAIN trans.arms |-> trans.arms[i].next], trans.default)
    [] OTHER -> <<>>

\* Mutants: the first entry stays; a state is looked at again without a change.
MergeFirst(aw, t) ==
  IF t.kind # "state" \/ t.to \in DOMAIN aw.align THEN aw
  ELSE [align |-> Insert(aw.align, t.to, Exit), work |-> Append(aw.work, t.to)]
MergeAgain(aw, t) ==
  IF t.kind # "state" THEN aw ELSE
  LET merged == IF t.to \in DOMAIN aw.align /\ aw.align[t.to] # Exit THEN Conflict ELSE Exit
  IN  [align |-> Insert(aw.align, t.to, merged), work |-> Append(aw.work, t.to)]

\* The exit is merged into a successor; one that changed is looked at again.
Merge(aw, t) ==
  IF t.kind # "state" \/ (t.to \in DOMAIN aw.align /\ aw.align[t.to] = Exit) THEN aw
  ELSE LET merged == IF t.to \in DOMAIN aw.align THEN Conflict ELSE Exit
       IN  [align |-> Insert(aw.align, t.to, merged), work |-> Append(aw.work, t.to)]

AInit == align = [s \in {ir.start} |-> 0] /\ work = <<ir.start>>

Propagate ==
  /\ work # <<>>
  /\ LET ts == TargetSeq(ir.states[Top].trans)
         merged[k \in 0 .. Len(ts)] ==
           IF k = 0 THEN [align |-> align, work |-> Front(work)] ELSE Merge(merged[k - 1], ts[k])
     IN  align' = merged[Len(ts)].align /\ work' = merged[Len(ts)].work
  /\ UNCHANGED ir

(***************************************************************************)
(* The residues a state is entered with along the paths of the graph.      *)
(***************************************************************************)
Residues ==
  LET onward(R) == UNION {{<<t, (p[2] + Delta(p[1])) % ByteBits>> : t \in Successors(ir.states[p[1]].trans)} : p \in R}
      N == ByteBits * Cardinality(DOMAIN ir.states)
      reach[n \in 0 .. N] == IF n = 0 THEN {<<ir.start, 0>>}
                             ELSE LET R == reach[n - 1] IN R \cup onward(R)
  IN  LET R == reach[N]
      IN  [s \in DOMAIN ir.states |-> {p[2] : p \in {q \in R : q[1] = s}}]

Alignment ==
  LET R == Residues
  IN  [s \in {u \in DOMAIN ir.states : R[u] # {}} |->
         IF Cardinality(R[s]) = 1 THEN CHOOSE a \in R[s] : TRUE ELSE Conflict]

(***************************************************************************)
(* Properties.                                                             *)
(***************************************************************************)

\* The worklist leaves every state with its meet over all paths, whatever
\* the order: an entry it calls aligned is entered aligned on every path, and
\* it gives up on none that is.
AlignmentExact == work = <<>> => align = Alignment

\* The emitter always gets its map: states stop being pushed.
AlignTerminates == <>(work = <<>>)
=================================================================================
