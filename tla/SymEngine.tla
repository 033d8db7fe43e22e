------------------------------- MODULE SymEngine -------------------------------
(***************************************************************************)
(* Path enumeration with symbolic layout, symex::engine::enumerate, over   *)
(* the solver of symex/z3solver.rs.                                        *)
(*                                                                         *)
(* The engine never looks at a packet: a frame carries constraints on one. *)
(* Here a frame carries what those constraints mean, its worlds: the       *)
(* packet prefixes that satisfy them, each with the values its fields have *)
(* there.  The length of a prefix is the value of the frame's symbolic     *)
(* cursor; check is "some world is left".  The recursive calls are a stack *)
(* of frames.                                                              *)
(***************************************************************************)
EXTENDS IrAnalysis

CONSTANTS
  SanityBytes,  \* SANITY_BYTES: the longest body the engine lays out
  LoopUnroll    \* TESTGEN_LOOP_UNROLL: entries of a cyclic state per path

ASSUME SanityAssumption == SanityBytes \in Nat
ASSUME UnrollAssumption == LoopUnroll \in Nat

\* What the engine takes for granted of a description that validate accepted.
Laid(i) ==
  /\ i.start \in DOMAIN i.states
  /\ \A s \in DOMAIN i.states :
       /\ Successors(i.states[s].trans) \subseteq DOMAIN i.states
       /\ \A x \in ToSet(i.states[s].extracts) : x.type \in DOMAIN i.types
  /\ \A t \in DOMAIN i.types :
       /\ \A f \in ToSet(i.types[t]) : f.width = "bits" => f.n \in 1 .. WordBits
       /\ \A j, k \in DOMAIN i.types[t] : i.types[t][j].name = i.types[t][k].name => j = k

ASSUME LaidAssumption == \A i \in Irs : Laid(i)

VARIABLES
  frames,     \* the calls of walk_* that are still to be made, the next first
  paths,      \* ctx.paths
  reached,    \* log.reached_states
  attempted,  \* log.attempted_arms
  feasible,   \* log.feasible_arms
  failed      \* enumerate returned Err

(***************************************************************************)
(* Terms.  A solver term is the expression over the bits of the packet;    *)
(* a shift by the word size or more gives 0 (SMT-LIB's bvshl and bvlshr).  *)
(***************************************************************************)

TermArith(op, x, y) == IF op \in {"shl", "shr"} /\ y >= WordBits THEN 0 ELSE Arith(op, x, y)

TermValue(e, env) ==
  LET val[i \in 0 .. Len(ir.exprs)] ==
        IF i = 0 THEN Unresolved
        ELSE LET x == ir.exprs[i]
             IN  CASE x.op = "const" -> x.v
                   [] x.op = "field" /\ <<x.h, x.f>> \in DOMAIN env -> Uint(env[<<x.h, x.f>>])
                   [] x.op \in BinOps /\ Unresolved \notin {val[x.l], val[x.r]} ->
                        TermArith(x.op, val[x.l], val[x.r])
                   [] OTHER -> Unresolved
  IN  val[e]

\* term_of_expr fails on a field that is not placed, whatever the packet.
Placeable(e, frame) == TermValue(e, [p \in frame.placed |-> <<>>]) # Unresolved

\* bound_bytes: the longest body of a variable-length field on any path.
BoundBytes(e) == MinOf2(ExprRange(e).hi, SanityBytes)

(***************************************************************************)
(* Frames and paths.                                                       *)
(***************************************************************************)
\* at "state": state is to be entered; at "items": its fields in items are
\* left to lay out.  width is cursor_max.
StartFrame == [at |-> "state", state |-> ir.start, items |-> <<>>, segments |-> <<>>,
               depth |-> 0, counts |-> [s \in CyclicStates |-> 0], placed |-> {}, width |-> 0,
               worlds |-> {[bits |-> <<>>, env |-> <<>>]}]

Frame == Head(frames)

\* Mutant: an unknown answer of the solver counts as satisfiable.
SatUnknown(worlds) == TRUE

Sat(worlds) == worlds # {}
Zeros(n) == [i \in 1 .. n |-> 0]

\* A path with the packets that follow it.  A packet that ends in a field has
\* zeros for the field's bits: nothing refers to them.
PathOf(segments, kind, reason, width, packets) ==
  [id |-> segments, kind |-> kind, reason |-> reason, width |-> width, packets |-> packets]
PrefixesOf(worlds) == {w.bits : w \in worlds}

Ending(frame, kind, reason) ==
  PathOf(frame.segments, kind, reason, frame.width, PrefixesOf(frame.worlds))

Emit(new) == paths' = paths \cup new

\* Put other frames in the place of the one that was taken.
Continue(children) == frames' = children \o Tail(frames)

EBail ==
  /\ failed' = TRUE
  /\ frames' = <<>>
  /\ UNCHANGED <<ir, paths, reached, attempted, feasible>>

(***************************************************************************)
(* walk_state.                                                             *)
(***************************************************************************)
WalkedInto == [Frame EXCEPT !.depth = @ + 1, !.segments = Append(@, <<"state", Frame.state>>)]

Walking == frames # <<>> /\ Frame.at = "state"
WalkTooDeep == Frame.depth + 1 > ir.max_depth

UnrolledEnough == Frame.state \in CyclicStates /\ Frame.counts[Frame.state] >= LoopUnroll

WalkBeyondDepth ==
  /\ Walking
  /\ WalkTooDeep
  /\ Emit({Ending(WalkedInto, "reject", "max depth exceeded")})
  /\ Continue(<<>>)
  /\ UNCHANGED <<ir, reached, attempted, feasible, failed>>

\* A coverage bound, not parser behaviour: no path is emitted.
WalkPruned ==
  /\ Walking
  /\ ~ WalkTooDeep
  /\ UnrolledEnough
  /\ Continue(<<>>)
  /\ UNCHANGED <<ir, paths, reached, attempted, feasible, failed>>

\* The state's fields, as (instance, field) work items.
ItemsOf(extracts) ==
  FlattenSeq([i \in DOMAIN extracts |->
    [j \in DOMAIN ir.types[extracts[i].type] |->
      [inst |-> Instance(extracts[i]), field |-> ir.types[extracts[i].type][j]]]])

WalkState ==
  /\ Walking
  /\ ~ WalkTooDeep
  /\ ~ UnrolledEnough
  /\ reached' = reached \cup {Frame.state}
  /\ Continue(<<[WalkedInto EXCEPT !.at = "items", !.items = ItemsOf(ir.states[Frame.state].extracts),
                   !.counts = [s \in DOMAIN @ |-> IF s = Frame.state THEN @[s] + 1 ELSE @[s]]]>>)
  /\ UNCHANGED <<ir, paths, attempted, feasible, failed>>

(***************************************************************************)
(* walk_extracts.                                                          *)
(***************************************************************************)
Item == Head(Frame.items)
LayingOut(width) ==
  /\ frames # <<>> /\ Frame.at = "items" /\ Frame.items # <<>>
  /\ Item.field.width = width

Cut == Append(Frame.segments, <<"!trunc", Item.inst, Item.field.name>>)
OutOfRange == Append(Frame.segments, <<"!oob", Item.inst, Item.field.name>>)

\* Mutant: one bit more.
OneBitShortNot(n) == n

\* The packet ends one bit before the end of the field.
OneBitShort(n) == n - 1

ReadInto(env, key, bits) ==
  [k \in DOMAIN env \cup {key} |-> IF k = key THEN bits ELSE env[k]]

CutOff(width, packets) == PathOf(Cut, "truncation", "out of bounds", width, packets)
Refused(packets) == PathOf(OutOfRange, "reject", "out of bounds", Frame.width, packets)

\* The frame with its first item laid out.
LaidOut(placed, width, worlds) ==
  [Frame EXCEPT !.items = Tail(@), !.placed = placed, !.width = width, !.worlds = worlds]

\* The worlds with the next n bits read, and the packets that end before.
WithBits(w, key, b) == [bits |-> w.bits \o b, env |-> ReadInto(w.env, key, b)]
Read(n, key) == {WithBits(w, key, b) : w \in Frame.worlds, b \in [1 .. n -> Bit]}
CutShort(n) == {w.bits \o Zeros(OneBitShort(n)) : w \in Frame.worlds}

\* The truncation is emitted and the field laid out without a check.
WalkBits ==
  /\ LayingOut("bits")
  /\ LET n == Item.field.n
         key == <<Item.inst, Item.field.name>>
     IN  /\ Emit({CutOff(Frame.width + n, CutShort(n))})
         /\ Continue(<<LaidOut(Frame.placed \cup {key}, Frame.width + n, Read(n, key))>>)
  /\ UNCHANGED <<ir, reached, attempted, feasible, failed>>

LayingOutBody == LayingOut("bytes") /\ Placeable(Item.field.n, Frame)
BodyBound == BoundBytes(Item.field.n)
BodyBits(w) == ByteBits * TermValue(Item.field.n, w.env)
WorldsWithin(lo, hi) == {w \in Frame.worlds : TermValue(Item.field.n, w.env) \in lo .. hi}

\* Mutant: the lengths beyond the bound stay in the continue world.
InBoundAll == Frame.worlds

InBound == WorldsWithin(0, BodyBound)

\* The worlds with the body read over, and the packets that end in it.
ReadOver(worlds) == {[w EXCEPT !.bits = @ \o Zeros(BodyBits(w))] : w \in worlds}
BodyCutShort(worlds) == {w.bits \o Zeros(OneBitShort(BodyBits(w))) : w \in worlds}

\* Out of bounds and body truncation are checked; the third way, over the
\* body, is taken unchecked.
WalkBody ==
  /\ LayingOutBody
  /\ ExprRange(Item.field.n) # NoRange
  /\ LET beyond == Refused(PrefixesOf(WorldsWithin(BodyBound + 1, 2^WordBits - 1)))
         widest == Frame.width + ByteBits * BodyBound
         cutBody == CutOff(widest, BodyCutShort(WorldsWithin(1, BodyBound)))
     IN  /\ Emit({p \in {beyond, cutBody} : Sat(p.packets)})
         /\ Continue(<<LaidOut(Frame.placed, widest, ReadOver(InBound))>>)
  /\ UNCHANGED <<ir, reached, attempted, feasible, failed>>

WalkBodyFails ==
  /\ LayingOut("bytes")
  /\ ~ Placeable(Item.field.n, Frame) \/ ExprRange(Item.field.n) = NoRange
  /\ EBail

(***************************************************************************)
(* walk_transition and walk_target.                                        *)
(***************************************************************************)
WalkTrans == ir.states[Frame.state].trans
Choosing(kind) ==
  /\ frames # <<>> /\ Frame.at = "items" /\ Frame.items = <<>>
  /\ WalkTrans.kind = kind

\* What walk_target makes of a frame: a frame to go on with, or a path.  Only
\* the default of a select may be absent.
Onward(target, frame) ==
  IF target.kind = "state" THEN <<[frame EXCEPT !.at = "state", !.state = target.to]>> ELSE <<>>
Outcome(target, frame) ==
  CASE target.kind = "accept" -> {Ending(frame, "accept", "")}
    [] target.kind = "reject" -> {Ending(frame, "reject", target.to)}
    [] target.kind = "absent" -> {Ending(frame, "reject", "no matching select arm")}
    [] OTHER -> {}

WalkDirect ==
  /\ Choosing("direct")
  /\ WalkTrans.default.kind # "empty"
  /\ Emit(Outcome(WalkTrans.default, Frame))
  /\ Continue(Onward(WalkTrans.default, Frame))
  /\ UNCHANGED <<ir, reached, attempted, feasible, failed>>

WalkDirectFails ==
  /\ Choosing("none") \/ (Choosing("direct") /\ WalkTrans.default.kind = "empty")
  /\ EBail

KeysOf(w) == [k \in DOMAIN WalkTrans.keys |-> TermValue(WalkTrans.keys[k], w.env)]
KeysPlaceable == \A k \in DOMAIN WalkTrans.keys : Placeable(WalkTrans.keys[k], Frame)

\* entry_constraint of each entry, as far as there are keys (zip).
ArmHolds(i, w) ==
  \A k \in DOMAIN WalkTrans.arms[i].entries \cap DOMAIN WalkTrans.keys :
    EvalEntry(WalkTrans.arms[i].entries[k], KeysOf(w)[k])

\* Mutant: the arms before it are not negated.
TakesArmAlone(i, w) == ArmHolds(i, w)

\* Mutant: the arms after it are negated too.
TakesArmOnly(i, w) == ArmHolds(i, w) /\ \A j \in DOMAIN WalkTrans.arms \ {i} : ~ ArmHolds(j, w)

\* arm i and none before it.
TakesArm(i, w) == ArmHolds(i, w) /\ \A j \in 1 .. i - 1 : ~ ArmHolds(j, w)

\* The frame below a branch of the select; its guard holds in every world.
Branch(segment, worlds) ==
  [Frame EXCEPT !.segments = Append(@, segment), !.worlds = worlds]
ArmFrame(i) == Branch(<<"arm", i>>, {w \in Frame.worlds : TakesArm(i, w)})
DefaultFrame == Branch(<<"default">>, {w \in Frame.worlds : \A j \in DOMAIN WalkTrans.arms : ~ ArmHolds(j, w)})

\* The branches with their targets, the default last.
BranchFrames == Append([i \in DOMAIN WalkTrans.arms |-> ArmFrame(i)], DefaultFrame)
BranchTargets == Append([i \in DOMAIN WalkTrans.arms |-> WalkTrans.arms[i].next], WalkTrans.default)

\* Where a branch may go: an arm needs a target, and a target that is there has
\* to be set.
Leads(k) ==
  /\ BranchTargets[k].kind # "empty"
  /\ k \in DOMAIN WalkTrans.arms => BranchTargets[k].kind # "absent"

WalkSelect ==
  /\ Choosing("select")
  /\ KeysPlaceable
  /\ LET arms == DOMAIN WalkTrans.arms
         below == BranchFrames
         open == {k \in DOMAIN below : Sat(below[k].worlds)}
     IN  /\ \A k \in open : Leads(k)
         /\ attempted' = attempted \cup {<<Frame.state, i>> : i \in arms}
         /\ feasible' = feasible \cup {<<Frame.state, i>> : i \in arms \cap open}
         /\ Emit(UNION {Outcome(BranchTargets[k], below[k]) : k \in open})
         /\ Continue(FlattenSeq([k \in DOMAIN below |->
              IF k \in open THEN Onward(BranchTargets[k], below[k]) ELSE <<>>]))
  /\ UNCHANGED <<ir, reached, failed>>

\* A branch that leads nowhere fails the enumeration only if a packet takes it.
\* The code first walks the branches before it: Err drops what they left.
WalkSelectFails ==
  /\ Choosing("select")
  /\ KeysPlaceable => \E k \in DOMAIN BranchFrames : Sat(BranchFrames[k].worlds) /\ ~ Leads(k)
  /\ EBail

(***************************************************************************)
(* The specification.                                                      *)
(***************************************************************************)
EInit ==
  /\ ir \in Irs
  /\ frames = <<StartFrame>>
  /\ paths = {}
  /\ reached = {}
  /\ attempted = {}
  /\ feasible = {}
  /\ failed = FALSE

Walk ==
  \/ WalkBeyondDepth \/ WalkPruned \/ WalkState
  \/ WalkBits \/ WalkBody \/ WalkBodyFails
  \/ WalkDirect \/ WalkDirectFails \/ WalkSelect \/ WalkSelectFails

(***************************************************************************)
(* Properties.                                                             *)
(***************************************************************************)

\* The width budget is enough: no layout of a frame is wider than its
\* cursor_max, and no packet of a path than the path's width, whatever the
\* lengths on the way (solver.rs:20-24, 53-55: "every read fits").
WithinWidth ==
  /\ \A i \in DOMAIN frames : \A w \in frames[i].worlds : Len(w.bits) <= frames[i].width
  /\ \A p \in paths : \A k \in p.packets : Len(k) <= p.width

\* No packet is on two paths: whatever selects, bounds, cuts and loops lie
\* between them, their guards exclude each other.  Nor have two paths one name
\* ("IDs unique and sorted", testgen.rs:165), as long as the name of a cut,
\* which is of an instance and a field, says which extraction of the state it is.
PathsAreDisjoint ==
  \A p, q \in paths : p # q =>
    /\ p.packets \cap q.packets = {}
    /\ OncePerState => p.id # q.id

\* The expressions a length is computed from.
PartsOf(e) ==
  LET parts[i \in 0 .. Len(ir.exprs)] ==
        IF i = 0 THEN {} ELSE {i} \cup IF ir.exprs[i].op \in BinOps
                                      THEN parts[ir.exprs[i].l] \cup parts[ir.exprs[i].r] ELSE {}
  IN  parts[e]
LengthExprs == UNION {{f.n : f \in {g \in ToSet(ir.types[t]) : g.width = "bytes"}} : t \in DOMAIN ir.types}
LengthsStayInBounds ==
  \A e \in LengthExprs :
    /\ ExprRange(e) # NoRange /\ ExprRange(e).hi <= MinOf2(SanityBytes, 2^WordBits - 1)
    /\ \A i \in PartsOf(e) : ir.exprs[i].op # "sub"

\* Every path the engine emits is that of some packet, the claim behind "engine
\* bug: enumerated path is UNSAT" (testgen.rs:32), wherever no length can leave
\* the interval the engine bounds it by: then the way over a body needs no check
\* of its own, and no select, loop or second body after it emits a path without
\* a packet.
NoPathIsEmptyIfBounded == LengthsStayInBounds => \A p \in paths : p.packets # {}
================================================================================
