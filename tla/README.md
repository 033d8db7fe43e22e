# Pakeles in TLA+

Pakeles describes wire-format parsers in one serializable IR
(`proto/pakeles/ir/v1alpha1/ir.proto`) and derives everything else from it: a
reference interpreter, a C99 parser and its eBPF variant, a Wireshark dissector
in Lua, a P4 program, test vectors, coverage and lint reports found by symbolic
execution, and oracles that compare all of them with the interpreter. "What this
module does *is* what an IR description means" (`src/interp/mod.rs:1-2`), so the
project starts from the interpreter, states what it promises, and measures the
other parts against that.

Paths below are relative to the repository root. The crate is in `src/`.

## 1. The system

| Component | State | Operations | Talks to |
|---|---|---|---|
| IR schema, `ir/mod.rs` | none (messages) | read and write JSON | everything takes an `Ir` |
| Interpreter, `interp/` | cursor, depth, current state, environment, headers and trace of one call | `run`, `run_bits` | called by CLI, engine, oracles, all differential tests |
| Validation, `ir/validate.rs` | error list; must-extracted set per state | `validate` | gate in front of every consumer (`cli.rs:166`) |
| C generator, `codegen/c.rs` | none; the emitted parser has offset, state, depth and the result struct | `generate_c`, `generate_bpf` | compared with the interpreter on all vectors |
| Lua generator, `codegen/lua.rs` | worklist of alignments; the dissector has a bit cursor, a depth and locals per state function | `generate_lua` | run by tshark, compared with the interpreter |
| P4 generator, `codegen/p4.rs` | none; the program has headers, stacks and metadata | `generate_p4` | bmv2 oracle |
| Symbolic engine, `symex/engine.rs` | frames (constraints, cursor, depth, loop counts), log of attempted and feasible arms, paths | `enumerate` | solver; used by testgen, lint, cov |
| Path ids, testgen, lint, cov, `symex/` | none | `path_id`, `testgen`, `lint`, `coverage` | compare engine paths with interpreter runs |
| Oracles, `oracle/` | a child process and its capture file | `run_batch`, `expected`, tshark and kernel comparisons | external programs |
| Vectors, `testvec.rs` | none | bit strings in canonical bytes | all differential tests |
| CLI, `cli.rs` | none | load, validate, call one component, print | everything |
| Builder, examples, viz, docgen, pcap, Python | none | construct, draw, print | IR |

Everything runs on its caller's thread; there is no shared state between calls.
The hard behaviours are therefore not races but long sequences: loops in a
description that extract the same instance again and again, packets that end at
any bit of any field, lengths that wrap, arms that overlap, references whose
validity depends on the path, a fixpoint over cyclic graphs, and four backends
that re-implement one semantics in languages with other arithmetic. The one
place with true concurrency is the bmv2 oracle, which polls a capture file while
the switch writes it.

What makes each part correct:

* interpreter: the reported fields tile the packet; expressions see what the
  result reports; the forensics of a cut packet are exact; the trace is the path
  taken; unread bits do not matter; it always returns.
* validation: definite extraction is exactly the meet over all paths; it ends;
  what it accepts does not make the interpreter fail.
* emitted parsers: they refine the same abstract parser as the interpreter.
* engine and its users: every path has a witness that the interpreter takes,
  every interpreter run has a path, lint says "unreachable" only of the unreachable.
* oracles: a verdict belongs to the packet it is reported for.

## 2. Modules

```
PakelesIR ─┬─ GivenIr ─┬─ Interp ───┬─ InterpRefines ─┬─ MCInterp
           │           │            │                 └─ InterpProofs (with DataProofs)
           │           │            ├─ TwoRuns ──────┬─ MCTwoRuns
           │           │            │                └─ TwoRunsProofs (with InterpProofs, DataProofs)
           │           │            └─ TsharkDiff ───── MCTsharkDiff
           │           ├─ Validate ─── LoadAndRun (with Interp) ─┬─ MCLoadAndRun
           │           │                                         └─ LoadAndRunProofs (with InterpProofs, DataProofs)
           │           ├─ CParse ───┬─ CRefines ─┬─ MCCParse
           │           │            │            └─ CParseProofs (with DataProofs)
           │           │            └─ BpfEntry ──── MCCParse
           │           └─ IrAnalysis ─┬─ SymEngine ── Testgen (with Interp) ─┬─ MCTestgen
           │                          │                                      └─ EngineProofs (with DataProofs)
           │                          ├─ P4Parse ── P4Diff (with Interp) ──────┬─ Backends ─┬─ MCBackends
           │                          └─ LuaAlign ── LuaDissect ── LuaDiff     │            └─ LuaProofs (with
           │                             (with WireFields)     (with Interp) ──┘                InterpProofs)
           ├─ DataProofs (used by all proofs but Bmv2Proofs)
           ├─ WireFields ── WireParse (instance in InterpRefines, CRefines)
           ├─ SampleIrs ─── EngineIrs (descriptions for the MC modules)
           └─ FlowIr ────── FlowKeys (with Interp) ── MCFlowKeys
Bmv2Poll ─┬─ MCBmv2Poll             TestSuite ── MCTestSuite
          └─ Bmv2Proofs
```

**PakelesIR** is the message schema and the two pure evaluators everyone shares,
`eval_expr` and `eval_entry`. An expression tree is a position in a table whose
operands come before their operators, so that evaluation is a recursive function
and not a RECURSIVE operator; `IsIr` says so. A `oneof` is a `kind`; the unset
oneofs the Rust code handles (`None => bail!`) have kinds of their own. Words have
`WordBits` bits and wrap; bytes have `ByteBits` bits. **GivenIr** declares the
description a component is given, `ir`, one of `Irs`; the components share it, so
that they can be composed by EXTENDS.

**Interp** is `run_bits`. Its three nested loops are unrolled into one action per
iteration, and every early return is an action.

| Code | Actions |
|---|---|
| top of the loop, 160-178 | `EnterState`, `DepthExceeded`, `UnknownState` |
| `for ex in &state.extracts`, 180-194, 270 | `BeginHeader`, `UnknownHeaderType`, `EndHeader` |
| `Width::Bits`, 202-228 | `ReadBits`, `ReadBitsOutOfBounds` |
| `Width::ByteLen`, 229-267 | `ReadBytes`, `ReadBytesOutOfBounds`, `ReadBytesBails` |
| no width, 196-200 | `FieldWithoutWidth` |
| transition, 273-346 | `Direct`, `TakeArm`, `TakeDefault`, `NoMatchingArm`, `TransitionBails` |

`Ok(ParseResult)` is `result` with outcome accept or reject, `Err` is outcome `err`
(the headers and trace are dropped in the code; the model keeps the variables and
its properties do not look at them then). A field keeps the bits it was read from;
`Uint` is the number the code shifts them into. `checked_mul`/`checked_add` and the
comparison with `avail_bits` are one comparison of unbounded numbers, which is what
the checked forms compute.

**WireParse** is the abstract specification: visit a state, take its flat list of
fields (`WireFields`) off the packet, leave for the selected state or stop with a
verdict, or with an error where the description does not say how to go on. It has no headers, traces, structs or offsets of its own; it is the
conformance surface of the differential tests (verdict, reason, consumed bits,
last values).

**InterpRefines** and **CRefines** give the refinement mappings. In both the
steps that begin or end a header, or set a presence flag, are stuttering.

**CParse** is the C that `codegen/c.rs` emits: a `for` over depth, a `switch` over
states, `uint64_t` arithmetic, a zeroed result struct, reason codes. A shift count
of the word size or more is undefined in C: `COp` gives both results a build
produces (masked by the machine, zero when folded). `Generates` is what generation
refuses.

**Validate** is `validate`: `StructuralErrors` collects the checks of lines 13-217 in
one step (they change nothing but the error list), then the sweeps of
`definite_extraction_errors` go one state at a time in listing order, and
`CheckUses` looks at every use.

**IrAnalysis** holds what several generators ask of a description: which states lie on a
cycle, the order of instances, and `expr_range`, the interval of a length.

**SymEngine** is `enumerate`. A frame of the code carries constraints on a symbolic
packet; a frame of the model carries what they mean, its *worlds*: the packet prefixes
that satisfy them, with the values of their fields. `check` is "some world is left" and
the symbolic cursor is the length of a prefix. The recursion `walk_state`, `walk_extracts`,
`walk_transition`, `walk_target` is a stack of frames, one action per call and way to
return. `TermValue` has the solver's arithmetic, which is not the interpreter's for
shifts. An arm or a select without a target makes the code bail on the frames that get there
(`WalkSelectFails`, `WalkDirectFails`), and only on those. **Testgen** puts an interpreter run behind it: `vector_for` on a minimal witness
of a path, `coverage` of a captured packet with `path_id`, and `lint` from the log.

**TestSuite** is the life of a vector after that: the solver's model becomes bytes
(`model_packet`), bytes and a bit length become a wire form, the file is edited, and
`replay` and `suite_to_packets` read it. What a run returns is the constant operator
`Result`, since nothing here depends on more than that it is a function of the bits.

**P4Parse** is the P4 program and its verdict, as BMv2 runs it: headers cut in segments
that are extracted whole or not at all, stacks for instances on cycles, varbits with a maximum
from `expr_range`, `select` with the shift semantics of P4. `GeneratesP4` is what
generation refuses, `Compiles` what p4c does. **P4Diff** computes `expected` from the
interpreter's run and compares.

**Bmv2Poll** is `run_batch`: callers that take `SWITCH_LOCK`, spawn a switch per chunk
with padding behind it, and poll the capture. `Forward`, `WritePart` and `WriteFrame` are the
switch: it keeps any number of frames in its buffer, writes in pieces, so that a read
may find a torn frame, and may stop for ever. `Starve` lets time pass without it. Time is the number
of sleeps since the spawn and since the last progress. The process is a state of its own (`child`):
`Kill` sends the signal, `Die` is its arrival, and only `Wait` on the normal way out reaps what is left. The error return
(180-182) has the first and not the last (`KillOnError`), and frees the lock at once.

**LuaAlign** is the worklist of `entry_alignments`. **LuaDissect** is the emitted
dissector on a frame, one action per field, arm and way out of a state function; an
operation on nil raises, an equality with nil is false. A transition or an arm without a target
is refused by the generator wherever it is (`GeneratesLua`). **LuaDiff** compares it with the
interpreter as the conformance test of `lua.rs` does.

**Backends** puts one description and one frame through both conformance tests: the alignment
worklist of the generator, then the interpreter, the P4 parser and the Lua dissector. They
share nothing but the description and the frame, so every interleaving of them ends as this one order does.

**FlowIr** is the graph of the `linux_flow_dissector` example with the fields its keys
need. **FlowKeys** is `project`, and, external, the kernel's programs as the example's
Python source and README describe them: they update their keys along the way, while
`project` looks at the finished parse. The kernel also dissects what the description does not:
a fragment of an IPv4 packet ends in `BPF_OK` with zero ports (`KIp`), ICMP and UDP-Lite are accepted
(`KIcmp`, `KUdp`), and of an encapsulated packet (`KEncap`) both verdicts are possible.

**TsharkDiff** is `diff_pcap` with a tshark that shows what is in the packets but for
at most one change. **BpfEntry** is `pk_entry` around CParse: the length in front of the packet
and the verdict packed into a word of `ReturnBits` bits, with lanes of `LaneBits` for outcome and reason.

**LoadAndRun** composes Validate and Interp as the CLI does: a description is
run only when validation had no complaint. **TwoRuns** runs the interpreter twice
with packets that share a prefix, as the CLI's packet loop and the truncation
vectors do.

### Mutants

A definition marked "Mutant" is a plausible bug in the definition below it, for
example a first-match turned into a last-match. No specification uses one. For
every property of a passing run there is one whose substitution makes TLC find the
property violated, under the same configuration; `PROJECT.json` pairs them. They show that
the properties can fail on the instances they are checked on.

## 3. Runs

The parser runs use two-bit bytes and four-bit words, and every packet of up to
`MaxBits` bits, from the empty one on. With these sizes a field of a few bits
crosses byte boundaries, a variable length of two bytes is four bits, the IPv4
idiom `n * 2 - 1` wraps, and the wrapped length in bits exceeds a word again, so
each boundary of the code is reached by packets TLC can enumerate completely.

| Run | Instance | Bound | Shows |
|---|---|---|---|
| `interp` | the good descriptions, 8 bad ones, a misaligned one | 7 bits | `TilesPacket`, `EnvIsLastRead`, `ForensicsExact`, `TraceIsPath`; `PromiseKept`: the interpreter implements WireParse |
| `two_runs` | the good ones, bad ones, a misaligned one | two packets of up to 5 bits | `TypeOK`, `Terminates`, `TailIsIgnored`, `TruncationIsCaught` |
| `cparse` | the good ones and one with 16 authored reasons | 7 bits, 13-bit return word with lanes of 5 | `OffsetsWithinBuffer`, `PresentIsComplete`, `NativeArithmetic`, `VerdictUnpacksIfFew`; `PromiseKept`: the emitted C implements WireParse |
| `c_shift` | `WideShift` | 4 bits | finding: see section 6 |
| `load_and_run` | 144 two-state and 1500 three-state graphs, and all samples | 4 bits | `MeetOverPaths`, `VTerminates`, `DefinitelyExtracted`, `NeverBailsIfClosed` |
| `load_confused` | `Confused` | 4 bits | finding: see section 6 |
| `testgen` | the good ones, 150 two-state loops, 4 special ones, 7 with a target or the transition unset | 2 unrollings, bodies to 4 bytes, captures of 6 bits | `WithinWidth`, `PathsAreDisjoint`, `NoPathIsEmptyIfBounded`, `WitnessTakesItsPath`, `PacketIsCoveredIfUnrolled`, `LintIsSoundIfUnrolled` |
| `backends` | the good ones, 150 loops at two depths, 500 three-state graphs, 6 special ones, 6 with a target unset | 3 bytes, 8-bit words | `VerdictsAgreeOtherwise`, `SameParse`, `AlignmentExact`, `AlignTerminates`, `DissectionAgrees`, `NeverMisaligned` |
| `bmv2_poll` | 2 callers, a batch of 3 and one of a short frame | chunks of 2, 1 dummy, stall 1, cap 2 | `VerdictsBelong`, `OneSwitchUnlessFailed`, `EverySwitchEnds`, `BatchReturns` |
| `flow_keys` | the flow dissector description | 2 bytes behind 29 link headers, every IPv4 header with up to 3 bytes behind it, chains of 3 options | `KeysAgree` |
| `test_suite` | suites of 2 vectors, models of up to 3 bits, 92 edits | 2-bit bytes and words | `TermsReadFields`, `WrittenIsCanonical`, `ReplayIsExact`, `BackendsSeeWhatWasReplayed` |
| `tshark_diff` | `Mini`, `Ihl`, `Stack`, one that fails | captures of 2 frames of up to 2 bytes | `ReportIsExact` |

The good descriptions (`SampleIrs`) are the shapes the repository's tests and
examples use: a tagged header with an info reject (`Mini`), a loop that reads
nothing (`Spin`), the IPv4 options length (`Ihl`), a stack with overlapping arms and
no default (`Stack`), options in a loop with their own lengths (`Options`), and
every operator with lengths from another state (`Ops`). Seven bits suffice for a
third iteration of each loop to be complete and for another to be cut at each of
its bits. Depth 3 lets a loop be cut by the depth bound before and after the packet
ends. The bad ones have one defect each. The families in
`MCLoadAndRun` take all combinations of a few extractions and
transitions over two and three states, with cycles and dead states, listed in an
order that needs several sweeps; those of three states are there for the sweeps, and are run
over two packets that take different arms. The graphs in `MCBackends` enter
states at every bit of a byte, on cycles and along several paths at once.

CHECK_DEADLOCK is on everywhere: a returned call is a self-loop (`Returned`), so a
deadlock would be a state in which no branch of the code applies.

Some runs have sizes of their own. P4 and Lua are fed whole bytes, so they have
eight-bit words, in which no length of up to three bytes wraps by accident and the halved
`bit<32>` and `bit32` still have four bits. Flow keys need ports and options to be numbers of
their own, hence four-bit bytes. The return word of
`cparse` has 13 bits for 64 and lanes of 5 for 8, so that it holds a count that the packets fit, and 16 authored
reasons fill the reason's lane to the last code. The numbers of `bmv2_poll` are
the smallest with a second, incomplete chunk, a dummy that must not be decoded, and a
poll after progress that is past the cap and not past the stall.

**Fairness.** Interp, CParse and Validate, the compositions LoadAndRun, TwoRuns and BpfEntry, Testgen,
and the alignment worklist in Backends assume weak fairness of the steps of the code (`WF` of `Step`,
of `Load \/ Run`, of `FirstOrSecond \/ CallAgain`, and so on). The code is a function that runs on its
caller's thread, waits for nothing and holds no lock: it takes its next step when it
can. Nothing weaker is justified by it and nothing stronger is assumed. `Spec` of Bmv2Poll has
weak fairness of each caller's steps and of `Die`, since SIGKILL cannot be caught and ends a process. It has nothing of
what the switch does until then, nor of the lock: a mutex that is released is taken by someone, and
every caller's wait is bounded, so weak fairness is enough for `BatchReturns` and `EverySwitchEnds`. Of FlowKeys,
TestSuite and TsharkDiff only safety is checked, and their specifications have no fairness.

**Bounds** are in the packets (`MaxBits`, `MaxBytes`) and the descriptions; parser actions
have no bounding guard, since every run ends by `max_depth`. `SanityBytes`, `LoopUnroll`, `Stall`,
`HardCap`, `ChunkSize` and `FlushPad` are constants of the code. `MaxWidth` and `MaxVectors` bound
the models and vectors of TestSuite.

## 4. Properties worth a comment

* `TilesPacket` relates three records of the same thing: field offsets and bits, header
  starts, and the cursor. It also says that a failing read consumed nothing.
* `EnvIsLastRead` is the coherence of the environment with the header list: the C
  and P4 backends keep *only* the last values, the interpreter looks only at the
  environment, and the differential tests compare with the header list.
* `PromiseKept` of Interp covers errors too: `Err` comes where WireParse has no way on, and nowhere else.
  That of CParse is checked on descriptions that are accepted, so the two parsers agree on them.
* `ForensicsExact` states that at most the last header is incomplete, and that then
  the packet really ends inside the field the error names.
* `MeetOverPaths` compares the sweeps with a definition by reachability
  (`EnteredWithout`: the least set of states enterable without the instance), which shares
  nothing with the algorithm. It covers two facts that are proved but have no run of their own:
  `NeverTooNarrow`, the half of it that holds at every moment of the sweeps, and `FixpointSolves`.
* `DefinitelyExtracted` is the soundness of the analysis against the interpreter:
  for each instance counted as available, a *complete* header is there.
* `TruncationIsCaught` is what testgen relies on when it cuts a witness one bit
  before a field's end and expects "out of bounds"; read with the calls exchanged, it says that
  more bits only continue a cut parse. `TailIsIgnored` is why a packet may be padded.
* `PathsAreDisjoint` and `PacketIsCoveredIfUnrolled` together say that the engine's paths
  partition the packets, up to the unrolling; `WitnessTakesItsPath` that each part is what its
  name says. They compare segments that `engine.rs` and `pathid.rs` build independently.
  The part about names needs states that extract an instance once (`OncePerState`).
* `NoPathIsEmptyIfBounded` and `LintIsSoundIfUnrolled` state what *is* true beside the exceptions of
  section 6. The former has the condition under which the unchecked way over a body is right.
* `VerdictsAgreeOtherwise` is the oracle's claim minus the three exceptions that `TooDeep`, `CutAgain` and
  `EntriesHaveKinds` name; `SameParse` compares what the verdict does not show.
* `VerdictsBelong` has to hold across chunks and give-ups, because `out.extend` relies on each
  chunk returning exactly its length.
* `OneSwitchUnlessFailed` is the comment of `SWITCH_LOCK` (`bmv2.rs:69-70`) as far as the error return lets it be true (section 6);
  `EverySwitchEnds` is that the switch, which never exits by itself (`bmv2.rs:138`), is ended on every way out.
* `AlignmentExact` compares the worklist with residues along paths (`Residues`), by reachability.
* `DissectionAgrees` is a comparison of whole trees and verdicts, for descriptions whose selects
  look at their own state (`NilIsLoud`) and whose numbers do not overflow (`NumbersAgree`). Where Lua raises an error, what was
  shown before has to be a beginning of the right tree.
* `KeysAgree` relates a bookkeeping along the chain to one after the fact: which of several tags
  decides, what the options leave as the protocol, whether a fragment still has ports. It also says that the divergences
  the example's README lists as outside its scope (`examples/linux_flow_dissector/README.md:71-100`) are the only ones: IPv4
  fragments, protocols beyond TCP and UDP, chains beyond `max_depth`. Each of them happens in the run.
* `ReplayIsExact` says what a green suite means: canonical packets with the recorded results, and
  nothing about packets changed into others with the same result.
* `OffsetsWithinBuffer` is the comment "off <= bit_len holds here"
  (`codegen/c.rs:387-388`), which the division form of the length test needs.

## 5. Proofs

Every theorem is of the whole specification and for all values of the constants that the named
assumptions allow: every set of descriptions with `IsIr`, every set of packets, every word and byte
size, every number of callers. The hard part is seldom the property and nearly always
what has to be added to make it inductive; that is named here for each.

**Interpreter** (`InterpProofs`).

* `TypeCorrect`: `Spec => []TypeOK`.
* `TraceCorrect`: `Spec => []TraceIsPath`. The property says nothing
  of the state the run is *about to* enter. `PathInv` adds that, while the run is in a
  state, that state is the last of the trace and undecided, and when it is about
  to enter one, the last decision leads to it; depth is at most `max_depth` inside a
  state.
* `TilingCorrect`: `Spec => []TilesPacket`. `TileInv` states the tiling of the
  finished headers and of the one under construction separately, and that the
  cursor is the end of the latter; a lemma says that appending a contiguous header that
  starts where the last one ended keeps a tiling.
* `EnvironmentCorrect`: `Spec => []EnvIsLastRead`. `EnvInv` speaks of the headers with the one under
  construction added, and names a read by its place in that list, so that "the last one for its
  key" is a comparison of places instead of a maximum over a set. A read that ends a header moves to
  another list without changing its place.
* `ForensicsCorrect`: `Spec => []ForensicsExact`. `ReportInv` adds that before the run has returned
  all finished headers are full and nothing is reported.

**Interpreter against the abstract parser** (the last part of `InterpProofs`). `InterpImplements`: the safety part of
`PromiseKept`; its first states are WireParse's, and each step is one of WireParse's or leaves its variables
alone. WireParse takes fields off one flat list, the interpreter walks extracts and their fields, so
the argument is about what is left to take (`Unread`): reading a field takes the head of it off, beginning and ending a header
leave it alone. It needs `TypeOK` and `PathInv` and the unfolding of `FlattenSeq`.

**Two calls** (`TwoRunsProofs`).

* `TailsIgnored`: `TSpec => []TailIsIgnored`; `TruncationCaught`: `TSpec => []TruncationIsCaught`. TwoRuns keeps only
  what the first call returned, and no relation between that and the second call in its middle is inductive: the second is compared
  with moments the first has long left. So the call is first shown to be a function: `Follows` gives the moment after each moment
  from the description and the bits asked for, and every action of Interp is an instance of it. `PresentInv` and `PastInv`
  then say that *there are* moments from the first to the present one, and to the one the first call ended in. Two such
  sequences are equal as long as neither lacks a bit (`SameMoments`, by induction over the moments), since the bits taken on the way are bits
  consumed in the end (`Grew`). With enough bits they end alike (`SameEnd`); with fewer the second is cut at a moment of the first
  (`CutOnTheWay`), whose states and headers only grew afterwards.

**Validation** (the first part of `LoadAndRunProofs`).

* `ValidateTyped`: `VSpec => []VTypeOK`.
* `SweepsSolve`: `VSpec => []FixpointSolves`. `SweepInv` makes it inductive: only accepted
  descriptions are analysed, so that every successor is a state; nothing is certain at the start;
  and a sweep that has changed nothing so far found each state it visited settled. When
  it ends unchanged, it has visited all states.
* `SweepsNeverTooNarrow`: `VSpec => []NeverTooNarrow`, by contraposition: an instance
  leaves a set only if a predecessor is enterable without it and does not extract it.
* `SweepsComputeMeet`: `VSpec => []MeetOverPaths`, from the two: the states whose set lacks an
  instance are closed under going on without extracting it, so they include all
  that are enterable without it.

**Both, as the CLI composes them** (`LoadAndRunProofs`). Steps of the composition are steps of its parts
(`PartsStep`), so the invariants of Interp and Validate hold of it.

* `AnalysisSound`: `LSpec => []DefinitelyExtracted`, the analysis
  of validate.rs is sound for the interpreter. `CertainInv` states the property also for
  the moment before a state is entered, and that the header under construction is the one
  the state's next extract names; on a transition it uses that the final sets solve the
  inequations.
* `NeverBails`: `LSpec => []NeverBailsIfClosed`. The theorem that joins everything: a bail needs a
  reference that is not in the environment, and validation, the analysis, `EnvInv` and the types exclude it one after
  the other. `CleanInv` adds that headers are made of extracts of the description and of their type's fields in order (`ShapeInv`), and
  that, where lengths occur, the cursor is off a byte boundary by the fixed-width fields of the header under construction at
  most (`AlignedInv`). `Closed` is the condition of the property
  itself (section 6, `load_confused`).

**Emitted C** (`CParseProofs`).

* `CParseTyped`: `Spec => []CTypeOK`. The reason codes are a fold over a set of names; the module first proves
  that it numbers each name once.
* `OffsetsSafe`: `Spec => []OffsetsWithinBuffer`. Typing and this property are proved together with
  `SpansConsumed`, that the spans handed out lie within what was consumed: the division form of the length test is exact only
  for an offset within the buffer, and the offset stays there only if the test is.
* `PresentMembersWritten`: `Spec => []PresentIsComplete`, when every instance is extracted as one type (`OneType`): the
  struct of an instance has the members of one type, and code that fills it from another does not compile
  (section 7). The flag is set *before* the fields are read, so the property is false on the way;
  `WrittenSoFar` exempts exactly the fields the code is getting to.
* `NativeUpToShifts`: `Spec /\ []ShiftsBelowWord /\ []ExprsResolve => []NativeArithmetic`. The property is false in general
  (section 6, `c_shift`); the theorem says that nothing but its two known causes can make it so. By
  induction over the expression table: while both hold, the *set* of values C may compute is the one value of the reference.
* `CImplements`: `Spec /\ []NativeArithmetic /\ []LengthsAligned => PromiseSafe`, the safety part of the refinement of WireParse, with the
  flat list of what is left to take, as for the interpreter. Two hypotheses, for two places where the code differs from the reference on
  descriptions validate accepts: shifts, and a length asked for inside a byte, which the interpreter and WireParse reject as a broken
  description and the emitted C reads all the same. `LoopBounded` is the invariant it needs besides types: depth is below
  `max_depth` inside a case. The hypotheses of both theorems hold in all states of
  `cparse` (TLC, as additional invariants), so that neither is empty.

**bmv2 oracle** (`Bmv2Proofs`), for any callers, batches, chunk size and padding.

* `PollTyped`, `SwitchIsAlone` (`[]OneSwitchUnlessFailed`), `VerdictsAligned` (`[]VerdictsBelong`). `CallerInv` of one caller: it holds
  the lock inside; its switch runs without a kill exactly while it polls, on the chunk that follows what is out already, and there is no process
  between chunks, before a batch and after one that succeeds; what was read is a prefix of what the switch was given. Only the steps
  of a dying switch are left of a batch that failed, and they touch nothing of the callers that hold the lock after it.

**Symbolic engine** (`EngineProofs`), for any description validate accepts, budget of depth, unrolling and bound on bodies.

* `WidthSuffices`: `GSpec => []WithinWidth`; `PathsExclude`: `GSpec => []PathsAreDisjoint`. Both are about what was emitted before, which
  no later step looks at; so `WorldsInv` and `NamesInv` say of the frames that are left what they can still emit. No world of a frame
  begins a world of another, or another of its own, and no packet of a path goes on from a world. With names it is the reverse: the name of a cut does go
  on from the name of the frame that was left behind, which is why the invariant has to know
  which fields are still to be read, and that no state reads one twice (`OncePerState`).
  Every action replaces the first frame by children and adds paths (`Moves`); what it has to provide for that (`WorldsMove`,
  `NamesMove`) is local to the frame, and `WorldsMoved` and `NamesMoved` carry it to the stack.

**Alignments of the Lua generator** (`LuaProofs`), for any description whose states exist and any byte size.

* `AlignmentComputed`: `BSpec => []AlignmentExact`. `WorklistInv`: what the map holds is *founded*, a residue is that of a path
  and a conflict has two paths with different ones (after a conflict the two go on to different residues, which is why a conflict may be passed on); and of a state
  that is not on the worklist the exit has *passed*, each successor has it or is a conflict already. One step merges one exit into a list of successors that
  may contain the state itself, so the merge is followed target by target (`MergeStep`, `MergedAll`). With the worklist empty the entries the map
  allows for are closed, and so contain all that paths have (`MapCovers`). The property computes the paths' residues in as many rounds as there are
  pairs of a state and a residue; that this is enough is a pigeonhole argument on a growing chain of sets (`ChainSettles`, `ResiduesFacts`).
* `CapsSuffice`: `BSpec /\ []Unbroken /\ []ExprsEvaluate => []NeverMisaligned`, what the map is for. The property joins two components that share
  nothing but the description, so the invariant speaks of the interpreter in terms of the generator's map: `VisitInv` says that
  some first k fields of the state are taken, that the cursor is at the residue the map has for the state moved by
  those k (or the map has a conflict), and that each was taken as the instance and field it is (`Taken`). With the fields all taken that
  is the exit, and the next state's entry since the exit has passed (`VisitExits`, `VisitFollows`). The generator looks a field up by its name; that this finds
  the one about to be read needs that none before it has its name, which is where `OncePerState` enters (`BodyAligned`). `Unbroken` is what validate
  checks of types and fields (a missing target is refused by the generator itself), and `ExprsEvaluate` that lengths and keys have values, which `NeverBails` is about. Both hold in all states of
  `backends`, and so does `VisitInv` (TLC, as additional invariants).

**Data** (`DataProofs`). A recursive function is a CHOOSE of a function that satisfies its equation. The library proves
that there is one with theorems that take an operator, which the installed provers cannot
instantiate; here they are stated for *sets* of numbers and step *functions*
(`NatSetInduction`, `StrongSetInduction`, `SetInduction`, `Recursion`, `RankedRecursion`, `SetRecursion`). Induction itself is proved from the library's
pigeonhole principle: if t were out of reach, 0 .. t would map one-to-one into 1 .. t. From them follow
what `Uint`, `EvalExpr` and `FlattenSeq` satisfy for every input, and what the flat list of a state's fields is made of, which both
refinements use. One model definition had to change for it: `ExprRange` could
apply interval arithmetic to the record that stands for an error; `BinRange` passes the error on, as `?` does.

**Assumptions.** `WordBitsAssumption`, `ByteBitsAssumption`, `SizesAssumption`, `SanityAssumption`, `UnrollAssumption`: sizes are natural numbers.
`IrsAssumption` (`IsIr`): descriptions have the schema's types, operands come before operators, a length, a key
and a direct target are there, as the reader of the schema guarantees (`ir/mod.rs`) or as every consumer bails without further effect.
`LaidAssumption` (`Laid`), for the engine, and `AcceptedAssumption` (`Resolves`), for the emitted C: what validate checks, of the descriptions that reach them. `ConnectedAssumption` (`Connected`), for the Lua generator: the start state and all targets are
states, which validate checks too.
`PacketsAssumption`, `BuffersAssumption`, `BatchAssumption`: inputs are bits, buffers fit the address space, packets have a length.
`FreeAssumption`, `NoneAssumption`: the marks for "no one" and "no name"
are no caller and no field.
`NamesAreStrings` and `PowersAssumption`: a literal is a string and a power of two is a positive number, which the provers do not know.
TLC evaluates each of them in a run that extends its module.

**Only model-checked.**

* Liveness (`Terminates`, `VTerminates`, `AlignTerminates`, `BatchReturns`, `EverySwitchEnds` and the
  fairness part of `PromiseKept`), which is out of the provers' reach, as is ENABLED.
* `VerdictUnpacksIfFew`, a fact about sums of bit fields and the number of reasons.
* `WitnessTakesItsPath`, `PacketIsCoveredIfUnrolled`, `LintIsSoundIfUnrolled` and `NoPathIsEmptyIfBounded` of the engine and its users. The last needs that interval
  arithmetic bounds every length, where `shl` wraps in 128 bits and the subtraction has the exception of section 6.
* `DissectionAgrees` of LuaDiff and the properties of TestSuite and TsharkDiff. What is shown, annotated or
  converted there is selected from a list with `SelectSeq`, which the prover cannot expand; TestSuite
  also sums binary digits.
* The properties of P4Diff and FlowKeys, which set two translations of one description side by side.

## 6. Where code and documentation disagree

Two disagreements have a run that ends in a counterexample:

* **`c_shift`**. `codegen/c.rs:8`: "u64 wrapping arithmetic matches reference
  semantics natively". The reference takes shift counts modulo 64
  (`eval.rs:37-38`, `wrapping_shl`); `expr_c` emits `<<` and `>>` with an unchecked
  right operand, which C leaves undefined from 64 on. `validate` accepts such
  expressions. On the descriptions of the repository, which shift by constants
  below the word size at most, `NativeArithmetic` holds (`cparse`).
* **`load_confused`**. `interp/mod.rs:96-97`: "`Err` means the IR itself is malformed; anything
  about the *packet* is a `Reject`". `validate` maps an instance to the type of its
  last extraction in listing order and the analysis tracks instances by name only;
  a description that extracts one instance with two types on two paths is accepted,
  and run fails on the packets that take one path and succeeds on the others.
  `NeverBailsIfClosed` says what closes the gap: one type per instance, a target
  in every arm, complete expressions over fixed-width fields, and variable-length
  fields on byte boundaries whose lengths look back.

The others have no run of their own. Each is marked with the property, or the condition in a
property, that leaves it out, or with the situation, which the properties and descriptions of the runs
leave out. Stated without the exception, or checked on a description made for it, the claim is violated.

* `PathsAreDisjoint`, `OncePerState`. `testgen.rs:165`: "IDs unique and sorted". The segment of a cut names
  instance and field; a state that extracts an instance twice gives two paths one id.
* `NoPathIsEmptyIfBounded`. `testgen.rs:32` calls an unsatisfiable path an "engine bug". The way over
  a variable-length field is not checked (`engine.rs:437`), so paths that no packet takes are emitted
  where a select forces the length to wrap.
* Shifts in the engine. `testgen.rs:37-38`: a mismatch "is a soundness bug in engine or
  interpreter". Shifts by the word size are 0 in a term and masked in the interpreter.
* Intervals of inner expressions. `p4.rs:116-118`: "0 is a sound floor for a bound". Not inside a larger
  expression: `(x - 3) & 2` is 2 for x = 1 while its interval is [0, 0], and lint calls the
  state behind it unreachable.
* `PacketIsCoveredIfUnrolled`. `cov.rs:30` reports a packet with more iterations than the engine unrolls
  as a "divergence".
* `OneSwitchUnlessFailed`. `bmv2.rs:69-70`: "One switch at a time keeps the differential suite deterministic". When a verdict
  does not decode, the way out (`bmv2.rs:180-182`) kills the switch and does not wait for it (195-196 does). The lock is
  free while that switch may still be alive, the next caller starts a second one beside it, and the first stays a zombie.
* Giving up on a torn frame. `bmv2.rs:188-189`: on giving up, "decode the partial chunk; any missing tail
  stays `delivered: false`". A frame torn at that moment makes the whole capture unreadable, and
  the verdicts before it are lost too.
* `CutAgain`. `bmv2.rs:13-16`: a truncated instance is invalid. A stack that was cut in its second
  element is valid by its first.
* `TooDeep`. `p4.rs:14-15`: on a DAG "`max_depth` is vacuous". The interpreter counts depth on
  every graph.
* `EntriesHaveKinds`. `engine.rs:254`: "An empty entry matches nothing". In P4 it is `default`.
* An accept and a reject with one bitmap. `bmv2.rs:256-257`: the bitmap "is what separates reject from accept". A reject
  after the last extraction has the bitmap of an accept, and may have its error.
* `NilIsLoud`. `lua.rs:8`: "Loud caps (generation errors, never silent)". A select on a
  field of another state compares nil and takes the default.
* `NeverMisaligned`, `OncePerState`. The cap on "variable-length fields at non-byte-aligned offsets"
  (`lua.rs:10-11`) looks at the first extraction of a header in the state only.
* `NumbersAgree`. `lua.rs:48-50`: negative lengths match "the reference interpreter's outcome".
  Not when the difference is shifted afterwards: signed in Lua, wrapped in the reference.
* `ReportIsExact`, repeated headers. `oracle/mod.rs:3-4`: "a mismatch means our description (or our semantics) is
  wrong". With a repeated header all repetitions are compared with one layer.
* `VerdictUnpacksIfFew`. `c.rs:608` gives the reason eight bits; the 241st authored reason needs a ninth
  and runs into the outcome.

None of these happens with the descriptions of the repository on the vectors it commits, as
far as the models show: the descriptions of the findings are built for them.

## 7. Not modelled

* Presentation (`Display`, value labels, annotations other than severity), wording
  and order of error messages.
* Duplicate header-type names (the model's header types are a map) and values of the severity
  string other than the two accepted ones.
* `debug_assert!((1..=64).contains(&n))` in `read_bits`: a width of 0 or more than 64
  does not pass `validate`, and the samples have none.
* C object layout: an instance extracted as two types has the struct of the first,
  which need not compile; `Generates` and the samples exclude it.
* Pure I/O and text: the pcap writer, JSON, viz, docgen, fixtures, the CLI's subcommands that call
  one component and print, Python.
* Z3's own search and its timeouts: `check` and models are what satisfiability means.
* Lua beyond integers exact in a double, `ProtoField` declarations and labels, and what Wireshark
  does with an error or with a range at the end of the buffer.
* P4 text other than the parser and the verdict; p4c and BMv2 are external, modelled
  as `bmv2.rs` and `p4.rs` describe them. A header type without fields makes generation panic
  (`p4.rs:522`); `GeneratesP4` leaves it out.
* tshark's text forms of numbers and addresses (`normalize_typed`).
* The kernel flow dissector is external and has default flags; what it does within an encapsulated packet is open, as the repository
  does not say. Addresses, destination port and the golden file are left out.
* How much BMv2 buffers, and so whether `FLUSH_PAD` dummies are enough to push a chunk out: the repository does not say. The model
  lets the switch keep any number of frames, and the caller then gives up with those undelivered.
* Test threads that share a work directory: callers of Bmv2Poll have one each.
* Mangled identifiers of the emitted C, Lua and P4: names are atoms.

## 8. Plan

Done, in this order: PakelesIR, Interp and its runs; WireParse and InterpRefines;
CParse and CRefines; Validate; LoadAndRun; TwoRuns; InterpProofs and
LoadAndRunProofs; SymEngine and Testgen; Bmv2Poll; P4Parse and P4Diff; LuaAlign, LuaDissect and
LuaDiff; Backends; FlowKeys; TestSuite; TsharkDiff; BpfEntry.

Proved after that: OneSwitchUnlessFailed and VerdictsBelong with the rest of Bmv2Poll; the offsets and the presence flags of CParse; EnvIsLastRead
and ForensicsExact, and NeverBailsIfClosed from them; the safety part of the interpreter's refinement; width and disjointness of the engine's
paths.

Proved last: TailIsIgnored and TruncationIsCaught of TwoRuns; the arithmetic of the emitted C and the safety part of its refinement;
AlignmentExact of LuaAlign and NeverMisaligned of LuaDiff.

What a continuation would prove next:

1. `VerdictUnpacksIfFew` of BpfEntry, from the bounds on reason codes and offsets that `CTypeOK` has.
2. `NoPathIsEmptyIfBounded`, with an induction over expressions that intervals bound values.
3. `WitnessTakesItsPath`: a frame's worlds are the interpreter's states after the same bits.
