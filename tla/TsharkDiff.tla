-------------------------------- MODULE TsharkDiff --------------------------------
(***************************************************************************)
(* The tshark oracle, oracle::diff_pcap: the annotated fields of every     *)
(* packet the interpreter accepts are compared with tshark's JSON.         *)
(*                                                                         *)
(* tshark is external.  It runs first in the code; here it answers once    *)
(* the packets are parsed, so that its answer can be told from the truth:  *)
(* it shows the values that are there, but for at most one change.         *)
(***************************************************************************)
EXTENDS Interp, SequencesExt, FiniteSets

CONSTANTS
  KeysShown, \* the annotated fields, as <<header type, field>>
  Captures,  \* sequences of packets
  Changes    \* values tshark may show instead

VARIABLES
  capture,
  parses,     \* run(ir, packet) of each packet: outcome and headers
  dissected,  \* per packet, key -> the values shown; <<>> before tshark ran
  change,     \* what tshark shows otherwise: a packet and a key, or Unchanged
  report      \* the packets gone through, the comparisons made, the mismatches

tvars == <<vars, capture, parses, dissected, change, report>>
oracle == <<capture, dissected, change, report>>

Unchanged == <<0, <<>>>>
NoReport == [packets |-> 0, compared |-> 0, mismatches |-> {}, failed |-> FALSE]

Parse == Step /\ UNCHANGED <<parses, oracle>>

\* The run's result is kept, and the next packet's run begins.
KeepResult ==
  /\ pc = "done" /\ Len(parses) < Len(capture)
  /\ parses' = Append(parses, [outcome |-> result.outcome, headers |-> headers])
  /\ IF Len(parses) + 1 < Len(capture)
       THEN /\ packet' = capture[Len(parses) + 2]
            /\ pc' = "enter" /\ current' = ir.start /\ depth' = 0 /\ ex' = 0
            /\ parsed' = NoHeader /\ cursor' = 0 /\ env' = <<>> /\ headers' = <<>> /\ trace' = <<>>
            /\ result' = Running
            /\ UNCHANGED ir
       ELSE UNCHANGED vars
  /\ UNCHANGED oracle

(***************************************************************************)
(* tshark.                                                                 *)
(***************************************************************************)
\* Only fixed-width fields have a number to compare.
Numeric(key) == key[1] \in DOMAIN ir.types /\ [name |-> key[2], width |-> "bits"] \in
                  {[name |-> f.name, width |-> f.width] : f \in ToSet(ir.types[key[1]])}

\* The fields of packet i that carry a key, in order.
Annotated(i) ==
  LET of(h) == [k \in DOMAIN h.fields |-> [key |-> <<h.type, h.fields[k].name>>, bits |-> h.fields[k].bits]]
  IN  SelectSeq(FlattenSeq([j \in DOMAIN parses[i].headers |-> of(parses[i].headers[j])]),
                LAMBDA f : f.key \in KeysShown /\ Numeric(f.key))
Values(i, key) ==
  LET fs == SelectSeq(Annotated(i), LAMBDA f : f.key = key)
  IN  [k \in DOMAIN fs |-> Uint(fs[k].bits)]

\* Repeated layers are an array, or repeated keys of which JSON keeps the last.
Survives(s, array) == IF array \/ s = <<>> THEN s ELSE <<Last(s)>>

Tshark ==
  /\ Len(parses) = Len(capture) /\ dissected = <<>>
  /\ \E array \in BOOLEAN : \E c \in {Unchanged} \cup ((DOMAIN capture) \X KeysShown) : \E v \in Changes :
       /\ c # Unchanged => v # Survives(Values(c[1], c[2]), array)
       /\ change' = c
       /\ dissected' = [i \in DOMAIN capture |-> [k \in KeysShown |->
            IF c = <<i, k>> THEN v ELSE Survives(Values(i, k), array)]]
  /\ UNCHANGED <<vars, capture, parses, report>>

(***************************************************************************)
(* diff_pcap.                                                              *)
(***************************************************************************)
NotShown == -1

\* lookup: of an array, the first.
Lookup(layers, key) == IF layers[key] = <<>> THEN NotShown ELSE Head(layers[key])

\* Mutant: the dissections are paired with the accepted packets.
LayersOfAccepted(i) ==
  dissected[1 + Cardinality({j \in 1 .. i - 1 : parses[j].outcome = "accept"})]

LayersOf(i) == dissected[i]

Diffing == dissected # <<>> /\ report.packets < Len(capture) /\ ~ report.failed
Packet == report.packets + 1

\* Rejected packets are skipped.
DiffPacket ==
  /\ Diffing /\ parses[Packet].outcome # "err"
  /\ report' = [report EXCEPT
       !.packets = @ + 1,
       !.compared = IF parses[Packet].outcome = "accept" THEN @ + Len(Annotated(Packet)) ELSE @,
       !.mismatches = @ \cup {<<Packet, f.key>> : f \in
          {g \in ToSet(Annotated(Packet)) : /\ parses[Packet].outcome = "accept"
                                            /\ Lookup(LayersOf(Packet), g.key) # Uint(g.bits)}}]
  /\ UNCHANGED <<vars, capture, parses, dissected, change>>

\* A packet the interpreter fails on ends the comparison.
DiffFails ==
  /\ Diffing /\ parses[Packet].outcome = "err"
  /\ report' = [report EXCEPT !.failed = TRUE]
  /\ UNCHANGED <<vars, capture, parses, dissected, change>>

Diffed == dissected # <<>> /\ ~ Diffing
DiffOver == Diffed /\ UNCHANGED tvars

TInit ==
  /\ Init
  /\ capture \in Captures
  /\ packet = capture[1]
  /\ parses = <<>> /\ dissected = <<>> /\ change = Unchanged /\ report = NoReport

TNext == Parse \/ KeepResult \/ Tshark \/ DiffPacket \/ DiffFails \/ DiffOver
TSpec == TInit /\ [][TNext]_tvars

(***************************************************************************)
(* Properties.                                                             *)
(***************************************************************************)
Accepted(i) == parses[i].outcome = "accept"
Repeats(i) == \E k \in KeysShown : Len(Values(i, k)) > 1

\* "A mismatch means our description (or our semantics) is wrong" (oracle/mod.rs:3-4):
\* unless an annotated header is repeated in an accepted packet, the report has
\* just the place where tshark differs, at its own packet, whatever packets
\* before it were skipped, and is empty where tshark shows just what was parsed;
\* a field that is nowhere in the packet it cannot have.
ReportIsExact ==
  Diffed /\ ~ report.failed /\ (\A i \in DOMAIN parses : Accepted(i) => ~ Repeats(i)) =>
    report.mismatches =
      {c \in {change} \ {Unchanged} : Accepted(c[1]) /\ Values(c[1], c[2]) # <<>>}
==================================================================================
