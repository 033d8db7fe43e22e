-------------------------------- MODULE Backends --------------------------------
(***************************************************************************)
(* The conformance tests of the two emitted parsers that are compared with *)
(* the interpreter packet by packet: the P4 program and the Lua dissector. *)
(* A description is generated; then a frame is run by the interpreter, by  *)
(* BMv2 and by Wireshark.  The three share nothing but the description and *)
(* the frame, so one order of them is enough.                              *)
(***************************************************************************)
EXTENDS P4Diff, LuaDiff

refvars == <<packet, pc, current, depth, ex, parsed, cursor, env, headers, trace, result>>
bvars == <<ir, refvars, p4vars, luavars, align, work>>

BInit ==
  /\ ir \in Irs
  /\ packet = <<>> /\ pc = "enter" /\ current = ir.start /\ depth = 0 /\ ex = 0
  /\ parsed = NoHeader /\ cursor = 0 /\ env = <<>> /\ headers = <<>> /\ trace = <<>>
  /\ result = Running
  /\ P4Init
  /\ LuaInit

Generate == Propagate /\ UNCHANGED <<refvars, p4vars, luavars>>

\* A test captures whole bytes.
SendFrame ==
  /\ work = <<>> /\ p4pc = "idle"
  /\ HasP4 \/ HasLua
  /\ \E bits \in Packets : packet' = bits /\ P4Receives(bits) /\ LuaReceives(bits)
  /\ UNCHANGED <<ir, pc, current, depth, ex, parsed, cursor, env, headers, trace, result>>

Reference == p4pc # "idle" /\ Step /\ UNCHANGED <<p4vars, luavars, align, work>>

Observe == pc = "done" /\ P4Step /\ UNCHANGED <<refvars, luavars, align, work>>

Dissect ==
  /\ pc = "done" /\ p4pc \in {"done", "refused"}
  /\ LuaStep
  /\ UNCHANGED <<refvars, p4vars>>

\* Both have answered, or there was nothing to send a frame to.
BDone ==
  /\ work = <<>>
  /\ \/ p4pc \in {"done", "refused"} /\ luapc \in {"done", "refused"} /\ pc = "done"
     \/ p4pc = "idle" /\ ~ HasP4 /\ ~ HasLua
  /\ UNCHANGED bvars

BNext == Generate \/ SendFrame \/ Reference \/ Observe \/ Dissect \/ BDone

\* A generator runs to its end.
BSpec == BInit /\ [][BNext]_bvars /\ WF_bvars(Generate)
=================================================================================
