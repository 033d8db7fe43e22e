------------------------------ MODULE WireParse ------------------------------
(***************************************************************************)
(* What every consumer of a description promises: the conformance surface  *)
(* the generated parsers are compared with the interpreter on, without     *)
(* header lists, traces, structs or generated names.                       *)
(*                                                                         *)
(* A parse visits states.  Visiting one, it takes the state's fields off   *)
(* the packet in order, then leaves for the state the last values of the   *)
(* fields select, or stops with a verdict; where the description does not  *)
(* say how to go on, there is no verdict on the packet, but an error.      *)
(***************************************************************************)
EXTENDS WireFields

CONSTANTS Irs, Packets

VARIABLES
  ir, packet,
  at,        \* the state being visited, or to be visited next
  visited,   \* how many visits were begun
  todo,      \* fields the visit has still to take: [instance, field] records
  visiting,
  cursor,    \* bits taken so far
  env,       \* <<instance, field>> -> the bits last taken for it
  verdict

vars == <<ir, packet, at, visited, todo, visiting, cursor, env, verdict>>

Pending == [outcome |-> "pending", reason |-> "", consumed |-> 0]
Verdict(outcome, reason) ==
  verdict' = [outcome |-> outcome, reason |-> reason, consumed |-> cursor]

Visit ==
  /\ verdict = Pending
  /\ ~ visiting
  /\ visited < ir.max_depth
  /\ at \in DOMAIN ir.states
  /\ visited' = visited + 1
  /\ visiting' = TRUE
  /\ todo' = WireFields(ir, ir.states[at].extracts)
  /\ UNCHANGED <<ir, packet, at, cursor, env, verdict>>

TooDeep ==
  /\ verdict = Pending
  /\ ~ visiting
  /\ visited = ir.max_depth
  /\ visited' = visited + 1
  /\ Verdict("reject", "max depth exceeded")
  /\ UNCHANGED <<ir, packet, at, todo, visiting, cursor, env>>

Taking == verdict = Pending /\ visiting /\ todo # <<>>

\* The width of the next field in bits: known, unless it has none, or a length
\* that refers to nothing or is asked for inside a byte.
HasWidth == LET f == Head(todo).field
            IN  \/ f.width = "bits"
                \/ f.width = "bytes" /\ cursor % ByteBits = 0 /\ EvalExpr(ir, f.n, env) \in Word
Width == LET f == Head(todo).field
         IN  IF f.width = "bits" THEN f.n ELSE ByteBits * EvalExpr(ir, f.n, env)

Take ==
  /\ Taking
  /\ HasWidth
  /\ cursor + Width <= Len(packet)
  /\ cursor' = cursor + Width
  /\ todo' = Tail(todo)
  /\ env' = IF Head(todo).field.width = "bits"
              THEN LET key == <<Head(todo).instance, Head(todo).field.name>>
                   IN  [k \in DOMAIN env \cup {key} |->
                         IF k = key THEN SubSeq(packet, cursor + 1, cursor') ELSE env[k]]
              ELSE env
  /\ UNCHANGED <<ir, packet, at, visited, visiting, verdict>>

RunOff ==
  /\ Taking
  /\ HasWidth
  /\ cursor + Width > Len(packet)
  /\ Verdict("reject", "out of bounds")
  /\ UNCHANGED <<ir, packet, at, visited, todo, visiting, cursor, env>>

Leaving == verdict = Pending /\ visiting /\ todo = <<>>

First(S) == CHOOSE i \in S : \A j \in S : i <= j

Trans == ir.states[at].trans
HasKeys ==
  /\ Trans.kind # "none"
  /\ Trans.kind = "select" => KeysResolve(ir, Trans, env)
Hits == IF Trans.kind = "select" THEN MatchingArms(Trans, Keys(ir, Trans, env)) ELSE {}

\* The target the transition selects: at most one, the first arm that matches
\* winning over the default.
Selected == IF Hits # {} THEN Trans.arms[First(Hits)].next ELSE Trans.default
NothingMatches == Trans.kind = "select" /\ Hits = {} /\ Trans.default.kind = "absent"

Leave ==
  /\ Leaving
  /\ HasKeys
  /\ Selected.kind = "state"
  /\ at' = Selected.to
  /\ visiting' = FALSE
  /\ UNCHANGED <<ir, packet, visited, todo, cursor, env, verdict>>

Stop ==
  /\ Leaving
  /\ HasKeys
  /\ \/ Selected.kind = "accept" /\ Verdict("accept", "")
     \/ Selected.kind = "reject" /\ Verdict("reject", Selected.to)
     \/ NothingMatches /\ Verdict("reject", "no matching select arm")
  /\ UNCHANGED <<ir, packet, at, visited, todo, visiting, cursor, env>>

\* "`Err` means the IR itself is malformed" (interp/mod.rs:96): a state, width
\* or target that is not there.
NoSuchState == verdict = Pending /\ ~ visiting /\ visited < ir.max_depth /\ at \notin DOMAIN ir.states
NoWayOn ==
  \/ Taking /\ ~ HasWidth
  \/ Leaving /\ ~ HasKeys
  \/ /\ Leaving /\ HasKeys /\ ~ NothingMatches
     /\ Selected.kind \notin {"state", "accept", "reject"}

Fail ==
  /\ NoSuchState \/ NoWayOn
  /\ visited' = IF NoSuchState THEN visited + 1 ELSE visited
  /\ todo' = <<>>
  /\ verdict' = [outcome |-> "err", reason |-> "", consumed |-> 0]
  /\ UNCHANGED <<ir, packet, at, visiting, cursor, env>>

Init ==
  /\ ir \in Irs
  /\ packet \in Packets
  /\ at = ir.start
  /\ visited = 0
  /\ todo = <<>>
  /\ visiting = FALSE
  /\ cursor = 0
  /\ env = <<>>
  /\ verdict = Pending

Next == Visit \/ TooDeep \/ Take \/ RunOff \/ Leave \/ Stop \/ Fail

\* A verdict is always reached.
Spec == Init /\ [][Next]_vars /\ WF_vars(Next)
=============================================================================
