----------------------------- MODULE MCTsharkDiff -----------------------------
(* TsharkDiff over captures of two frames of whole bytes. *)
EXTENDS TsharkDiff, SampleIrs

MCFrames == UNION {[1 .. ByteBits * n -> Bit] : n \in 0 .. 2}
MCCaptures == MCFrames \X MCFrames
\* Keys on the tags of Mini and Stack, on a field of some packets only, and on
\* a body, which has no number.
MCKeys == {<<"a", "tag">>, <<"tag", "m">>, <<"b", "x">>, <<"ip", "opts">>}
MCChanges == {<<>>, <<0>>, <<1>>}

NoWidth == CHOOSE i \in BadIrs : \E t \in DOMAIN i.types : \E f \in ToSet(i.types[t]) : f.width = "none"
MCIrs == {Mini, Ihl, Stack, NoWidth}
===============================================================================
