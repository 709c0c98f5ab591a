----------------------------- MODULE MCRunExec ------------------------------
(* A buffer of three bytes, a pipe that holds four, and outputs shorter and   *)
(* longer than both, with and without a line break at the end, one with a    *)
(* byte that ends a string; behind the buffer nothing, a text or a line.     *)
EXTENDS RunExec

MCByte == {NUL, NL, "a", "b"}
MCOutputs == {<<>>, <<NL>>, <<"b", NL>>, <<NUL, NL>>, <<"a", "a", "a">>,
              <<"b", "b", "b", "a", "a", NL>>}
MCBehind == {<<>>, <<"a">>, <<NL>>}
=============================================================================
