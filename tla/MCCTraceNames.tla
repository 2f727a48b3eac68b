---------------------------- MODULE MCCTraceNames ----------------------------
(* Names over a two-letter alphabet: the empty string, "a", "b", "ab". *)
EXTENDS CTraceNames

MCStrings == {<<0>>, <<1, 0>>, <<2, 0>>, <<1, 2, 0>>}
=============================================================================
