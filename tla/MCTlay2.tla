------------------------------ MODULE MCTlay2 ------------------------------
(* Payloads for TLC: empty, plain, both bytes that are escaped, and one that *)
(* fills a buffer of six bytes.                                              *)
EXTENDS Tlay2

SomePayloads == {<<>>, <<65>>, <<10>>, <<220>>, <<1, 10, 2>>}
=============================================================================
