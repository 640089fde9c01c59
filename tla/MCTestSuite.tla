---------------------------- MODULE MCTestSuite -----------------------------
(* TestSuite for TLC: nothing has to be bounded, the tests and their        *)
(* timeouts are those of the source.                                        *)
EXTENDS TestSuite
=============================================================================
