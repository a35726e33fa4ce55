------------------------------ MODULE MCRouter ------------------------------
(* What the requests of TLC's runs may ask for. *)
EXTENDS Router, TLC

CONSTANTS a, b

\* A client of one model against every request for it and for the other one.
TwoMixed == <<{<<"use", a>>}, AllKinds \X {a, b}>>
TwoUsers == <<{<<"use", a>>}, {<<"use", a>>}>>

=============================================================================
