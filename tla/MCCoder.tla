------------------------------- MODULE MCCoder -------------------------------
(* Plans for the model checker.                                            *)
EXTENDS Coder

\* One subtask in one phase.
OnePhase        == <<1>>
OneIndependent  == <<{}>>

\* Two phases of one subtask each, the second depends on the first.
TwoPhases       == <<1, 2>>
SecondDepends   == <<{}, {1}>>

==============================================================================
