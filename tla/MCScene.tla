-------------------------------- MODULE MCScene --------------------------------
(* Alphabets for model-checking Scene. *)
EXTENDS Scene

PlainText == [about |-> {}, lethal |-> FALSE]
Threat(c) == [about |-> {c}, lethal |-> TRUE]

NoTexts == {}
OneThreat == {Threat(1)}
TwoThreats == {Threat(1), Threat(2)}

\* Posers are alike and so are the slots of poses in flight.
Symmetry == Permutations(Posers) \cup Permutations(Poses)

\* Bound: distillations in flight together.
FewDistillations == Len(distills) <= 2
===============================================================================
