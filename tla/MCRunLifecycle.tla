--------------------------- MODULE MCRunLifecycle ---------------------------
(* Two handler activations and the reconciler: both execute one command (the *)
(* second claims it after the first lost it), or each has one of its own.    *)
EXTENDS RunLifecycle

CONSTANTS a, b, SecondCommand, FirstKind, OtherKind, FirstSteps

MCActivations == {a, b}
MCCommands == {"first", SecondCommand}
MCCommandOf == [h \in MCActivations |-> IF h = a THEN "first" ELSE SecondCommand]
MCMaxSteps == [h \in MCActivations |-> IF h = a THEN FirstSteps ELSE 0]
MCKind == [k \in MCCommands |-> IF k = "first" THEN FirstKind ELSE OtherKind]
=============================================================================
