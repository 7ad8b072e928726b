--------------------------- MODULE MCDecisionLoop ---------------------------
(***************************************************************************)
(* Instances of DecisionLoop: a two-phase workflow with a result check and *)
(* a binding, and a task without a workflow.                               *)
(***************************************************************************)
EXTENDS DecisionLoop

Item(tool, out) == [tool |-> tool, out |-> out, required |-> TRUE]

\* "look" must return "x" in the first phase; the second needs "act" to fail
\* as configured before its evidence edge opens.
MCPhase ==
    [first |-> [allowed |-> {"look"}, completion |-> <<Item("look", "x")>>,
                edges |-> <<[to |-> "second", when |-> "phase_complete", evidence |-> <<>>]>>],
     second |-> [allowed |-> None, completion |-> <<Item("act", "x")>>,
                 edges |-> <<[to |-> "complete", when |-> "evidence",
                              evidence |-> <<Item("act", "ERROR")>>]>>]]

MCChecks == [total |-> [tool |-> "look", outs |-> {"x"}]]
MCBindings == {[tool |-> "act", label |-> "total"]}
MCRequests == {[tool |-> "look", arg |-> None, wellFormed |-> TRUE],
               [tool |-> "act", arg |-> "x", wellFormed |-> TRUE]}

NoPhase == <<>>
NoChecks == <<>>
NoBindings == {}
FreeRequests == {[tool |-> "look", arg |-> None, wellFormed |-> TRUE],
                 [tool |-> "look", arg |-> None, wellFormed |-> FALSE]}

\* Repeating a call whose result a check has captured already.
RepeatChecks == [total |-> [tool |-> "look", outs |-> {"x", "y"}]]
=============================================================================
