-------------------------- MODULE IdempotentCommand --------------------------
(***************************************************************************)
(* What a keyed command promises (contract.md, IDEM-02): the first         *)
(* admitted content owns the key, there is at most one outcome, and the    *)
(* effect happens exactly when the outcome is success.                     *)
(***************************************************************************)
EXTENDS Naturals

CONSTANTS Keys, Contents, None

VARIABLES content, outcome, applied

Init ==
    /\ content = [k \in Keys |-> None]
    /\ outcome = [k \in Keys |-> None]
    /\ applied = [k \in Keys |-> 0]

Register(k, c) ==
    /\ content[k] = None
    /\ content' = [content EXCEPT ![k] = c]
    /\ UNCHANGED <<outcome, applied>>

Decide(k, result) ==
    /\ content[k] # None /\ outcome[k] = None
    /\ outcome' = [outcome EXCEPT ![k] = result]
    /\ applied' = [applied EXCEPT ![k] = @ + IF result = "ok" THEN 1 ELSE 0]
    /\ UNCHANGED content

Next ==
    \E k \in Keys : \/ \E c \in Contents : Register(k, c)
                    \/ \E result \in {"ok", "refused"} : Decide(k, result)

Spec == Init /\ [][Next]_<<content, outcome, applied>>
=============================================================================
