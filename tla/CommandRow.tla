----------------------------- MODULE CommandRow -----------------------------
(***************************************************************************)
(* One row of agent_commands and the SQL statements of                     *)
(* agent-rust/src/commands.rs that change it.  ttl is lease_expires_at     *)
(* minus clock_timestamp(); it is 0 when the lease is NULL or has expired. *)
(* "absent" stands for a missing row.                                      *)
(***************************************************************************)
EXTENDS Naturals

CONSTANTS None,           \* SQL NULL
          CommandTicks    \* ticks of a command lease (30 s, renewed every 10 s)

ASSUME CommandTicksAssumption == CommandTicks \in Nat \ {0}

Statuses == {"absent", "pending", "started", "succeeded", "failed",
             "uncertain", "blocked"}

\* Outcomes stored in response_status / response_body.
Responses == {"ok", "refused"}

AbsentRow == [status |-> "absent", owner |-> None, fence |-> 0, ttl |-> 0,
              response |-> None, admission |-> None]

\* INSERT ... 'pending' of admit; the admission data is frozen here.
PendingRow(admission) ==
    [status |-> "pending", owner |-> None, fence |-> 0, ttl |-> 0,
     response |-> None, admission |-> admission]

\* INSERT of administrative: the command starts claimed.
AdministrativeRow(o, admission) ==
    [status |-> "started", owner |-> o, fence |-> 1, ttl |-> CommandTicks,
     response |-> None, admission |-> admission]

\* Mutant: a command that failed may be claimed again.
ClaimableAfterFailure(row) ==
    /\ row.status \in {"pending", "started", "failed"}
    /\ row.owner = None \/ row.ttl = 0

\* The WHERE clause of the claim.
Claimable(row) ==
    /\ row.status \in {"pending", "started"}
    /\ row.owner = None \/ row.ttl = 0

ClaimedBy(row, o) ==
    [status |-> "started", owner |-> o, fence |-> row.fence + 1, ttl |-> CommandTicks,
     response |-> row.response, admission |-> row.admission]

\* guard, and the WHERE clause of the heartbeat and of both settling UPDATEs.
Guard(row, o, f) ==
    /\ row.status = "started" /\ row.owner = o /\ row.fence = f
    /\ row.ttl > 0

Renewed(row) == [row EXCEPT !.ttl = CommandTicks]

Released(row, status) ==
    [status |-> status, owner |-> None, fence |-> row.fence, ttl |-> 0,
     response |-> row.response, admission |-> row.admission]

\* finish, and the settling UPDATE of admit: a definitive outcome.
Finished(row, response) ==
    [status |-> IF response = "ok" THEN "succeeded" ELSE "failed", owner |-> None,
     fence |-> row.fence, ttl |-> 0, response |-> response, admission |-> row.admission]

\* What a save of run_interrupted or run_reconciled may do to the command that
\* started the interrupted run.
Abandonable(row) == row.status \in {"pending", "started"} /\ row.ttl = 0
=============================================================================
