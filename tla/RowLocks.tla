------------------------------ MODULE RowLocks ------------------------------
(***************************************************************************)
(* The row locks that the transactions on one session take, in the order   *)
(* they take them: save_inner (agent-rust/src/main.rs), with the update of *)
(* the origin command when it ends an abandoned run, and cancel.  The      *)
(* heartbeats update one row each, outside a transaction.  PostgreSQL      *)
(* keeps a row lock to the end of the transaction and aborts one           *)
(* transaction of a cycle of waits.                                        *)
(***************************************************************************)
EXTENDS Naturals, Sequences, FiniteSets

CONSTANTS Savers,       \* saves of an ordinary event
          Enders,       \* saves of run_interrupted or run_reconciled
          Cancellers,   \* POST cancel
          Origin,       \* the saver whose run the enders end
          Nobody

Transactions == Savers \cup Enders \cup Cancellers

\* A row: the command of a transaction, the advisory key, the session.
Key == "key"
Session == "session"
Rows == Transactions \cup {Key, Session}

ASSUME LockAssumption ==
    /\ Origin \in Savers /\ {Nobody, Key, Session} \cap Transactions = {}
    /\ Savers \cap Enders = {} /\ Cancellers \cap (Savers \cup Enders) = {}

VARIABLES holder,     \* per row: the transaction that has it locked
          at,         \* per transaction: the statements done
          result,     \* "open", "committed" or "aborted"
          leased      \* per transaction: whether its command's lease is live

lockVars == <<holder, at, result, leased>>

LockInit ==
    /\ holder = [r \in Rows |-> Nobody] /\ at = [t \in Transactions |-> 0]
    /\ result = [t \in Transactions |-> "open"] /\ leased \in [Transactions -> BOOLEAN]

----------------------------------------------------------------------------
\* The rows a transaction locks, in order.
Statements(t) ==
    CASE t \in Savers -> <<t, Key, Session>>
      [] t \in Enders -> <<t, Key, Session, Origin>>
      [] t \in Cancellers -> <<Session, t>>

NextRow(t) == Statements(t)[at[t] + 1]
Unfinished(t) == result[t] = "open" /\ at[t] < Len(Statements(t))

\* Mutant: the origin command is updated whatever its lease.
MatchesAny(t) == t \in Transactions

\* The update of the origin command is for one whose lease has run out; another
\* row does not match and is not locked.
Matches(t) == t \in Enders /\ NextRow(t) = Origin => ~leased[Origin]

Waits(t, u) == Unfinished(t) /\ Matches(t) /\ t # u /\ holder[NextRow(t)] = u

End(t, as) ==
    /\ result' = [result EXCEPT ![t] = as]
    /\ holder' = [r \in Rows |-> IF holder[r] = t THEN Nobody ELSE holder[r]]

\* The next statement; commands::guard follows the lock of the own command and
\* gives up when its lease has run out.
Take(t) ==
    /\ Unfinished(t) /\ (Matches(t) => holder[NextRow(t)] = Nobody)
    /\ IF NextRow(t) = t /\ ~leased[t]
       THEN End(t, "aborted") /\ UNCHANGED at
       ELSE /\ holder' = IF Matches(t) THEN [holder EXCEPT ![NextRow(t)] = t] ELSE holder
            /\ at' = [at EXCEPT ![t] = @ + 1] /\ UNCHANGED result
    /\ UNCHANGED leased

\* Mutant: a transaction whose lease has run out is not rolled back.
FinishLeased(t) ==
    /\ result[t] = "open" /\ at[t] = Len(Statements(t)) /\ leased[t]
    /\ End(t, "committed")
    /\ UNCHANGED <<at, leased>>

\* The last guard, then the commit.
Finish(t) ==
    /\ result[t] = "open" /\ at[t] = Len(Statements(t))
    /\ End(t, IF leased[t] THEN "committed" ELSE "aborted")
    /\ UNCHANGED <<at, leased>>

Expire(t) ==
    /\ leased[t] /\ leased' = [leased EXCEPT ![t] = FALSE]
    /\ UNCHANGED <<holder, at, result>>

\* A set of transactions that wait for one another.
Deadlocked(s) == s # {} /\ \A t \in s : \E u \in s : Waits(t, u)

\* PostgreSQL aborts one transaction of a cycle.
Break(t) ==
    /\ \E s \in SUBSET Transactions : t \in s /\ Deadlocked(s)
    /\ End(t, "aborted") /\ UNCHANGED <<at, leased>>

Step(t) == Take(t) \/ Finish(t) \/ Break(t)
LockNext == \E t \in Transactions : Step(t) \/ Expire(t)

\* The server goes on with every transaction it can go on with.
LockSpec == LockInit /\ [][LockNext]_lockVars /\ \A t \in Transactions : WF_lockVars(Step(t))

----------------------------------------------------------------------------
\* Rows are held by open transactions only, by one each.
LockTypeOK ==
    /\ holder \in [Rows -> Transactions \cup {Nobody}]
    /\ at \in [Transactions -> 0..4] /\ result \in [Transactions -> {"open", "committed", "aborted"}]
    /\ leased \in [Transactions -> BOOLEAN]
    /\ \A r \in Rows : holder[r] # Nobody => result[holder[r]] = "open"

\* Saves and cancels wait for one another in a cycle in one case
\* only: the origin's save is inside its transaction when its command's lease
\* runs out, and an abandoned run is being ended (save_inner).
CycleNeedsExpiry ==
    \A s \in SUBSET Transactions : Deadlocked(s) =>
        Origin \in s /\ s \cap Enders # {} /\ ~leased[Origin] /\ holder[Origin] = Origin

\* Every transaction comes to an end.
TransactionsEnd == \A t \in Transactions : <>(result[t] # "open")
=============================================================================
