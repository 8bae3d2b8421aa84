----------------------------- MODULE BudgetRows -----------------------------
(***************************************************************************)
(* The table budget_reservation and the SQL statements of                  *)
(* internal/gw/budget/pg_service.go.  Every statement is one atomic step   *)
(* of the database; an UPDATE whose WHERE clause matches nothing leaves    *)
(* the table as it is.  A reservation is named by its id.  Its age is      *)
(* abstracted to the one bit the settler's cutoff reads: stale, older than *)
(* maxAge.                                                                 *)
(***************************************************************************)
EXTENDS Integers

CONSTANT Ids      \* reservation ids that may be drawn (uuid.New)

VARIABLE rows     \* id -> its row; state "none" before the INSERT

\* actual_cents IS NULL.
NoActual == -1

Live == {"reserved", "committed"}
Settled == {"committed", "released", "expired"}
States == {"none", "reserved"} \union Settled

Row == [state : States, est : Nat, actual : Nat \union {NoActual}, stale : BOOLEAN]

NoRow == [state |-> "none", est |-> 0, actual |-> NoActual, stale |-> FALSE]

RowsInit == rows = [i \in Ids |-> NoRow]

\* INSERT INTO budget_reservation ... state = 'reserved'.
InsertRow(i, est) ==
    /\ rows[i].state = "none"
    /\ rows' = [rows EXCEPT ![i] =
                    [state |-> "reserved", est |-> est, actual |-> NoActual, stale |-> FALSE]]

\* A commit that forgets AND state = 'reserved'.
CommitRowAnyState(i, cents) ==
    rows' = [rows EXCEPT ![i] = [@ EXCEPT !.state = "committed", !.actual = cents]]

\* A commit that books the charge as a credit.
CommitRowNegated(i, cents) ==
    rows' = [rows EXCEPT ![i] =
                IF @.state = "reserved"
                THEN [@ EXCEPT !.state = "committed", !.actual = -cents]
                ELSE @]

\* UPDATE ... SET state = 'committed', actual_cents WHERE id AND state = 'reserved'.
CommitRow(i, cents) ==
    rows' = [rows EXCEPT ![i] =
                IF @.state = "reserved"
                THEN [@ EXCEPT !.state = "committed", !.actual = cents]
                ELSE @]

\* UPDATE ... SET state = 'released' WHERE id AND state NOT IN ('released', 'expired').
ReleaseRow(i) ==
    rows' = [rows EXCEPT ![i] =
                IF @.state \in {"none", "released", "expired"}
                THEN @
                ELSE [@ EXCEPT !.state = "released"]]

\* A settler that also takes the rows another writer has settled.
ExpireSettledToo ==
    rows' = [i \in Ids |->
                IF rows[i].state # "none" /\ rows[i].stale
                THEN [rows[i] EXCEPT !.state = "expired"]
                ELSE rows[i]]

\* A settler that compares created_at with its cutoff the wrong way round.
ExpireFresh ==
    rows' = [i \in Ids |->
                IF rows[i].state = "reserved" /\ ~rows[i].stale
                THEN [rows[i] EXCEPT !.state = "expired"]
                ELSE rows[i]]

\* UPDATE ... SET state = 'expired' WHERE state = 'reserved' AND created_at < cutoff.
ExpireRows ==
    rows' = [i \in Ids |->
                IF rows[i].state = "reserved" /\ rows[i].stale
                THEN [rows[i] EXCEPT !.state = "expired"]
                ELSE rows[i]]

\* maxAge passes for a row.  Nothing reads the age of a settled one.
AgeRow(i) ==
    /\ rows[i].state = "reserved"
    /\ ~rows[i].stale
    /\ rows' = [rows EXCEPT ![i].stale = TRUE]

=============================================================================
