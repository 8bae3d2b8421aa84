------------------------------ MODULE PgBudget ------------------------------
(***************************************************************************)
(* The budget service of the gateway (budget/pg_service.go) with its       *)
(* callers unconstrained: Reserve calls overlap, any live reservation may  *)
(* be committed or released, caps are replaced by a reload, the settler    *)
(* ticks, the process restarts.  Reserve is two database statements,       *)
(* INSERT and then the SUM of TeamUsed, so other calls come between them.  *)
(* The alert of main.go writes a budget_soft_warn row to audit_event.      *)
(***************************************************************************)
EXTENDS BudgetRows, Functions

CONSTANTS Teams, TeamOf,   \* the team of every reservation
          Estimate,        \* cents reserved by every caller
          Actuals,         \* cents a Commit may carry
          Caps,            \* team caps a configuration may give, 0 for none
          DbMayFail

ASSUME PgBudgetAssumption ==
    /\ TeamOf \in [Ids -> Teams]
    /\ Estimate \in Nat /\ Actuals \subseteq Nat /\ Caps \subseteq Nat
    /\ DbMayFail \in BOOLEAN

VARIABLES teams,       \* team -> cap, as SetTeamCap left it
          checking,    \* Reserve calls between their INSERT and their SUM
          returned,    \* reservations whose id Reserve has returned
          alerts,      \* teams alertFn was called for
          softWarns,   \* teams with a budget_soft_warn row in audit_event
          warned,      \* history: alerted since the team was last under
          excused      \* history: over by a cap change, a failed statement or a restart

serviceVars == <<teams, checking, returned, alerts, softWarns>>
vars == <<rows, serviceVars, warned, excused>>

-----------------------------------------------------------------------------

\* COALESCE(actual_cents, estimated_cents).
Value(row) == IF row.actual # NoActual THEN row.actual ELSE row.est

LiveRows(t) == {i \in Ids : TeamOf[i] = t /\ rows[i].state \in Live}

Values == [i \in Ids |-> Value(rows[i])]

TeamUsed(t) == SumFunctionOnSet(Values, LiveRows(t))

\* An alert that waits until the cap's 80% are passed.
OverBeyond(t, used) == teams[t] > 0 /\ (used * 100) \div teams[t] > 80

\* cap > 0 && used*100/cap >= 80.
Over(t, used) == teams[t] > 0 /\ (used * 100) \div teams[t] >= 80

\* used is 80% of the cap or more, without the division.
Reached80(t, used) == teams[t] > 0 /\ 5 * used >= 4 * teams[t]

\* The part of the use that Reserve has announced: a commit above its estimate
\* counts for the estimate.
Least(row) == IF Value(row) < row.est THEN Value(row) ELSE row.est
Announced(t) == SumFunctionOnSet([i \in Ids |-> Least(rows[i])], LiveRows(t))

\* Bookkeeping of the two history variables, the same in every step.
Observe(alerted, forgiven) ==
    /\ warned' = [t \in Teams |-> Reached80(t, Announced(t))' /\ (warned[t] \/ t \in alerted)]
    /\ excused' = [t \in Teams |-> Reached80(t, Announced(t))' /\ (excused[t] \/ t \in forgiven)]

Init ==
    /\ RowsInit
    /\ teams \in [Teams -> Caps]
    /\ checking = {} /\ returned = {}
    /\ alerts = {} /\ softWarns = {}
    /\ warned = [t \in Teams |-> FALSE]
    /\ excused = [t \in Teams |-> FALSE]

\* INSERT first: the sum that follows includes this reservation.  When Exec
\* reports an error the call ends here, whether or not the row is there.
ReserveInsert(i) ==
    /\ InsertRow(i, Estimate)
    /\ UNCHANGED <<teams, returned, alerts, softWarns>>
    /\ \/ checking' = checking \union {i} /\ Observe({}, {})
       \/ DbMayFail /\ UNCHANGED checking /\ Observe({}, {TeamOf[i]})

\* INSERT INTO audit_event, whose column trace_id is UUID NOT NULL: a trace id
\* that is not a UUID is an error, and the row is not written.
WriteAudit(t, traceID) ==
    softWarns' = IF traceID = "" THEN softWarns ELSE softWarns \union {t}

\* PgWriter.AlertBudget, called by the alertFn of main.go, which drops the error.
AlertBudget(t) == WriteAudit(t, "")

\* TeamUsed, which is 0 when the query fails, and the soft warning.
ReserveCheck(i) ==
    /\ i \in checking
    /\ checking' = checking \ {i}
    /\ returned' = returned \union {i}
    /\ UNCHANGED <<rows, teams>>
    /\ LET t == TeamOf[i] IN
       \/ /\ Over(t, TeamUsed(t))
          /\ alerts' = alerts \union {t} /\ AlertBudget(t)
          /\ Observe({t}, {})
       \/ /\ ~Over(t, TeamUsed(t))
          /\ UNCHANGED <<alerts, softWarns>>
          /\ Observe({}, {})
       \/ /\ DbMayFail
          /\ UNCHANGED <<alerts, softWarns>>
          /\ Observe({}, {t})

\* Commit and Release are called with the id Reserve returned.
Commit(i, cents) ==
    /\ i \in returned
    /\ CommitRow(i, cents)
    /\ UNCHANGED serviceVars
    /\ Observe({}, {})

Release(i) ==
    /\ i \in returned
    /\ ReleaseRow(i)
    /\ UNCHANGED serviceVars
    /\ Observe({}, {})

Age(i) ==
    /\ AgeRow(i)
    /\ UNCHANGED serviceVars
    /\ Observe({}, {})

ReleaseExpired ==
    /\ ExpireRows
    /\ UNCHANGED serviceVars
    /\ Observe({}, {})

\* A reload gives a team another cap; no alert comes with it.
SetTeamCap(t, cap) ==
    /\ teams' = [teams EXCEPT ![t] = cap]
    /\ UNCHANGED <<rows, checking, returned, alerts, softWarns>>
    /\ Observe({}, {t})

\* The process dies and starts again with the same configuration: calls in flight and
\* the ids their callers held are lost, the rows stay.
Restart ==
    /\ checking' = {} /\ returned' = {}
    /\ UNCHANGED <<rows, teams, alerts, softWarns>>
    /\ Observe({}, {TeamOf[i] : i \in checking})

Next ==
    \/ \E i \in Ids :
          \/ ReserveInsert(i) \/ ReserveCheck(i) \/ Release(i) \/ Age(i)
          \/ \E cents \in Actuals : Commit(i, cents)
    \/ \E t \in Teams, cap \in Caps : SetTeamCap(t, cap)
    \/ ReleaseExpired
    \/ Restart

Spec == Init /\ [][Next]_vars

-----------------------------------------------------------------------------
(* Properties. *)

\* Every variable keeps to its domain.
TypeOK ==
    /\ rows \in [Ids -> Row]
    /\ teams \in [Teams -> Caps]
    /\ checking \subseteq Ids /\ returned \subseteq Ids
    /\ alerts \subseteq Teams /\ softWarns \subseteq Teams
    /\ warned \in [Teams -> BOOLEAN] /\ excused \in [Teams -> BOOLEAN]

\* However Reserve calls of a team overlap, reservations do not take it over
\* 80% of its cap unnoticed: it has been alerted since it was last under, or the
\* call that will alert is still between its INSERT and its SUM.  (A cap change, a
\* failed statement and a restart between the two statements are the only ways
\* round; a Commit above its estimate is left out of what is announced.)
NoSilentOverspend ==
    \A t \in Teams :
        Reached80(t, Announced(t)) =>
            warned[t] \/ excused[t] \/ \E i \in checking : TeamOf[i] = t

\* A refund is final and a charge keeps its amount: whatever callers and settler
\* do to it, a released or expired reservation stays, and a committed one is
\* at most released.
RefundIsFinal ==
    [][\A i \in Ids :
          /\ rows[i].state \in {"released", "expired"} => rows'[i] = rows[i]
          /\ rows[i].state = "committed" =>
                rows'[i] \in {rows[i], [rows[i] EXCEPT !.state = "released"]}]_vars

\* operator-guide.md: "soft 80% writes audit_event".
AlertIsAudited == alerts \subseteq softWarns

=============================================================================
