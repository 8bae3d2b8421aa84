----------------------------- MODULE MCPgBudget -----------------------------
(* Reservations of one team, any two of which reach 80% of its cap. *)
EXTENDS PgBudget, TLC

CONSTANTS i1, i2, i3, t1

MCTeamOf == [i \in Ids |-> t1]

ReservationSymmetry == Permutations({i1, i2, i3})

=============================================================================
