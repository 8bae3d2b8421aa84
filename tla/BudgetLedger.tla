---------------------------- MODULE BudgetLedger ----------------------------
(***************************************************************************)
(* What the gateway's accounting promises for every request, whatever the  *)
(* interleaving of handler, stream goroutine, settler and crash:           *)
(*   - an estimate is put on hold at most once;                            *)
(*   - a request is invoiced at most once, and the invoice never changes;  *)
(*   - a hold ends once: it is charged with exactly the invoiced amount,   *)
(*     or it is freed; neither is ever undone.                             *)
(***************************************************************************)
EXTENDS Integers

CONSTANTS Ids, Amounts

VARIABLES hold, invoice

None == -1

ledgerVars == <<hold, invoice>>

Charged(c) == <<"charged", c>>

LedgerInit ==
    /\ hold = [i \in Ids |-> <<"none">>]
    /\ invoice = [i \in Ids |-> None]

PutHold(i) ==
    /\ hold[i] = <<"none">>
    /\ hold' = [hold EXCEPT ![i] = <<"held">>]
    /\ UNCHANGED invoice

Invoice(i, c) ==
    /\ invoice[i] = None
    /\ invoice' = [invoice EXCEPT ![i] = c]
    /\ UNCHANGED hold

Charge(i) ==
    /\ hold[i] = <<"held">>
    /\ invoice[i] # None
    /\ hold' = [hold EXCEPT ![i] = Charged(invoice[i])]
    /\ UNCHANGED invoice

\* The settler frees every overdue hold in one statement.
Free(S) ==
    /\ \A i \in S : hold[i] = <<"held">>
    /\ hold' = [i \in Ids |-> IF i \in S THEN <<"freed">> ELSE hold[i]]
    /\ UNCHANGED invoice

LedgerNext ==
    \/ \E i \in Ids : PutHold(i) \/ Charge(i) \/ \E c \in Amounts : Invoice(i, c)
    \/ \E S \in SUBSET Ids : Free(S)

LedgerSpec == LedgerInit /\ [][LedgerNext]_ledgerVars

=============================================================================
