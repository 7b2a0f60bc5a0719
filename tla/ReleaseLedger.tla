--------------------------- MODULE ReleaseLedger ---------------------------
(***************************************************************************)
(* What the gateway promises about one analyst's releases, without saying  *)
(* how: a ledger of what each analyst has been given.  A release joins the *)
(* ledger only if it conflicts with nothing in it and the ledger stays     *)
(* within the budget.  An entry leaves only by ageing out of the window.   *)
(***************************************************************************)
EXTENDS Naturals, FiniteSets

CONSTANTS
    Users,
    Conflicts,      \* pairs of cohorts whose releases must not both be held
    Budget          \* releases an analyst may hold inside one window

VARIABLE ledger     \* user -> set of [row, cohorts]

Init == ledger = [u \in Users |-> {}]

Compatible(held, r) ==
    \A e \in held : \A p \in e.cohorts, c \in r.cohorts : <<p, c>> \notin Conflicts

Release(u) ==
    \E r \in ledger'[u] \ ledger[u] :
        /\ ledger' = [ledger EXCEPT ![u] = @ \cup {r}]
        /\ Compatible(ledger[u], r)
        /\ Cardinality(ledger'[u]) <= Budget

Forget ==
    /\ DOMAIN ledger' = Users
    /\ \A u \in Users : ledger'[u] \subseteq ledger[u]

Next == (\E u \in Users : Release(u)) \/ Forget

Spec == Init /\ [][Next]_ledger

=============================================================================
