------------------------ MODULE MCLedgerTransactions ------------------------
(* LedgerTransactions on a small instance.                                 *)
EXTENDS LedgerTransactions, TLC

CONSTANTS a1, a2, g1, c1, c2

Op(isDebit, a, n, toSub, scope) ==
  [debit |-> isDebit, acct |-> a, amount |-> n, toSubscription |-> toSub, scope |-> scope]

\* An account funded from a subscription and a top-up, and two debits, one of
\* them attributed to an agent's automation scope, that exceed the caps.
MCIntent == [grant |-> Op(FALSE, a1, 2, TRUE, NoScope),
             topup |-> Op(FALSE, a1, 3, FALSE, NoScope),
             turn  |-> Op(TRUE, a1, 3, FALSE, NoScope),
             cron  |-> Op(TRUE, a1, 2, FALSE, g1)]

\* The debits of the first account exceed its daily cap together; one of them
\* shares an automation scope with a debit of the second, and those two exceed
\* the rolling cap.
CapIntent == [grant |-> Op(FALSE, a1, 5, TRUE, NoScope),
              topup |-> Op(FALSE, a2, 2, FALSE, NoScope),
              turn  |-> Op(TRUE, a1, 3, FALSE, NoScope),
              cron  |-> Op(TRUE, a1, 2, FALSE, g1),
              beat  |-> Op(TRUE, a2, 2, FALSE, g1)]

Symmetry == Permutations(Clients)
=============================================================================
