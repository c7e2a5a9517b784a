------------------------------ MODULE MCBooks ------------------------------
(***************************************************************************)
(* Books on small instances: account a may not go below zero, account b    *)
(* may; x is nobody's account.  Two units make the last decimal place of   *)
(* the column, so one unit is an amount with a place too many.             *)
(***************************************************************************)
EXTENDS Books, TLC

CONSTANTS t1, t2, t3

MCGuarded == {<<"a", "USD">>}
MCOpen    == {<<"b", "USD">>, <<"b", "EUR">>}

MCEntry(account, type, currency, units) ==
  [account |-> account, currency |-> currency, type |-> type, units |-> units,
   places |-> IF units % 2 = 0 THEN 8 ELSE 9]

D(account, units) == MCEntry(account, Debit, "USD", units)
C(account, units) == MCEntry(account, Credit, "USD", units)

MCFund     == <<D("b", 4), C("a", 4)>>
MCSpend    == <<D("a", 2), C("b", 2)>>
MCExchange == <<D("b", 2), MCEntry("b", Credit, "EUR", 2)>>

\* Fund, spend and exchange, and what validation must refuse: an amount with
\* a place too many, an unbalanced transfer, an unknown account, a
\* currency the account does not have, negative amounts, a currency that is
\* not supported, neither a debit nor a credit, and no entries.
MCRequests ==
  {[entries |-> MCFund, state |-> "pending"]}
    \union
  {[entries |-> es, state |-> "settled"] :
     es \in {MCSpend,
             MCExchange,
             <<D("b", 1), D("b", 1), C("a", 2)>>,
             <<D("b", 2), C("a", 4)>>,
             <<D("b", 2), C("x", 2)>>,
             <<MCEntry("b", Debit, "EUR", 2), MCEntry("a", Credit, "EUR", 2)>>,
             <<D("b", -2), C("a", -2)>>,
             <<MCEntry("b", Debit, "XXX", 2), MCEntry("b", Credit, "XXX", 2)>>,
             <<MCEntry("b", "other", "USD", 2), C("a", 2)>>,
             <<>>}}
=============================================================================
