--------------------------- MODULE MCAccountLocks ---------------------------
(***************************************************************************)
(* AccountLocks on small instances.                                        *)
(***************************************************************************)
EXTENDS AccountLocks, TLC

CONSTANTS p1, p2, p3

MCRequest(op, entries) == [op |-> op, entries |-> entries]

\* Transfers in every direction of a ring of accounts, so that orders clash,
\* beside a batch, a reversal and an unknown account.
MCRequests == {MCRequest("post", <<2, 1>>), MCRequest("post", <<3, 2>>),
               MCRequest("post", <<1, 3, 2, 1>>), MCRequest("post", <<4, 2>>),
               MCRequest("batch", <<2, 1, 3>>), MCRequest("reverse", <<1, 2>>)}
=============================================================================
