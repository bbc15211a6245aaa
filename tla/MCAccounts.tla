----------------------------- MODULE MCAccounts -----------------------------
(* Small instances of Accounts for TLC.                                     *)
EXTENDS Accounts, TLC

CONSTANTS a1, A1, b1, bad, p1, p2, short, long

\* Two mailboxes, one of them in two spellings, and a malformed address; and one
\* mailbox alone
TwoMailboxes == {a1, A1, b1, bad}
OneMailbox == {a1}
Lowered == [a \in Address |-> IF a = A1 THEN a1 ELSE a]
NoAddress == {bad}

TwoPasswords == {p1, p2}
WithShort == {p1, p2, short}
WithLong == {p1, p2, long}
TooShort == {short}
TooLong == {long}

Symmetry == Permutations(Request) \cup Permutations(UserId) \cup Permutations(Token)
=============================================================================
