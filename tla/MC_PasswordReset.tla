-------------------------- MODULE MC_PasswordReset --------------------------
(* Small instances of PasswordReset.  Links and request slots are             *)
(* interchangeable, and so are accounts and addresses: no constant tells them *)
(* apart.                                                                     *)
EXTENDS PasswordReset, TLC

CONSTANTS u1, u2, m1, m2, a1, r1, r2, k1, k2, k3

MCAccounts == {u1, u2}
OneAccount == {u1}
MCMails == {m1, m2}
OneMail == {m1}
MCActors == {a1}
MCRequests == {r1, r2}
OneLink == {k1}
ThreeLinks == {k1, k2, k3}

Symmetry == Permutations(Requests) \cup Permutations(Links) \cup Permutations(Accounts)
              \cup Permutations(Mails)
=============================================================================
