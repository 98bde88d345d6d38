--------------------------- MODULE MCTenantUsers ---------------------------
(* Small instances of TenantUsers for TLC.                                  *)
EXTENDS TenantUsers, TLC

CONSTANTS s1, s2, mail, Mail, mail2, c1

\* Mail and mail differ in case only.
MCFold == [e \in Emails |-> IF e = Mail THEN mail ELSE e]
MCEmailOf == [s \in Subjects |-> IF s = s1 THEN mail ELSE mail2]
MCSubjectOf == [c \in Callbacks |-> IF c = c1 THEN s1 ELSE s2]

\* Ids of rows are interchangeable.
UserSymmetry == Permutations(Users)
=============================================================================
