SPECIFICATION Spec
CONSTANTS
  s1 = s1
  s2 = s2
  c1 = c1
  mail = mail
  Mail = Mail
  mail2 = mail2
  None = None
  Platform = Platform
  Users = {u1, u2, u3}
  Requests = {q1}
  Callbacks = {c1, c2}
  Subjects = {s1, s2}
  Emails = {mail, mail2}
  Roles = {"owner", "member"}
  Fold <- MCFold
  EmailOf <- MCEmailOf
  SubjectOf <- MCSubjectOf
SYMMETRY UserSymmetry
 
PROPERTIES NeverTakenOver
CHECK_DEADLOCK FALSE
