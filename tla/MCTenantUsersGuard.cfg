SPECIFICATION Spec
CONSTANTS
  s1 = s1
  s2 = s2
  c1 = c1
  mail = mail
  Mail = Mail
  mail2 = mail2
  None = None
  Platform = Platform
  Users = {u1, u2}
  Requests = {q1}
  Callbacks = {c1}
  Subjects = {s1}
  Emails = {mail, mail2}
  Roles = {"owner", "admin", "member"}
  Fold <- MCFold
  EmailOf <- MCEmailOf
  SubjectOf <- MCSubjectOf
INVARIANTS ManagersPassGuard
CHECK_DEADLOCK FALSE
