\* An admin asks for the second page of the users, signs in by a mailed link, and comes
\* to the first.
SPECIFICATION Spec
CONSTANTS
  NoOne = NoOne  a = a  b = b
  Confs <- ByMail
  Addresses = {a, b}
  Admins = {a}
  Typed = {"/admin/users?page=2"}
  Mailed = {"/admin/users?page=2"}
  MaxSessions = 2
  MaxMails = 1
INVARIANT DestinationPreserved
