\* One tab of a browser, with everything switched on and on a developer machine.
SPECIFICATION Spec
CONSTANTS
  NoOne = NoOne  a = a  b = b
  Confs <- TheConfs
  Addresses = {a, b}
  Admins = {a}
  Typed = {"/premium", "/admin"}
  Mailed = {"/account", "/premium", "/admin", "/admin/users?page=2", "/account/delete"}
  MaxSessions = 2
  MaxMails = 1
INVARIANTS TypeOK OfferedIsRouted MagicLinkLands RedirectsEnd
PROPERTIES FormActsForItsPage ConnectKeepsSession
