SPECIFICATION Spec
CONSTANTS
  k1 = k1
  o1 = o1
  crm = crm
  mail = mail
  Conn = {k1, o1}
  Service = {crm, mail}
  Config = {1, 2}
  Failure = {"error"}
  Agent = {a1}
  Run = {r1}
  Session = {u1, u2}
  ServiceOf <- Services
  OAuth = {mail}
  Needs <- NeedsCrm
  NoConn = NoConn
  NoRun = NoRun
  MaxCredentials = 3
INVARIANTS
  VaultConsistent
  CallsAsQueued
PROPERTIES
  QueuedAsConnected
SYMMETRY Symmetric
CHECK_DEADLOCK FALSE
