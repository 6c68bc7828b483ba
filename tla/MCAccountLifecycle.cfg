CONSTANTS
  Account = {s1, s2}
  None = None
SPECIFICATION Spec
SYMMETRY Servers
INVARIANTS ForgottenStaysForgotten OneAccountPublished BearerStaysInCustody
PROPERTY ConnectedIsKept
