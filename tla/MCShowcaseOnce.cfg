\* One client that retries after a failure, as the response invites it to.
SPECIFICATION Spec
CONSTANTS
  Requests = {r1}
  MaxStarts = 2
INVARIANTS AtMostOneExecution
