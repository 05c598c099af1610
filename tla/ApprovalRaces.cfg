SPECIFICATION Spec
CONSTANTS
  owner = owner
  peer1 = peer1
  peer2 = peer2
  h1 = h1
  h2 = h2
  h3 = h3
  Admin = {owner, peer1, peer2}
  Owner = owner
  Nobody = Nobody
  Handler = {h1, h2, h3}
  MaxRequests = 2
  MaxFlips = 1
SYMMETRY Interchangeable
INVARIANTS TypeOK OneWaiting ApprovalWasSpent
PROPERTIES LedgerKept
