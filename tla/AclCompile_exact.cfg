SPECIFICATION Spec
CONSTANTS
  u1 = u1 u2 = u2 g1 = g1 g2 = g2 root = root mid = mid top = top p1 = p1
  Principal = {u1, u2} Group = {g1, g2} Container = {root, mid, top} Process = {p1} None = None
  Parents <- MCParents
  Hints <- MCHints
  Edges <- MCEdges
  Grants <- MCGrants
  Memberships <- MCMemberships
  MaxDepth = 2 TTL = 2 MaxLevel = 2 MaxEdits = 4
INVARIANTS StaleOnlyWithinTTL
PROPERTY ExactWhenSettled
