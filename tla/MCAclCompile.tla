----------------------------- MODULE MCAclCompile -----------------------------
EXTENDS AclCompile

CONSTANTS u1, u2, g1, g2, root, mid, top, p1

MCParents == <<root, mid>>
MCHints   == {{}, {<<g1, 1>>, <<u2, 2>>}}
MCEdges   == {<<top, root>>, <<mid, top>>, <<root, mid>>}
MCGrants  == {<<root, g1, -1>>, <<mid, g1, 1>>, <<top, u1, 2>>, <<root, u1, 1>>}
MCMemberships == {<<g1, {u2}, {g2}>>, <<g2, {u1}, {g1}>>}
===============================================================================
