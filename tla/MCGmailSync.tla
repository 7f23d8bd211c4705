----------------------------- MODULE MCGmailSync -----------------------------
EXTENDS GmailSync, TLC

CONSTANTS m1, m2, m3, m4, w1, w2
MCPresent == <<m1, m2>>
MCSymmetry == Permutations({m3, m4})
===============================================================================
