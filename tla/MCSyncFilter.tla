---------------------------- MODULE MCSyncFilter ----------------------------
EXTENDS SyncFilter, TLC

MCSetups ==
  [kind : {"WAITFORALL"}, topol : {FALSE}, breakable : BOOLEAN]
    \cup [kind : {"TIMEOUT"}, topol : BOOLEAN, breakable : {TRUE}]
    \cup [kind : {"TIMEOUT", "DONTWAIT"}, topol : {FALSE}, breakable : {FALSE}]

Symmetric == Permutations(Children)
=============================================================================
