---------------------------- MODULE MCNodeState ----------------------------
EXTENDS NodeState
=============================================================================
