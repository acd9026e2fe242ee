--------------------------- MODULE MCAuthSession ---------------------------
EXTENDS AuthSession

\* An account without a role of its own, and an operator
MCClaimSets == {{"USER"}, {"USER", "OPERATOR"}}
=============================================================================
