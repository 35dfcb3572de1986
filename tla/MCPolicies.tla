---------------------------- MODULE MCPolicies ----------------------------
EXTENDS Policies

CONSTANTS b1, b2, r, s

Two == {b1, b2}

add(rs)    == [op |-> "add", rules |-> rs]
remove(rs) == [op |-> "remove", rules |-> rs]

\* AssignRole twice, SetRolePermissions and RemoveRole.
Calls == {<<add({r})>>, <<add({s})>>, <<remove({r, s}), add({r})>>,
          <<remove({r}), remove({s})>>}
===========================================================================
