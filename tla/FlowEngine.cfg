\* Two requests at a time: on one instance, which two approvals may pass on twice,
\* with one mishap, or on two instances.  Where the second node has the first one's
\* key, that takes the place of the mishap or the second instance.
CONSTANTS
  Thread = {r1, r2}
  Assignees <- BothThenOne
  AllNodes <- OnlyFirst
  WithVars = TRUE
  MaxEvents = 2
  MaxRows = 5
SPECIFICATION Spec
INVARIANTS TypeOK NoNodeSkipped NotStranded RowsAgree
PROPERTIES DecisionsKept VariablesKept ApprovalSpec
SYMMETRY ThreadSymmetry
CHECK_DEADLOCK FALSE
