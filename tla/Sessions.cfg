\* Two nodes that share Redis, two requests at a time, three altogether; a second session,
\* mishaps and changes of permissions, three of these at most.
CONSTANTS
  Node = {n1, n2}
  Session = {1, 2}
  Thread = {r1, r2}
  KickPrevious = TRUE
  MaxEvents = 3
  MaxCalls = 3
SPECIFICATION Spec
INVARIANTS TypeOK LogoutLasts PermissionsFresh StaysServed NothingUnsynced
SYMMETRY Symmetry
CHECK_DEADLOCK FALSE
