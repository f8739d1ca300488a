CONSTANT Request = {r1, r2}
SPECIFICATION Spec
INVARIANT RequestsAreDrained
CHECK_DEADLOCK FALSE
