\* One job and one cancel() between the poll and the claim of its thread; the
\* second job is there to show that it takes no part.
CONSTANT JobIds = {j1, j2}
SPECIFICATION Spec
PROPERTY TerminalIsFinal
CHECK_DEADLOCK FALSE
