SPECIFICATION Spec
CONSTANTS
  Job = {j1, j2, j3}
  None = None
SYMMETRY JobSymmetry
INVARIANTS TypeOK OneBodyAtATime TurnConserved
PROPERTY ImplementsSerialExecution
\* clients may stop submitting, and then nothing is left to do
CHECK_DEADLOCK FALSE
