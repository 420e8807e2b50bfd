SPECIFICATION Spec
CONSTANTS
    n1 = n1
    n2 = n2
    NoteTypes = {n1, n2}
    MaxNotes = 2
    MaxOps = 3
    MaxFaults = 2
CHECK_DEADLOCK FALSE
SYMMETRY NoteTypeSymmetry
INVARIANT TypeOK
INVARIANT RecordedUnlessPending
INVARIANT RenewedOnlyByFault
PROPERTY CrashKeepsNotes
