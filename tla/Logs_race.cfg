\* A container that writes one character, a fetch, and a remove.
CONSTANTS
    MaxLog = 1
    MaxTail = 1
    None = none
SPECIFICATION Spec
INVARIANT MissingLogIsEmpty
CHECK_DEADLOCK FALSE
