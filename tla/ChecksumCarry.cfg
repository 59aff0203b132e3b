\* The smallest packets whose checksum is computed wrongly.
SPECIFICATION Spec
CONSTANTS
    ByteMod = 4
    Sizes = {6}
CHECK_DEADLOCK FALSE
INVARIANT UndamagedIsAccepted
