\* A payload with a line separator in it.
CONSTANTS
    plain = plain
    separated = separated
    Fragment = Fragment
    None = None
    Messages <- MCMessages
    Broken = {separated}
SPECIFICATION Spec
INVARIANTS EveryPayloadReadable
CHECK_DEADLOCK FALSE
