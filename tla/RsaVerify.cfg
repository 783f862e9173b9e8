SPECIFICATION Spec
CONSTANTS
    Limbs = 2
    LimbBits = 2
    ExponentBits = 2
    MinExponent = 3
INVARIANTS
    SignedIsValid
