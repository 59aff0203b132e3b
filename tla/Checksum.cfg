\* Octets of two bits, words of four: three words and an odd octet are enough
\* for the two halves of the sum to carry.
SPECIFICATION Spec
CONSTANTS
    ByteMod = 4
    Sizes = {0, 1, 2, 5, 6}
CHECK_DEADLOCK FALSE
INVARIANT VerifyIsExact
INVARIANT DamageIsDetected
INVARIANT ValidUnlessCarry
INVARIANT UdpDropsOnlyCarriesAndOnes
