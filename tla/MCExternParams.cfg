\* Every parameter string of up to MaxArgs arguments: the walker's missing
\* alignment of d, l and j against the O32 rule of spec section 4.5.
CONSTANT Entries <- ShortEntries
SPECIFICATION Spec
INVARIANT ArgRegsAreO32
