\* The catalog as it is: both walkers against each other and against O32.
CONSTANT Entries <- CatalogEntries
SPECIFICATION Spec
INVARIANT TypeOK
INVARIANT LivenessMatchesMarshal
INVARIANT ArgRegsAreO32
