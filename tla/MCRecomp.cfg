\* The liveness pipeline on the skeleton programs and the rejected inputs.
CONSTANTS
    TextVaddr <- MCTextVaddr
    Programs <- MCPrograms
    MaxQueue <- MCMaxQueue
SPECIFICATION Spec
\* every program ends in "done" or "abort"
CHECK_DEADLOCK FALSE
INVARIANT TypeOK
 
INVARIANT BwdIsLfp
INVARIANT SignaturesMatchSpec
INVARIANT GotosHaveLabels

PROPERTY Terminates
PROPERTY ImplementsLivenessPasses
