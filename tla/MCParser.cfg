SPECIFICATION Spec
CONSTANT Families <- MCFamilies
CONSTANT Members <- MCMembers
CONSTANT Names <- MCNames
INVARIANT TypeOK
INVARIANT LexesAsWritten
INVARIANT ReadsBack
INVARIANT LosesNothing
INVARIANT MovesOnOrComplains
CHECK_DEADLOCK FALSE
