SPECIFICATION Spec
CONSTANT Families <- MCTypeFamilies
CONSTANT Members <- MCMembers
CONSTANT Names <- MCNames
INVARIANT NamesAreRead
CHECK_DEADLOCK FALSE
