SPECIFICATION SortSpec
CONSTANT Listing <- ByTime
INVARIANT NewestFirst
CHECK_DEADLOCK FALSE
