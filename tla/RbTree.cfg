CONSTANT Blocks = {1, 2, 3, 4, 5, 6, 7, 8, 9}
SPECIFICATION Spec
INVARIANTS RedBlack Searches
PROPERTY IsOrderedSet
