SPECIFICATION Spec
CONSTANTS
    Rows <- MCRows
    Addresses <- MCAddresses
    Amounts = {5, 6}
    Times = {1, 2, 3}
    Lists <- MCLists
INVARIANTS
    TypeOK
    FindsExactly
    ArraysReadBack
