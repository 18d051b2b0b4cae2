CONSTANTS
    Listing <- MCListing
    Param <- MCParam
    Rank <- MCRank
    Fold <- MCFold
    Occurs <- MCOccurs
SPECIFICATION Spec
INVARIANT SearchBarFindsTags
