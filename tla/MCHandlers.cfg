CONSTANTS
    Listing <- MCListing
    Param <- MCParam
    Rank <- MCRank
    Fold <- MCFold
    Occurs <- MCOccurs
    Known <- MCKnown
    Dotted <- MCDotted
    Nothing = Nothing
SPECIFICATION HandlersSpec
INVARIANT TypeOK
INVARIANT NothingLostNothingHidden
INVARIANT GroupsInOrder
INVARIANT RefreshKeepsOrder
INVARIANT PageAndAPIAgree
INVARIANT LoggedIsSent
INVARIANT PanicIsAnswered
INVARIANT CardsAgree
INVARIANT PortsAccountedFor
INVARIANT RepoURLNamesImage
