\* Three contacts: one before, at and after every place of a change.
CONSTANTS
    Contacts = {c1, c2, c3}
    Null = Null
    LastNames = {1, 2}
    Texts <- MCTexts
    AnyName = AnyName
    Number <- MCNumber
    Has <- MCHas
SPECIFICATION FairSpec
INVARIANTS
    ListIsSound
    OpensTheOneAsked
    SavedAndLoaded
PROPERTY DeletionEnds
CHECK_DEADLOCK FALSE
