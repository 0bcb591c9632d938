\* Three contacts, of which the number typed is part of two names.
CONSTANTS
    Contacts = {c1, c2, c3}
    Null = Null
    LastNames = {1, 2}
    Texts <- MCTexts
    AnyName = AnyName
    Number <- MCNumber
    Has <- MCHas
SPECIFICATION Spec
INVARIANT SearchOpensTheHit
CHECK_DEADLOCK FALSE
