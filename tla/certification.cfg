SPECIFICATION Spec
CONSTANTS
    Campaigns = {"CERT"}
    Access = {"Z_PURCHASER", "Z_GR_CLERK"}
    Persons = {"manager1", "manager2"}
    Reviewer <- TwoManagers
    Verdicts = {"certify", "revoke", "skip"}
INVARIANTS
    TypeOK
    CompletedMeansDecided
    LateItemsAreMarked
    DecisionsAreAccountable
PROPERTY
    ImplementsRegister
