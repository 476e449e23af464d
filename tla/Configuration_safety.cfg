CONSTANTS
    Requests = {r1, r2, r3}
    MaxAudit = 1
    Objects <- MCObjects
    TypeOf <- MCTypeOf
    MaxOpens = 2
    MaxSaves = 2
    MaxPrompts = 2
SYMMETRY Symmetry
SPECIFICATION ConfigurationSpec
INVARIANTS
    AuditIsNewest
    OnlyTrustedWrites
    SuccessEntryIsTrue
    OneEntryPerRequest
    AnsweredWriteIsLogged
    CalmEditorsKeepApart
PROPERTY AnswerIsTheWrites
