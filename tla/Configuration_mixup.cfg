CONSTANTS
    Requests = {r1}
    MaxAudit = 1
    Objects <- MCObjects
    TypeOf <- MCTypeOf
    MaxOpens = 2
    MaxSaves = 2
    MaxPrompts = 2
SPECIFICATION ConfigurationSpec
INVARIANT EditorShowsItsObject
