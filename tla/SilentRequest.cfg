SPECIFICATION Spec
CONSTANTS
    NoOwner = NoOwner
    ToolCount = 1
    MaxCalls = 1
    Messages <- FewMessages
    MaxLines = 1
INVARIANTS
    SilenceMeansNotification
