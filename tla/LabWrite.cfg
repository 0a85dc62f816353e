SPECIFICATION Spec
CONSTANTS
    Requests <- SomeRequests
    Received <- SomeReceived
    Leads <- IdleLeads
    Tails <- SomeTails
    Changes <- SomeChanges
INVARIANTS
    CraftedIsDecoded
    ChangeIsNoticed
    WriteFieldsInPayload
    DiffAgrees
