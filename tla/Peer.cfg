SPECIFICATION Spec
CONSTANTS
    Ctl = {c1}
    Others = {o}
    Nil = Nil
    Asked = {"quit", "part"}
    InCap = 3
    OutCap = 5
    SockCap = 2
    CtlCap = 3
    MaxReq = 2
    MaxEvents = 1
INVARIANTS AnswerFirst DescriptorsOwned
PROPERTIES CtlTruthful HookReturns LeaversNoticed
CHECK_DEADLOCK FALSE
