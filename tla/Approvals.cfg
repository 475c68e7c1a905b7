SPECIFICATION FairSpec
CONSTANTS
    i1 = i1  i2 = i2
    a1 = a1  a2 = a2
    c1 = c1  c2 = c2
    ws = ws  rest = rest
    Approval = {i1, i2}
    Action = {a1, a2}
    Context = {c1, c2}
    ContextOf <- MCContextOf
    Task = {ws, rest}
    Socket = {ws}
    SelfReporting = {a2}
    MaxCrashes = 1
    NoAction = NoAction
    NoReceipt = NoReceipt
INVARIANTS TypeOK LedgerTruth ExecutionTruth ClaimTruth
PROPERTIES ReceiptsFinal ImplementsExactlyOnce ClaimSettles
