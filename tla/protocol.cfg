CONSTANTS
    Requests <- MCRequests
    FieldWords <- MCFieldWords
    Networks <- MCNetworks
    Encodings <- MCEncodings
    MaxEdits = 1
    MAX_REST_PARAMS = 2
    BATCH_COMMAND_LIMIT = 3
    BATCH_WEIGHT_BUDGET = 6
    BATCH_COMMAND_WEIGHTS <- MCWeights
    Entries <- MCEntries
    RawCommands <- MCRawCommands
    Commands = 3
    CaretOf <- MCCaretOf
    Activations <- MCActivations
    Heights = {4}
    Payees = {"p", "q"}
    Amounts = {1, 2}
    GasSchedule <- MCSchedule
    Callers = {"s", "a", "b"}
    Asks <- MCAsks
    Views <- MCViews
    Downs <- MCDowns
    MaxMoves = 1
SPECIFICATION Spec
INVARIANTS
    WireKeepsTheFields
    DecoderAgrees
    BatchVerdictsAgree
    SignerAndChainAgree
    PlanSettles
    ReservationsAreSeen
    NoFalseBlock
    NoSilentGreen
CHECK_DEADLOCK FALSE
