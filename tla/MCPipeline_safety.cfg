CONSTANTS
    v = v  w = w  t = t  e = e  n = n  u = u
    NoReceipt = NoReceipt
    Consumers = {1, 2}
    Envelopes = {v, w, t}
    Events = {e}
    EventOf <- AllOfE
    Content <- Contents
    Tampered = {t}
    MaxFaults = 1
    Notes = {n}
    Users = {u}
    OwnerOf <- OwnedByU
    NoteOf <- AllN
    Reader = u
    Requests = {1, 2}
    MaxBusy = 2
SPECIFICATION PipelineSpec
INVARIANTS ProcessedOnce AnswersTrue
PROPERTIES NoStaleCount EveryEventNotifies BellTracksInbox
CHECK_DEADLOCK FALSE
