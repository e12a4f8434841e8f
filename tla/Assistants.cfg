\* One page and, per behaviour, one of the five loads of MCAssistants.
SPECIFICATION Spec
CHECK_DEADLOCK FALSE
CONSTANTS
    a1 = a1
    a2 = a2
    a3 = a3
    c1 = c1
    q1 = q1
    q2 = q2
    snapshot = snapshot
    ranking = ranking
    detail = detail
    draft = draft
    reverse = reverse
    fact1 = fact1
    fact2 = fact2
    None = None
    Unknown = Unknown
    Scenarios = {s1, s2}
    Baseline = s1
    Ttl = 1
    Loads <- MCLoads
    Asks <- MCAsks
    Openers <- MCOpeners
    Selections <- MCSelections
    MaxProposals = 2
    Chats = {c1}
    Calls <- MCCalls
    ToolOf <- MCToolOf
    ItemsOf <- MCItemsOf
    FollowUps <- MCFollowUps
    Mandatory <- MCMandatory
    Fallback <- MCFallback
    MaxRounds = 4
    CallsPerRound = 2
    EvidenceLimit = 3
    Questions = {q1, q2}
    Filters = {d1}
INVARIANTS
    NoScenarioIsMixed
    NumbersMeanWhatWasShown
    RecentConversationsAreKept
    DraftsAreAnnounced
    TypeOK
PROPERTIES
    QuestionsAreSettled
