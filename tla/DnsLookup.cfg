SPECIFICATION DnsFairSpec
CONSTANTS
    Queries = {q1, q2}
    Clusters = {c1, c2}
    None = None
    Capacity = 2
    MaxWrites = 1
    MaxMishaps = 2
INVARIANTS NoOrphan FreshWhenQuiet
PROPERTIES AnsweredAgain
