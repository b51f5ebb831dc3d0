SPECIFICATION Spec
CONSTANTS
    Instances = {i1, i2}
    i1 = i1
    Nobody = Nobody
    Evals = {e1}
    EvalOwner <- Owner
    Records = {r1}
    TTL = 2
    Limit = 1
    MaxErrors = 1
    MaxNights = 1
INVARIANTS SpendBounded RunsOverlapOnlyAfterLapse LabelledOnce ScoreOfRightAnswer
PROPERTIES LeaseImplemented SomebodyLeads
