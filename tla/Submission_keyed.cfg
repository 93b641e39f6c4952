\* A generation with an Idempotency-Key.
SPECIFICATION SubmissionSpec
CONSTANTS
    plain = plain
    keyed = keyed
    form = form
    models = models
    Request = {keyed, models}
    PathOf <- MCPathOf
    Keyed = {keyed}
    MaxIdle = 2
INVARIANT
    SubmittedOnce
