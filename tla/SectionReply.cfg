SPECIFICATION Spec
CONSTANTS
    e1 = e1  e2 = e2
    t1 = t1  t2 = t2
    Turns = {t1, t2}
    Entries = {e1, e2}
    REMINDERS = 1
    EXTRACT_REMINDERS = 1
    ASK_LIMIT = 1
    MaxTurns = 3
SYMMETRY Interchangeable
CONSTRAINT ThirdIsTerse
CHECK_DEADLOCK FALSE
INVARIANTS TypeOK NoQuestionBesideCard NothingIsLost AskedOnceBeforeClose
PROPERTIES NeverAsksAgain EmptyCardIsMeant
