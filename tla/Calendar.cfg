\* The ends of seasons, by name and by the day they are asked for.
SPECIFICATION Spec
CONSTANTS
    Names <- SeasonNames
    Days <- SomeDays
    DayMax = 24855
    IntMax = 60000
INVARIANTS
    TypeOK SeasonsLastTwice DataOutlastsItsPeriod
PROPERTIES
    SeasonsStay
