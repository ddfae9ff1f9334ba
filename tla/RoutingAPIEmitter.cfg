SPECIFICATION Spec
CONSTANTS
    Mappings = {m1, m2}
    TTL = 4
INVARIANTS TypeOK SurvivesOneFault WantedMappingsLive StaleMappingsExpire
PROPERTY MakeBeforeBreak
