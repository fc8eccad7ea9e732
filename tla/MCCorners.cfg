SPECIFICATION FairSpec
PROPERTIES
    DeliversReliably
    EndsOrResets
