SPECIFICATION StoreSpec
CONSTANTS
    t1 = t1
    t2 = t2
    t3 = t3
    Texts = {t1, t2, t3}
    Damaged = Damaged
    NoText = NoText
PROPERTIES
    PlainKeyNoLongerUsed
