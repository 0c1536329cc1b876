SPECIFICATION Spec
CONSTANTS
    Sender = {s1, s2, s3}
    MaxGap = 4
    MaxRxGrants = 5
SYMMETRY Symmetry
INVARIANTS
    AnnouncedIsExpected ReceiverNeverAborts FifoIsAhead
