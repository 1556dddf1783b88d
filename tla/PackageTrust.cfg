\* Two overlapping refreshes; bundles 1 and 2, snapshots 1, a second 1, 2 and one whose
\* revision the database cannot store.  The origin can settle on the pair 2, 2.
SPECIFICATION FairSpec
CONSTANTS
    t1 = t1
    t2 = t2
    s1 = s1
    s1x = s1x
    s2 = s2
    s9 = s9
    None = None
    Refreshes = {k1, k2}
    Bundles = {t1, t2}
    Snapshots = {s1, s1x, s2, s9}
    Sequence <- SequenceOf
    Revision <- RevisionOf
    BoundTo <- Bound
    Publishers <- PublishersOf
    Limit = 8
    Untagged = {s1x}
    Perishable = {t1}
    Failures = 1
INVARIANTS
    TypeOK
    OneDocumentPerNumber
    NotModifiedIsCached
PROPERTY CatchesUp
