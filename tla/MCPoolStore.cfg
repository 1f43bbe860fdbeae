SPECIFICATION Spec
CONSTANTS
    t1 = t1  t2 = t2
    f1 = f1  f2 = f2
    p1 = p1  p2 = p2  p3 = p3
    blank = blank  v1 = v1
    Thread = {t1, t2}
    Nobody = Nobody
    Frame = {f1, f2}
    NoFrame = NoFrame
    Page = {p1, p2, p3}
    NoPage = NoPage
    Value = {v1}
    Blank = blank
    Unowned = Unowned
    Abandoned = Abandoned
    MaxLsn = 1
    HasHook = TRUE
    WritersFirst = FALSE
    Quiet = FALSE
    Faults = {"io"}
SYMMETRY Interchangeable
INVARIANTS FramesAccounted GuardsKeepTheirPage WalRule
PROPERTY ImplementsPageStore
CHECK_DEADLOCK FALSE
