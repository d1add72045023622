CONSTANTS
    l1 = l1  l2 = l2  l3 = l3
    h1 = h1  h2 = h2
    layout = layout  page1 = page1  slot1 = slot1  page2 = page2
    None = None  u1 = u1  u2 = u2
    Links = {l1, l2, l3}
    Hrefs = {h1, h2}
    Segments = {layout, page1, slot1, page2}
    LinkHref <- MCLinkHref
    FullLinks = {l3}
    NextUrls = {u1, u2}
    Tree <- MCTree
    Parent <- MCParent
    Current = {}
    Pages = {page1, page2}
    HasLoading = {layout}
    PPRRoutes = {h1}
    Interceptable = {h2}
    MAX_CONCURRENT_PREFETCH_REQUESTS = 2
    DynamicSegments = {layout, page1}
    MaxEvents = 3
SPECIFICATION LiveSpec
CHECK_DEADLOCK FALSE
INVARIANTS
    TypeOK
    TasksAreKept
    BandwidthIsAccounted
    PendingIsFetched
    MappedIsEvictable
    OldAnswersStayOut
PROPERTIES
    FullStays
    PrefetchEnds
