\* One overview and one detail page; the data change once.
SPECIFICATION PagesSpec
CONSTANTS
    MaxVersion = 1
INVARIANTS
    PagesTypeOK
PROPERTIES
    ShownNeverRegresses
    OverviewConverges
    DetailFollowsItsMarket
