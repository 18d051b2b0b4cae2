CONSTANTS
    Filters = {all, running}
    NoFilter = all
    Containers = {c1, c2}
    None = None
SPECIFICATION FairSpec
INVARIANT TypeOK
INVARIANT ListFitsFilters
INVARIANT PanelShowsChosen
INVARIANT OneTerminalInPanel
INVARIANT StreamOrTimer
PROPERTY Reconnects
