SPECIFICATION Spec
CONSTANTS
    Profiles = {p1}
    Local = Local
    Transient = Transient
    None = None
    Splitters = {w1, w2}
    Panes = {t1, t2, t3}
INVARIANTS SessionsMatchPanes
PROPERTIES TimerSparesLiveTabs RestoresLayout EmptyTabsClose
