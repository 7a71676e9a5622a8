CONSTANTS
    PAGE_SIZE = 2
    Fan = 24
    _start = 1152
    _ctxsws = 1154
    _interrupte = 1156
    _datas = 1156
    _end = 1158
    KernelStack = 4
    maxaddr = 1247
    UART_BASE = 10
    PROCSTACKADDR = 27644
    SWAPAREAADDR = 27646
    MagicPage = 6
    PID = {0, 1, 2}
    MaxCalls = 6
SPECIFICATION Spec
INVARIANTS TypeOK PagesApart SpacesComplete StrayWord StopsHaveCause
PROPERTIES ImplementsSpaces
CHECK_DEADLOCK FALSE
