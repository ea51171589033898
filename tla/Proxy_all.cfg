SPECIFICATION MCSpec
CONSTANTS
    init = init
    list = list
    call1 = call1
    call2 = call2
    ping = ping
    Request = {init, list, call1, call2, ping}
    Method <- MCMethod
    Host = Host
    Shim = Shim
    Reaper = Reaper
    None = None
    MaxRetries = 2
    FewRequests = 2
PROPERTIES ImplementsRequestService EndsWithHost
CHECK_DEADLOCK FALSE
