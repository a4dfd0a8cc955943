SPECIFICATION Spec
CONSTANTS
    s1 = s1  s2 = s2  api = api  web = web
    Streams = {s1, s2}
    Routes = {api, web}
    Backends = {b1}
    Policy <- MCPolicy
    Workloads <- MCWorkloads
    GlobalInflight = 2
    UpstreamInflight = 1
    MaxStreams = 2
    MaxBodyChunks = 2
    ChannelCap = 1
    BufferCap = 1
    ReplyCap = 1
INVARIANT BodyChannelCloses
CHECK_DEADLOCK FALSE
