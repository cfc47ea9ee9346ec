SPECIFICATION Spec
CONSTANTS
    q1 = q1
    q2 = q2
    c1 = c1
    Request = {q1, q2}
    Connection = {c1}
    ConnectionOf <- SharedConnection
    HeaderName = {"a", "host", "content-length", "transfer-encoding", "cookie", ":authority"}
    HeaderValue = {"1", "chunked"}
    Cased <- SampleCased
    MaxHeaders = 3
    Domain = {"localhost", "a"}
    Ip = {"10.0.0.1", "::1", "::a"}
    Ip6 = {"::1", "::a"}
    Decimal = {"::1"}
    LastGroup <- SampleGroups
    Shortened <- SampleShortened
    Opened <- SampleOpened
    Local = {"localhost", "::1"}
    Remote = {"::1", "10.0.0.9"}
    Port <- SamplePorts
    Replacement <- SampleReplacements
CHECK_DEADLOCK FALSE
INVARIANTS
    UpstreamAborted
