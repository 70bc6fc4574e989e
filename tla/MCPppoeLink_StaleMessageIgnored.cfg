CONSTANTS
    Links <- MCLinks
    Slots <- MCSlots
    p1 = p1
    s1 = s1
    Paths = {p1, undef}
    Undefined = undef
    Services = {s1}
    NoPath = NoPath
    NoSlot = NoSlot
    NoList = NoList
    EtherHooks <- MCEtherHooks
    LinkPath <- MCLinkPath
    LinkService <- MCLinkService
    IncomingLinks <- MCIncomingLinks
    MaxPayload <- MCMaxPayload
    PeerPayloads <- MCPeerPayloads
    PayloadInputs <- MCPayloadInputs
    MaxGen <- MCMaxGen
    MaxSessions <- MCMaxSessions
    MaxQueue <- MCMaxQueue

SPECIFICATION Spec

PROPERTY StaleMessageIgnored
