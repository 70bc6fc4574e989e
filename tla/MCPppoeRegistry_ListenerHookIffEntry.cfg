CONSTANTS
    Links <- MCLinks
    Slots <- OneSlot
    Templates <- MCTemplates
    InitLinks <- MCInitLinks
    p1 = p1
    p2 = p2
    Paths = {p1, p2, undef}
    Undefined = undef
    Services = {any, s1}
    AnyService = any
    NoPath = NoPath
    NoSlot = NoSlot
    NoList = NoList
    EtherHooks <- DivertHook

SYMMETRY PathSymmetry
SPECIFICATION Spec

INVARIANT ListenerHookIffEntry
