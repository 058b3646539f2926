\* A code of version 1, 21 modules a side, in every style; the calls of the
\* other packages are listed in MCPackages.
CONSTANTS
    Count = 21
    Matrix <- MCMatrix
    Drawings <- MCDrawings
    Calls <- MCCalls
    HelperCalls <- MCHelperCalls
    NodeCalls <- MCNodeCalls
SPECIFICATION Spec
INVARIANTS
    RendersCode
    LogoLeavesEnough
    NodesAreTheirValues
    CookiesRewritten
    ReplyIsFaithful
    ProxiesAreWired
    AppIsConfigured
\* A drawing ends and a call is answered.
CHECK_DEADLOCK FALSE
