SPECIFICATION Spec
CONSTANTS
    p1 = p1
    p2 = p2
    g1 = g1
    g2 = g2
    r1 = r1
    r2 = r2
    None = None
    Peers <- TwoPeers
    Groups <- TwoGroups
    Rules <- TwoRules
    MaxChanges = 2
    LastIP = 4
SYMMETRY Symmetry
INVARIANTS
    GrantedIsVisible
    VisibleIsGranted
    
