CONSTANTS
    n1 = n1  n2 = n2  one = one  both = both
    publicAdmin = publicAdmin  publicSsh = publicSsh  mysql = mysql
    Nodes <- MCNodes
    Cidrs <- MCCidrs
    Files <- AllFiles
    ConfigOf <- MCConfigOf
    NoFile = NoFile
    OptionSets <- OnboardOnly
    MaxFaults = 0
SPECIFICATION Spec
INVARIANTS OnboardedHasFirewall
