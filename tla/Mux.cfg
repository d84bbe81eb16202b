SPECIFICATION FairSpec
CONSTANTS
    c1 = c1
    c2 = c2
    c3 = c3
    Link = {c1, c2, c3}
    NoLink = NoLink
    MaxReattach = 4
    MaxGeneration = 3
PROPERTY NoStaleInstall
 
