\* A number of up to two digits and a text of up to two words; two
\* configurations to a boot.
SPECIFICATION ConfigSpec
CONSTANTS
    Typed = {0, 12, 21}
    Junk = {0}
    Glued = {112}
    MaxVersions = 2
    NoFile = NoFile
    Off = Off
    Layout <- mc_Layout
    Numbers <- mc_Numbers
    Limit <- mc_Limit
    Texts <- mc_Texts
    Shorter <- mc_Shorter
    Default <- mc_Default
INVARIANTS
    BootInRange
    BootCoherent
