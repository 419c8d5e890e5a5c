CONSTANTS
    Thread = {t1, t2}
    Width = 3
    Database <- MCDatabase
    TeredoPrefix <- MCPrefix
    ClientBits = 1
    Switches = {0, 1, 2}
SPECIFICATION Spec
SYMMETRY Symmetric
INVARIANTS IndexReadsInside BlockHasOneValue  
