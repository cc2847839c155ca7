CONSTANTS
    Byte = {z, x}
    Zero = z
    Sizes = {0, 1, 3, 4}
    Word = 16
    MaxLen = 4
    MaxBufs = 2
SPECIFICATION Spec
INVARIANTS TypeOK Accounting CopiesInBounds ObjectBlockOwned
PROPERTIES IntactReads ImplementsBoundedBuffer
