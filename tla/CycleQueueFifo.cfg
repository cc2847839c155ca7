CONSTANTS
    Byte = {z, x}
    Zero = z
    Sizes = {4}
    Word = 16
    MaxLen = 4
    MaxBufs = 2
SPECIFICATION Spec
PROPERTIES ReadsFifo
