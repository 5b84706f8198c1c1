SPECIFICATION Spec
CONSTANTS
    Blocks = {2, 3, 4, 5, 6, 7}
    BlockSize = 1
    MaxDataBlk = 2
    Values = {1, 2}
    MaxSize <- MCMaxSize
PROPERTY WriteKeepsOtherBytes
