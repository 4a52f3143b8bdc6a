SPECIFICATION FairSpec
CONSTANTS
    a = a
    b = b
    Chats = {a, b}
    Shapes <- AllShapes
    Setups <- All
    MaxMessages = 4
    None = None
INVARIANTS
    DispatchInv
    DeliveryInv
PROPERTIES
    DispatcherProgress
