SPECIFICATION Spec
CONSTANTS
    p1 = p1
    c1 = c1
    None = None
    Producers = {p1}
    Consumers = {c1}
    Threads = {p1, c1}
    buffer_size = 1
    item_size = 2
    Data = {1, 2}
CHECK_DEADLOCK FALSE
PROPERTY AllQuit
