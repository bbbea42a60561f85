CONSTANTS
    Clients = {"a", "b"}
    Requests <- Binding
    Capacity = 2
    Memory = 3
    MaxBytes = 2
    Notice = 1
    Batch = 2
    MaxPending = 1
SPECIFICATION Spec
CHECK_DEADLOCK FALSE
INVARIANT OwnedByLiving
