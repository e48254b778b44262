SPECIFICATION RegistriesSpec
CONSTANTS
    Dispatch = {"d1", "d2", "d3", "d4"}
    RequestId = {"a", "b"}
    Fingerprint = {"f", "g"}
    Nobody = Nobody
    maximum = 1
    pending_maximum = 1
    \* Three waits and two responses over two interactions, with room for one early
    \* response and a memory of one resolved interaction.
    Waiter = {"w1", "w2", "w3"}
    Resolver = {"r1", "r2"}
    Id = {"a", "b"}
    NoOne = NoOne
    configured = 0
    Request = {1, 2, 3, 4, 5}
    RuntimeId = {"i1", "i2"}
    Absent = Absent
    Workload <- MCWorkload
    MaxDrops = 1
    max_runtimes = 1
INVARIANTS
    AnswerIsOwn
    OneResponseEach
    RuntimesAreSound
PROPERTIES
    DispatchesEnd
    RequestsEnd
CHECK_DEADLOCK FALSE
