\* A guest, a supervisor and a driver, one thread and one message.
CONSTANTS
    Handlers = {h1}
    None = None
    ChatHandlers = {c1}
    People = {"guest", "admin", "driver"}
    RoleOf <- OnePerRole
    MaxThreads = 1
    MaxMessages = 1
SPECIFICATION ChatSpec
PROPERTY OnlyThatChannel
