\* One person of each role, one thread and one message.
CONSTANTS
    Handlers = {h1}
    None = None
    ChatHandlers = {c1}
    People = {"guest", "admin", "support", "splizer", "driver"}
    RoleOf <- OnePerRole
    MaxThreads = 1
    MaxMessages = 1
SPECIFICATION ChatSpec
INVARIANT OnlyTheLaneHears
