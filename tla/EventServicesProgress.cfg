SPECIFICATION EventServicesProgressSpec
CONSTANT None = None
PROPERTIES
    ServicesGoOn
CHECK_DEADLOCK FALSE
