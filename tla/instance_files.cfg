SPECIFICATION Spec
CONSTANTS
    Installer = {a, b}
    Enroller = {x, y}
    Target = {t1}
    None = None
INVARIANTS
    TypeOK
    ConfigStandsForInstance
    ReportedInstanceLasts
    ActiveIsDelivered
PROPERTIES
    OnlyAuthorChanges
CHECK_DEADLOCK FALSE
