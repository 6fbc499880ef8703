SPECIFICATION Spec
CONSTANTS
    Clients <- MCClients
    Chatters <- MCClients
    Rooms <- MCRooms
    Identities <- MCIdentities
    Resources <- MCResources
    Authorized <- MCAuthorized
    Claims <- MCClaims
    Actions <- MCActions
    MaxMessages <- MCMaxMessages
    MaxChat = 2
CHECK_DEADLOCK FALSE
INVARIANTS
    TypeOK
    TrustBoundary
    PresenceExact
    ChatOrder
