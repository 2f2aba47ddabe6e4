\* Two successive connections, one pion error, one duplicated answer.
SPECIFICATION FairSpec
CONSTANTS
    MaxGen = 2
    MaxOffers = 2
    MaxConns = 2
    MaxFaults = 1
    MaxDups = 1
INVARIANTS
    NegotiatingIffOffered
    StoredBehindOffer
    ChangeNotForgotten
    OneOutstandingOffer
    AnswersInOrder
PROPERTIES
    ImplementsExchange
    StoredOfferAnswered
    SteadyCatchesUp
\* A closed or idle peer connection may rest for ever.
CHECK_DEADLOCK FALSE
