\* A phone, a share and the share of another user; two calls on the phone.
CONSTANTS
    phone = phone
    share = share
    others = others
    Roots <- AllRoots
    Phones <- OnePhone
    Hidden <- OthersShare
    Root <- phone
    MaxEvents = 2
    MaxCalls = 2
    MaxStarts = 1
SPECIFICATION Spec
INVARIANTS TypeOK ViewsFollow
PROPERTY CallSettles
\* The client may stop calling.
CHECK_DEADLOCK FALSE
