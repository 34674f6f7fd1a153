SPECIFICATION MCSpec
CONSTANTS
    Sessions = {s1, s2}
    Phones = {ph1}
    Patient = {ph1}
    MaxCodes = 3
    MaxAttempts = 3
    Users = {u1, u2}
    Single = {u1}
    u1 = u1
    u2 = u2
    MaxTokens <- MCMaxTokens
    Categories = {c1, c2}
    Items = {i1, i2}
    NoItem = NoItem
    Offers = {o1, o2}
    Delivered = {k1, k2, k3}
    Ratings = {1, 2}
    NoReview = NoReview
    Addrs = {ad1, ad2}
    r1 = r1
    r2 = r2
    f1 = f1
    f2 = f2
    Dishes = {f1, f2}
    Kitchens = {r1, r2}
    KitchenOf <- MCKitchenOf
    DishRows <- MCDishRows
    KitchenRows <- MCKitchenRows
    CouponRows <- MCCouponRows
    Baskets <- MCBaskets
    None = None
    MaxWaiting = 5
    MaxFree = 1
    Distances = {0, 199, 200, 350}
    Sales = {x1, x2}
    NoSale = NoSale
    Amounts = {997}
    Pays = {4000}
    FirstDays <- MCFirstDays
    Epochs <- MCEpochs
    Leaps <- MCLeaps
    MaxLeaps = 2
SYMMETRY Symmetry
CHECK_DEADLOCK FALSE
INVARIANTS
    CodeIsSpent
    PartnersRegistered
    StaysLoggedIn
    ColumnsAgree
    ReportsAgree
PROPERTIES
    MenuKept
    DefaultMoves
    
