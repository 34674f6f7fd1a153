SPECIFICATION Spec
CONSTANTS
    i1 = i1
    i2 = i2
    i3 = i3
    r1 = r1
    r2 = r2
    Users = {u1}
    Items = {i1, i2}
    Restaurants = {r1, r2}
    RestaurantOf <- MCRestaurantOf
    Quantities = {1}
    MaxQuantity = 1
    MaxUses = 1
    Endpoints = {"place", "create"}
    Orders = {k1, k2}
    NoOrder = NoOrder
    Sessions = {s1, s2}
SYMMETRY Symmetry
INVARIANTS
    CouponNeverAhead
PROPERTIES
    NothingReadIsDropped
