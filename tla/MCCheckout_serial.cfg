SPECIFICATION Spec
CONSTANTS
    i1 = i1
    i2 = i2
    i3 = i3
    r1 = r1
    r2 = r2
    Users = {u1}
    Items = {i1, i2}
    Restaurants = {r1, r2}
    RestaurantOf <- MCRestaurantOf
    Quantities = {1, 2}
    MaxQuantity = 2
    MaxUses = 1
    Endpoints = {"create"}
    Orders = {k1, k2, k3}
    NoOrder = NoOrder
    Sessions = {s1}
SYMMETRY Symmetry
INVARIANTS
    CouponExact
    OrderOfOneRestaurant
PROPERTIES
    CheckoutTakesCart
