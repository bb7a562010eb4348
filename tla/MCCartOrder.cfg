SPECIFICATION Spec
CONSTANTS
    a1 = a1
    a2 = a2
    a3 = a3
    u1 = u1
    d1 = d1
    k1 = k1
    k2 = k2
    alice = alice
    rice = rice
    milk = milk
    Nobody = nobody
    Users = {alice}
    Products = {rice, milk}
    Adds = {a1, a2, a3}
    Updates = {u1}
    Deletes = {d1}
    Orders = {k1, k2}
    User <- AllByAlice
    Product <- TwoOfRice
    Quantity <- SmallQuantities
    MaxRows = 3
SYMMETRY Alike
INVARIANTS
    TypeOK
    LockedRowsAreStable
    OneRowPerProduct
    OrderAnswersAreTrue
PROPERTIES
    ImplementsCart
CHECK_DEADLOCK FALSE
