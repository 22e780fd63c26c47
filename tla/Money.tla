-------------------------------- MODULE Money ---------------------------------
(***************************************************************************)
(* A ticket price on its way from an admin's request to the total of an    *)
(* order.  In JavaScript it is a binary floating-point number, in          *)
(* PostgreSQL a NUMERIC with two decimals.  The significand of a number    *)
(* has Precision bits: 53 in the code, fewer here, with the range of the   *)
(* prices scaled down along with it.                                       *)
(***************************************************************************)
EXTENDS Integers

CONSTANTS
    Precision,    \* bits of a significand
    Prices,       \* the prices in cents that pass the validation
    MaxTickets,   \* MAX_TICKETS_PER_ORDER
    None

(* The smallest significand of a number other than 0; the largest is less  *)
(* than twice as much.                                                     *)
Least == 2^(Precision - 1)

(* A total is less than that in cents, and so is three times a price.      *)
ASSUME MoneyAssumption ==
    /\ Precision \in Nat \ {0}
    /\ MaxTickets \in Nat
    /\ Prices \subseteq Nat
    /\ \A k \in Prices : k * MaxTickets < Least /\ 3 * k <= Least

VARIABLES
    wanted,       \* the price the admin asks for, in cents
    price,        \* ticket_price of the movie, in cents
    quote,        \* the number the order service has for it
    order,        \* the row of the order, its amounts in cents
    returned,     \* the total in the answer to POST /orders
    listed        \* the total in a later GET /orders

vars == <<wanted, price, quote, order, returned, listed>>

-----------------------------------------------------------------------------
(* A number is a multiple of the unit, 1 is Unit of them, and a cent has   *)
(* all of its bits above the unit.                                         *)

Unit == 2^(Precision + 6)

(* n / d to the nearest integer, a tie to the even one. *)
HalfEven(n, d) ==
    LET q == n \div d
        twice == 2 * (n % d)
    IN  IF twice > d \/ (twice = d /\ q % 2 = 1) THEN q + 1 ELSE q

(* The significand of n / d has Precision bits if its last place is 2^j. *)
Scales(n, d, j) == Least * 2^j * d <= n /\ n < 2 * Least * 2^j * d
Scale(n, d) == 2^(CHOOSE j \in 0..(Precision + 6) : Scales(n, d, j))

(* The number nearest to n / d. *)
Nearest(n, d) ==
    IF n = 0 THEN 0 ELSE HalfEven(n, d * Scale(n, d)) * Scale(n, d)

Times(x, k) == Nearest(x * k, 1)

(* n / d, half up, as Math.round and as NUMERIC do for what is not negative.*)
HalfUp(n, d) == (2 * n + d) \div (2 * d)

-----------------------------------------------------------------------------
(* The code's conversions. *)

(* Mutant: Math.floor for Math.round. *)
ToCentsDown(x) == Times(x, 100) \div Unit

(* Math.round(amount * 100) *)
ToCents(x) == HalfUp(Times(x, 100), Unit)

(* cents / 100 *)
FromCents(k) == Nearest(k * Unit, 100)

(* A number into a column with scale 2.  The driver sends the shortest     *)
(* decimal that reads as this number, a step that is skipped: it matters   *)
(* for exact ties only.                                                    *)
Stored(x) == HalfUp(x * 100, Unit)

(* decimalTransformer.from: "12.50" from the driver becomes a number; so   *)
(* does the text in a JSON body.                                           *)
Read(k) == Nearest(k * Unit, 100)

(* Mutant: price and quantity multiplied as they are. *)
FloatTotal(x, quantity) == Times(x, quantity)

Total(x, quantity) == FromCents(ToCents(x) * quantity)

-----------------------------------------------------------------------------
Init ==
    /\ wanted = None /\ price = None /\ quote = None /\ order = None
    /\ returned = None /\ listed = None

(* POST /movies.  One price in each behaviour; what a change of it does to *)
(* orders in progress is in module Orders.                                 *)
SetPrice(k) ==
    /\ price = None
    /\ wanted' = k
    /\ price' = Stored(Read(k))
    /\ UNCHANGED <<quote, order, returned, listed>>

(* The movie as the catalog answers it to the order service. *)
LookUp ==
    /\ price # None
    /\ quote' = Read(price)
    /\ UNCHANGED <<wanted, price, order, returned, listed>>

(* OrdersService.create, from the quote on. *)
Buy(quantity) ==
    /\ quote # None
    /\ LET total == Total(quote, quantity) IN
          /\ order' = [ticketPrice |-> Stored(quote), quantity |-> quantity,
                       totalPrice |-> Stored(total)]
          /\ returned' = total
    /\ listed' = None
    /\ UNCHANGED <<wanted, price, quote>>

(* GET /orders and GET /orders/:id *)
List ==
    /\ order # None
    /\ listed' = Read(order.totalPrice)
    /\ UNCHANGED <<wanted, price, quote, order, returned>>

Next ==
    \/ \E k \in Prices : SetPrice(k)
    \/ LookUp
    \/ \E quantity \in 1..MaxTickets : Buy(quantity)
    \/ List

Spec == Init /\ [][Next]_vars

-----------------------------------------------------------------------------
(* "The total is calculated in integer cents" (README): whatever rounding  *)
(* lies on the way, the row of an order holds the price an admin has set,  *)
(* to the cent, and exactly the quantity times that.                       *)
TotalIsExact ==
    order # None =>
        /\ order.ticketPrice = wanted
        /\ order.totalPrice = wanted * order.quantity

(* The total that the buyer was told is the very number that every later   *)
(* look at the order shows: no 38.970000000000006 that becomes 38.97.      *)
ToldAsListed == listed # None => listed = returned
=============================================================================
