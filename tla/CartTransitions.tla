--------------------------- MODULE CartTransitions ---------------------------
(***************************************************************************)
(* The commands of one cart and the pure transitions of                    *)
(* cartservice/src/cartstore/RedisAggregateCartStore.cs: what a command    *)
(* does to a cart of a version.                                            *)
(***************************************************************************)
EXTENDS Integers

CONSTANTS
    Products,
    Commands,        \* records: id, kind "add" or "clear", product, quantity, expected
    QuantityLimit    \* the largest int32 of a cart line

ASSUME CommandsAssumption ==
    \A c \in Commands : /\ c.kind \in {"add", "clear"}
                        /\ c.kind = "add" => c.product \in Products /\ c.quantity \in Int
                        /\ c.kind = "clear" => c.expected \in Nat
ASSUME QuantityAssumption == QuantityLimit \in Nat

Carts == [Products -> 0..QuantityLimit]
EmptyCart == [p \in Products |-> 0]

Answers == [kind : {"none", "added", "cleared", "rejected"}, version : Nat, cart : Carts]
NoAnswer == [kind |-> "none", version |-> 0, cart |-> EmptyCart]

\* A rejection carries the version it was decided on and no cart.
Rejection(v) == [kind |-> "rejected", version |-> v, cart |-> EmptyCart]

\* HandleAddItemCommandAsync: invalid quantity, unknown product and the overflow
\* of the line are rejections.
AddItem(k, v, c, found) ==
    IF c.quantity > 0 /\ found /\ k[c.product] + c.quantity <= QuantityLimit
    THEN [kind |-> "added", version |-> v + 1,
          cart |-> [k EXCEPT ![c.product] = k[c.product] + c.quantity]]
    ELSE Rejection(v)

\* Mutant of Clear: a cart that grew since is cleared too.
ClearNotOlder(v, c) ==
    IF c.expected <= v
    THEN [kind |-> "cleared", version |-> v + 1, cart |-> EmptyCart]
    ELSE Rejection(v)

\* HandleClearCommandAsync: only the version its sender saw may be cleared.
Clear(v, c) ==
    IF c.expected = v
    THEN [kind |-> "cleared", version |-> v + 1, cart |-> EmptyCart]
    ELSE Rejection(v)

Transition(k, v, c, found) ==
    IF c.kind = "add" THEN AddItem(k, v, c, found) ELSE Clear(v, c)

Applied(a) == a.kind \in {"added", "cleared"}

============================================================================
