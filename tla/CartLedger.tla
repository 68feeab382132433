----------------------------- MODULE CartLedger -----------------------------
(***************************************************************************)
(* What the cart service promises for ONE cart: every command is answered  *)
(* at most once, by one atomic transition of the cart, and only answers    *)
(* are announced.                                                          *)
(***************************************************************************)
EXTENDS CartTransitions

VARIABLES cart, version, answer, announced

ledger == <<cart, version, answer, announced>>

LedgerInit ==
    /\ cart = EmptyCart
    /\ version = 0
    /\ answer = [c \in Commands |-> NoAnswer]
    /\ announced = {}

AnswerOnce(c) ==
    /\ answer[c].kind = "none"
    /\ \E found \in BOOLEAN :
         LET a == Transition(cart, version, c, found) IN
         /\ answer' = [answer EXCEPT ![c] = a]
         /\ version' = a.version
         /\ cart' = IF Applied(a) THEN a.cart ELSE cart
    /\ UNCHANGED announced

Announce(c) ==
    /\ answer[c].kind # "none"
    /\ announced' = announced \cup {c}
    /\ UNCHANGED <<cart, version, answer>>

LedgerNext == \E c \in Commands : AnswerOnce(c) \/ Announce(c)

LedgerSpec == LedgerInit /\ [][LedgerNext]_ledger

============================================================================
