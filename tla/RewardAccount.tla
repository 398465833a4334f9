---------------------------- MODULE RewardAccount ----------------------------
(* What the reward ledger promises its user, without requests, rows or      *)
(* transactions: an account of credits.  A credit is granted once, may be   *)
(* taken back once and never returns; coins are spent only when they are    *)
(* there; the balance moves by exactly what was granted, taken or spent.    *)
EXTENDS Integers

CONSTANTS
    Rows,       \* every ledger row there can be, with its amount
    Sum(_)      \* the amounts of a set of rows together

VARIABLES
    standing,   \* credits granted and not taken back
    closed,     \* credits taken back
    spent,      \* debits
    balance

account == <<standing, closed, spent, balance>>

Init == standing = {} /\ closed = {} /\ spent = {} /\ balance = 0

(* One completion transaction takes back the credits it closes and grants    *)
(* those that newly stand.  The credits a step moves are read off the step, *)
(* so the specification also says which steps are allowed at all.           *)
Move ==
    LET taken == closed' \ closed
        granted == standing' \ standing
    IN  /\ taken \subseteq standing
        /\ granted \subseteq Rows /\ granted \cap (closed \cup spent) = {}
        /\ \A e \in granted : e.amount > 0
        /\ closed' = closed \cup taken
        /\ standing' = (standing \ taken) \cup granted
        /\ balance' = balance - Sum(taken) + Sum(granted)
        /\ UNCHANGED spent

Spend ==
    /\ \E e \in spent' \ spent :
          /\ e \in Rows /\ spent' = spent \cup {e}
          /\ e.amount < 0 /\ balance + e.amount >= 0
          /\ balance' = balance + e.amount
    /\ UNCHANGED <<standing, closed>>

Next == Move \/ Spend

Spec == Init /\ [][Next]_account
=============================================================================
