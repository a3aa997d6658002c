---------------------------- MODULE WalletService ----------------------------
(***************************************************************************)
(* The wallet of packages/wallet/src/wallet.service.ts: the UserWallet     *)
(* rows, the WalletTransaction ledger and the effects of authorize(),      *)
(* commit(), refund() and recharge() on them.                              *)
(*                                                                         *)
(* The operators here are the pieces of a database transaction; the        *)
(* actions that use them are in ListingEngine and StripeWebhook.  An error *)
(* thrown inside prisma.$transaction rolls everything back, so an error    *)
(* path is a piece whose guard is false.  Money is in units, not cents.    *)
(***************************************************************************)
EXTENDS Integers, FiniteSets

CONSTANTS
    User,                   \* users, each with one wallet
    Listing,                \* listing ids
    OwnerOf,                \* the userId of each listing
    StripeEvent,            \* PaymentIntent ids (the stripeId column)
    PayerOf,                \* metadata.userId of each PaymentIntent
    AmountOf,               \* amount_received of each PaymentIntent
    FreeMonthly,            \* FREE_LISTINGS_MONTHLY
    FirstRechargeBonus,     \* FIRST_RECHARGE_BONUS_CENTS
    FirstRechargeThreshold, \* FIRST_RECHARGE_BONUS_THRESHOLD_CENTS
    NoRow                   \* no such row in the table

ASSUME WalletAssumption ==
    /\ OwnerOf \in [Listing -> User]
    /\ PayerOf \in [StripeEvent -> User]
    /\ AmountOf \in [StripeEvent -> Nat \ {0}]
    /\ FreeMonthly \in Nat
    /\ FirstRechargeBonus \in Nat
    /\ FirstRechargeThreshold \in Nat
    /\ NoRow \notin [source : {"FREE_CREDIT", "WALLET"}, amount : Nat]

VARIABLES
    wallet,   \* UserWallet row of each user
    debit,    \* the DEBIT row of each listing (@@unique([listingId, type]))
    refund,   \* the REFUND row of each listing (same constraint)
    credit,   \* the CREDIT row of each stripeId (@unique)
    bonuses,  \* number of BONUS rows of each user
    month     \* the calendar month "now" falls in

walletVars == <<wallet, debit, refund, credit, bonuses>>

WalletRow == [balance : Nat, free : Nat, resetAt : Nat, lifetime : Nat]
LedgerRow == [source : {"FREE_CREDIT", "WALLET"}, amount : Nat]

WalletTypeOK ==
    /\ wallet \in [User -> WalletRow]
    /\ debit \in [Listing -> LedgerRow \cup {NoRow}]
    /\ refund \in [Listing -> LedgerRow \cup {NoRow}]
    /\ credit \in [StripeEvent -> BOOLEAN]
    /\ bonuses \in [User -> Nat]
    /\ month \in Nat

WalletInit ==
    /\ wallet = [u \in User |->
                    [balance |-> 0, free |-> FreeMonthly, resetAt |-> 1, lifetime |-> 0]]
    /\ refund = [l \in Listing |-> NoRow]
    /\ credit = [e \in StripeEvent |-> FALSE]
    /\ bonuses = [u \in User |-> 0]
    /\ month = 0

-----------------------------------------------------------------------------
(* authorize(): a read of the wallet, the lazy monthly reset, a decision.   *)

\* Order of resolution: a free credit, else the balance, else BLOCKED.
AuthDecision(w, price) ==
    CASE w.free > 0                        -> [source |-> "FREE_CREDIT", cost |-> 0]
      [] w.free = 0 /\ w.balance >= price  -> [source |-> "WALLET", cost |-> price]
      [] OTHER                             -> [source |-> "BLOCKED", cost |-> price]

ResetDue(w) == w.resetAt <= month

AfterReset(w) == [w EXCEPT !.free = FreeMonthly, !.resetAt = month + 1]

\* Mutant: the update is not conditioned on the deadline read before.
ResetWins_Unconditional(u, seen) == ResetDue(seen)

\* The updateMany is conditioned on the deadline that was read.
ResetWins(u, seen) == ResetDue(seen) /\ wallet[u].resetAt = seen.resetAt

ResetWallet(u, seen) ==
    wallet' = [wallet EXCEPT ![u] = IF ResetWins(u, seen) THEN AfterReset(@) ELSE @]

\* What resetFreeTierIfDue returns: the row read, reset if it won the race,
\* the winner's row if it lost.
ResetResult(u, seen) ==
    CASE ~ResetDue(seen)     -> seen
      [] ResetWins(u, seen)  -> AfterReset(seen)
      [] OTHER               -> wallet[u]

-----------------------------------------------------------------------------
(* commit() of a listing paid from "source" at "cost".                      *)

CommitFree(l) ==
    LET u == OwnerOf[l] IN
    /\ wallet[u].free > 0
    /\ wallet' = [wallet EXCEPT ![u].free = @ - 1]
    /\ debit' = [debit EXCEPT ![l] = [source |-> "FREE_CREDIT", amount |-> 0]]

CommitWallet(l, cost) ==
    LET u == OwnerOf[l] IN
    /\ wallet[u].balance >= cost
    /\ wallet' = [wallet EXCEPT ![u].balance = @ - cost]
    /\ debit' = [debit EXCEPT ![l] = [source |-> "WALLET", amount |-> cost]]

Commit(l, source, cost) ==
    /\ debit[l] = NoRow
    /\ \/ source = "FREE_CREDIT" /\ CommitFree(l)
       \/ source = "WALLET" /\ CommitWallet(l, cost)
    /\ UNCHANGED <<refund, credit, bonuses>>

-----------------------------------------------------------------------------
(* refund(): gives back exactly what the DEBIT row says, once.              *)

\* What a wallet becomes when ledger row d is given back.
GiveBack(w, d) ==
    IF d.source = "FREE_CREDIT"
    THEN [w EXCEPT !.free = @ + 1]
    ELSE [w EXCEPT !.balance = @ + d.amount]

Refund(l) ==
    /\ debit[l] # NoRow
    /\ IF refund[l] # NoRow
       THEN UNCHANGED <<wallet, refund>>
       ELSE /\ wallet' = [wallet EXCEPT ![OwnerOf[l]] = GiveBack(@, debit[l])]
            /\ refund' = [refund EXCEPT ![l] = debit[l]]
    /\ UNCHANGED <<debit, credit, bonuses>>

\* NothingToRefundError is caught by failAi() and cancel().
TolerantRefund(l) ==
    \/ debit[l] = NoRow /\ UNCHANGED walletVars
    \/ Refund(l)

-----------------------------------------------------------------------------
(* recharge(): isFirst was read from the wallet earlier in the transaction. *)

BonusApplies(e, isFirst) == isFirst /\ AmountOf[e] >= FirstRechargeThreshold

\* Mutant: no UNIQUE constraint on stripeId, only the lookup made before.
RechargeWrite_NotUnique(e, isFirst) ==
    LET u == PayerOf[e] IN
    /\ wallet' = [wallet EXCEPT ![u].balance = @ + AmountOf[e],
                                ![u].lifetime = @ + AmountOf[e]]
    /\ credit' = [credit EXCEPT ![e] = TRUE]
    /\ UNCHANGED <<bonuses, debit, refund>>

\* The UNIQUE stripeId makes the whole transaction fail on a second CREDIT.
RechargeWrite(e, isFirst) ==
    LET u     == PayerOf[e]
        bonus == IF BonusApplies(e, isFirst) THEN 1 ELSE 0 IN
    /\ ~credit[e]
    /\ wallet' = [wallet EXCEPT
                    ![u].balance  = @ + AmountOf[e] + bonus * FirstRechargeBonus,
                    ![u].lifetime = @ + AmountOf[e]]
    /\ credit' = [credit EXCEPT ![e] = TRUE]
    /\ bonuses' = [bonuses EXCEPT ![u] = @ + bonus]
    /\ UNCHANGED <<debit, refund>>
=============================================================================
