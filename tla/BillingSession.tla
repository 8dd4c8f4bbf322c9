---------------------------- MODULE BillingSession ----------------------------
(***************************************************************************)
(* The billing life cycle of relay requests (service/billing_session.go,   *)
(* service/funding_source.go, service/billing.go) and the way the relay    *)
(* controllers drive it (controller/relay.go, service/tiered_settle.go,    *)
(* service/violation_fee.go).                                              *)
(*                                                                         *)
(* Every request is a process.  All of them share the rows of ONE user,    *)
(* ONE token and ONE subscription: rows of different users never meet in   *)
(* this code, and contention on a shared row is the case that matters.     *)
(* A row is read and written by single SQL statements or transactions      *)
(* (Redis and the batch updater off: see QuotaReserve), so each            *)
(* is one atomic step, and another request may run between any two steps.  *)
(* The in-memory flags settled, refunded and fundingSettled of the session *)
(* are the request's program counter.                                      *)
(*                                                                         *)
(* walletNet, subNet and tokenNet are history variables: what the request  *)
(* has drawn from each row and not given back.  faults counts the database *)
(* failures and the crash a request met.                                   *)
(***************************************************************************)
EXTENDS Integers, FiniteSets, Functions

CONSTANTS
    Requests,        \* concurrent relay requests of the user
    Preferences,     \* billing preferences the user may have set
    Quotas,          \* amounts of quota a request may estimate or really use
    FeeQuota,        \* violation fee; 0 when ViolationDeductionEnabled is off
    InitQuota,       \* User.Quota before the first request
    InitRemain,      \* Token.RemainQuota before the first request
    SubTotal,        \* UserSubscription.AmountTotal; 0 means unlimited
    TrustQuota,      \* common.GetTrustQuota()
    Playground,      \* requests with RelayInfo.IsPlayground
    AsyncTasks,      \* requests with RelayInfo.ForcePreConsume
    TokenUnlimited,  \* Token.UnlimitedQuota
    WalletOverflow,  \* the subscription's allow_wallet_overflow
    MaxFaults        \* bound on database failures and crashes per request

ASSUME RequestsAssumption   == IsFiniteSet(Requests)
ASSUME QuotasAssumption     == Quotas \subseteq Nat
ASSUME RowsAssumption       == InitQuota \in Nat /\ InitRemain \in Nat /\ SubTotal \in Nat
ASSUME SettingsAssumption   == TrustQuota \in Int /\ FeeQuota \in Nat
ASSUME FlagsAssumption      == TokenUnlimited \in BOOLEAN /\ WalletOverflow \in BOOLEAN
ASSUME PreferenceAssumption ==
    Preferences \subseteq {"subscription_only", "wallet_only", "wallet_first", "subscription_first"}
ASSUME FaultsAssumption     == MaxFaults \in Nat

VARIABLES
    userQuota,      \* User.Quota
    remain,         \* Token.RemainQuota
    subUsed,        \* UserSubscription.AmountUsed
    subActive,      \* the subscription is active and not past its end time
    record,         \* SubscriptionPreConsumeRecord.Status of the request's id
    pc,             \* where the request is
    info,           \* RelayInfo: preference, estimate, trust of the token
    source,         \* the session's funding source
    trusted,        \* requests whose session is trusted
    pre,            \* BillingSession.preConsumedQuota
    tokenConsumed,  \* BillingSession.tokenConsumed
    extra,          \* BillingSession.extraReserved
    consumed,       \* WalletFunding.consumed / SubscriptionFunding.preConsumed
    pend,           \* delta of the Reserve or Settle call in progress
    actual,         \* the cost Settle was called with
    tries,          \* failed attempts of refundWithRetry
    fee,            \* where the violation fee of the request is
    walletNet, subNet, tokenNet,
    faults

rows    == <<userQuota, remain, subUsed, walletNet, subNet, tokenNet>>
session == <<source, trusted, pre, tokenConsumed, extra, consumed, pend, actual, tries>>
vars    == <<rows, session, subActive, record, pc, info, fee, faults>>

-----------------------------------------------------------------------------
Opening   == {"idle", "checkSub", "checkWallet", "token", "fund", "rollback", "abort", "fallback"}
Open      == {"active", "failing", "reserveToken", "reserveRollback"}
Refunding == {"refundFunding", "refundRecord", "refundExtra", "refundToken"}
Terminal  == {"rejected", "settled", "unsettled", "refunded", "kept", "crashed"}
Labels    == Opening \cup Open \cup {"settleToken"} \cup Refunding \cup Terminal

Zero == [r \in Requests |-> 0]

Init ==
    /\ userQuota = InitQuota
    /\ remain = InitRemain
    /\ subUsed = 0
    /\ subActive \in BOOLEAN
    /\ record = [r \in Requests |-> "none"]
    /\ pc = [r \in Requests |-> "idle"]
    /\ info = [r \in Requests |-> [pref |-> "wallet_only", asked |-> 0, tokenTrusted |-> FALSE]]
    /\ source = [r \in Requests |-> "none"]
    /\ trusted = {}
    /\ pre = Zero /\ tokenConsumed = Zero /\ extra = Zero /\ consumed = Zero
    /\ pend = Zero /\ actual = Zero /\ tries = Zero
    /\ fee = [r \in Requests |-> "none"]
    /\ walletNet = Zero /\ subNet = Zero /\ tokenNet = Zero
    /\ faults = Zero

-----------------------------------------------------------------------------
(* Primitives on the shared rows; a step touches at most one of them.  A   *)
(* negative amount gives back.                                             *)

Go(r, label) == pc' = [pc EXCEPT ![r] = label]

Positive(n) == IF n > 0 THEN n ELSE 0

\* IncreaseUserQuota / DecreaseUserQuota: unconditional, the balance may become negative.
TakeWallet(r, n) ==
    /\ userQuota' = userQuota - n
    /\ walletNet' = [walletNet EXCEPT ![r] = @ + n]
    /\ UNCHANGED <<remain, subUsed, subNet, tokenNet>>

\* IncreaseTokenQuota / DecreaseTokenQuota.
TakeToken(r, n) ==
    /\ remain' = remain - n
    /\ tokenNet' = [tokenNet EXCEPT ![r] = @ + n]
    /\ UNCHANGED <<userQuota, subUsed, walletNet, subNet>>

\* Mutant: only looks whether anything is left.
SubAdmitsWhileAnyLeft(n) == SubTotal > 0 => subUsed <= SubTotal

\* PostConsumeUserSubscriptionDelta refuses to pass the total ...
SubAdmits(n) == SubTotal > 0 => Positive(subUsed + n) <= SubTotal

\* ... and never lets the used amount go below zero.
TakeSub(r, n) ==
    /\ subUsed' = Positive(subUsed + n)
    /\ subNet' = [subNet EXCEPT ![r] = @ + n]
    /\ UNCHANGED <<userQuota, remain, walletNet, tokenNet>>

\* A statement of request r fails: its row is left as it was.
Fault(r) ==
    /\ faults[r] < MaxFaults
    /\ faults' = [faults EXCEPT ![r] = @ + 1]
    /\ UNCHANGED rows

NoFault == UNCHANGED faults

\* There is token quota to give back.
NeedsToken(r) == tokenConsumed[r] > 0 /\ r \notin Playground

-----------------------------------------------------------------------------
(* NewBillingSession: choose the funding source, fall back to the other.   *)

\* SubscriptionFunding pre-consumes at least 1, so that a record exists.
Amount(r) == IF source[r] = "subscription" /\ info[r].asked = 0 THEN 1 ELSE info[r].asked

EffectiveQuota(r) == IF r \in trusted THEN 0 ELSE Amount(r)

\* shouldTrust of a wallet session; a subscription session is never trusted.
ShouldTrust(r) ==
    /\ r \notin AsyncTasks
    /\ TrustQuota > 0
    /\ info[r].tokenTrusted
    /\ userQuota > TrustQuota

\* A fresh BillingSession, nothing pre-consumed.
OpenSession(r, s) ==
    /\ source' = [source EXCEPT ![r] = s]
    /\ tokenConsumed' = [tokenConsumed EXCEPT ![r] = 0]
    /\ trusted' = IF s = "wallet" /\ ShouldTrust(r) THEN trusted \cup {r} ELSE trusted \ {r}
    /\ UNCHANGED <<pre, extra, consumed, pend, actual, tries>>

\* The token was validated by the auth middleware, which also took the
\* snapshot of its remaining quota that shouldTrust looks at later.
Begin(r, p, q) ==
    /\ pc[r] = "idle"
    /\ r \in Playground \/ TokenUnlimited \/ remain > 0
    /\ info' = [info EXCEPT ![r] =
                  [pref |-> p, asked |-> q,
                   tokenTrusted |-> IF r \notin Playground /\ (TokenUnlimited \/ remain > TrustQuota)
                                    THEN TRUE ELSE FALSE]]
    /\ Go(r, IF p = "subscription_only" THEN "token"
             ELSE IF p = "subscription_first" THEN "checkSub" ELSE "checkWallet")
    /\ source' = [source EXCEPT ![r] = IF p = "subscription_only" THEN "subscription" ELSE "none"]
    /\ UNCHANGED <<rows, subActive, record, trusted, pre, tokenConsumed, extra, consumed, pend,
                   actual, tries, fee, faults>>

\* ValidateUserToken turned the request away before billing.
RefuseToken(r) ==
    /\ pc[r] = "idle"
    /\ r \notin Playground /\ ~TokenUnlimited /\ remain <= 0
    /\ Go(r, "rejected")
    /\ UNCHANGED <<rows, session, subActive, record, info, fee, faults>>

\* HasActiveUserSubscription.
CheckSubscription(r) ==
    /\ pc[r] = "checkSub"
    /\ \/ subActive /\ OpenSession(r, "subscription") /\ Go(r, "token") /\ NoFault
       \/ ~subActive /\ Go(r, "checkWallet") /\ UNCHANGED session /\ NoFault
       \/ Fault(r) /\ Go(r, "rejected") /\ UNCHANGED session
    /\ UNCHANGED <<rows, subActive, record, info, fee>>

\* tryWallet: the balance is read here and reserved only two steps later.
CheckWallet(r) ==
    LET enough == userQuota > 0 /\ userQuota >= info[r].asked
    IN  /\ pc[r] = "checkWallet"
        /\ \/ enough /\ OpenSession(r, "wallet") /\ Go(r, "token") /\ NoFault
           \/ ~enough /\ OpenSession(r, "wallet") /\ Go(r, "fallback") /\ NoFault
           \/ Fault(r) /\ Go(r, "rejected") /\ UNCHANGED session
        /\ UNCHANGED <<rows, subActive, record, info, fee>>

TokenAdmits(n) == TokenUnlimited \/ remain >= n

\* preConsume, first half: PreConsumeTokenQuota.
PreConsumeToken(r) ==
    LET e == EffectiveQuota(r)
        free == e = 0 \/ r \in Playground
        proceed == tokenConsumed' = [tokenConsumed EXCEPT ![r] = e] /\ Go(r, "fund") /\ NoFault
        refuse == Go(r, "rejected") /\ UNCHANGED tokenConsumed
    IN  /\ pc[r] = "token"
        /\ \/ free /\ proceed /\ UNCHANGED rows
           \/ ~free /\ TokenAdmits(e) /\ TakeToken(r, e) /\ proceed
           \/ ~free /\ ~TokenAdmits(e) /\ refuse /\ NoFault /\ UNCHANGED rows
           \/ ~free /\ Fault(r) /\ refuse
        /\ UNCHANGED <<subActive, record, info, source, trusted, pre, extra, consumed, pend,
                       actual, tries, fee>>

\* Mutant: relies on the balance tryWallet read two steps ago.
WalletAdmitsStale(n) == TRUE

\* The condition of reserveUserQuotaDB's UPDATE.
WalletAdmits(n) == userQuota >= n

\* funding.PreConsume succeeded ...
Fund(r, n) ==
    /\ consumed' = [consumed EXCEPT ![r] = n]
    /\ pre' = [pre EXCEPT ![r] = n]
    /\ Go(r, "active")

\* ... or failed: "rollback" leads on to the fallback, "abort" to an error.
RefuseFunding(r, label) == Go(r, label) /\ UNCHANGED <<consumed, pre>>

\* WalletFunding.PreConsume: a conditional UPDATE.
PreConsumeWallet(r) ==
    LET e == EffectiveQuota(r)
    IN  /\ pc[r] = "fund" /\ source[r] = "wallet"
        /\ \/ (e = 0 \/ WalletAdmits(e)) /\ TakeWallet(r, e) /\ Fund(r, e) /\ NoFault
           \/ e > 0 /\ ~WalletAdmits(e) /\ RefuseFunding(r, "rollback") /\ NoFault /\ UNCHANGED rows
           \/ e > 0 /\ Fault(r) /\ RefuseFunding(r, "abort")
        /\ UNCHANGED <<subActive, record, info, source, trusted, tokenConsumed, extra, pend,
                       actual, tries, fee>>

\* SubscriptionFunding.PreConsume: one transaction, the record included.  A
\* failed read of the subscriptions is reported as "no active subscription".
PreConsumeSubscription(r) ==
    LET a == Amount(r)
        admitted == subActive /\ SubAdmits(a)
    IN  /\ pc[r] = "fund" /\ source[r] = "subscription"
        /\ \/ /\ admitted /\ TakeSub(r, a) /\ Fund(r, a) /\ NoFault
              /\ record' = [record EXCEPT ![r] = "consumed"]
           \/ ~admitted /\ RefuseFunding(r, "rollback") /\ NoFault /\ UNCHANGED <<rows, record>>
           \/ /\ Fault(r) /\ UNCHANGED record
              /\ \E label \in {"rollback", "abort"} : RefuseFunding(r, label)
        /\ UNCHANGED <<subActive, info, source, trusted, tokenConsumed, extra, pend, actual, tries, fee>>

\* preConsume's error path gives the token quota back, once, without retry.
RollbackToken(r) ==
    LET forget == tokenConsumed' = [tokenConsumed EXCEPT ![r] = 0]
    IN  /\ pc[r] \in {"rollback", "abort"}
        /\ \/ NeedsToken(r) /\ TakeToken(r, -tokenConsumed[r]) /\ forget /\ NoFault
           \/ NeedsToken(r) /\ Fault(r) /\ forget
           \/ ~NeedsToken(r) /\ UNCHANGED <<rows, tokenConsumed>> /\ NoFault
        /\ Go(r, IF pc[r] = "rollback" THEN "fallback" ELSE "rejected")
        /\ UNCHANGED <<subActive, record, info, source, trusted, pre, extra, consumed, pend,
                       actual, tries, fee>>

\* Mutant: falls back to the subscription from the subscription.
FallsBackAlways(r) == info[r].pref = "wallet_first"

FallsBackToSub(r)    == info[r].pref = "wallet_first" /\ source[r] = "wallet"
FallsBackToWallet(r) == info[r].pref = "subscription_first" /\ source[r] = "subscription"

\* UserActiveSubscriptionsAllowWalletOverflow.
AllowsOverflow == WalletOverflow \/ ~subActive

\* The first source was insufficient: try the other one if the preference allows.
Fallback(r) ==
    /\ pc[r] = "fallback"
    /\ \/ FallsBackToSub(r) /\ OpenSession(r, "subscription") /\ Go(r, "token") /\ NoFault
       \/ FallsBackToWallet(r) /\ AllowsOverflow /\ Go(r, "checkWallet") /\ UNCHANGED session /\ NoFault
       \/ FallsBackToWallet(r) /\ ~AllowsOverflow /\ Go(r, "rejected") /\ UNCHANGED session /\ NoFault
       \/ FallsBackToWallet(r) /\ Fault(r) /\ Go(r, "rejected") /\ UNCHANGED session
       \/ /\ ~FallsBackToSub(r) /\ ~FallsBackToWallet(r)
          /\ Go(r, "rejected") /\ UNCHANGED session /\ NoFault
    /\ UNCHANGED <<rows, subActive, record, info, fee>>

-----------------------------------------------------------------------------
(* Reserve: raise the pre-consumed quota before an upstream attempt or     *)
(* before a task is stored.  An error makes the request fail.              *)

ReserveFunding(r, target) ==
    LET d == target - pre[r]
        taken == Go(r, "reserveToken") /\ pend' = [pend EXCEPT ![r] = d] /\ NoFault
        error == Go(r, "failing") /\ UNCHANGED <<consumed, pend>>
    IN  /\ pc[r] = "active" /\ r \notin trusted /\ d > 0
        /\ \/ /\ source[r] = "wallet" /\ TakeWallet(r, d) /\ taken
              /\ consumed' = [consumed EXCEPT ![r] = @ + d]
           \/ /\ source[r] = "subscription" /\ SubAdmits(d) /\ TakeSub(r, d) /\ taken
              /\ UNCHANGED consumed
           \/ source[r] = "subscription" /\ ~SubAdmits(d) /\ error /\ NoFault /\ UNCHANGED rows
           \/ Fault(r) /\ error
        /\ UNCHANGED <<subActive, record, info, source, trusted, pre, tokenConsumed, extra,
                       actual, tries, fee>>

\* Mutant: the session forgets that more is pre-consumed now.
CommitReserveKeepsPre(r) ==
    /\ tokenConsumed' = [tokenConsumed EXCEPT ![r] = @ + pend[r]]
    /\ extra' = [extra EXCEPT ![r] = @ + pend[r]]
    /\ UNCHANGED pre

CommitReserve(r) ==
    /\ pre' = [pre EXCEPT ![r] = @ + pend[r]]
    /\ tokenConsumed' = [tokenConsumed EXCEPT ![r] = @ + pend[r]]
    /\ extra' = [extra EXCEPT ![r] = @ + pend[r]]

ReserveToken(r) ==
    LET commit == CommitReserve(r) /\ Go(r, "active") /\ NoFault
        refuse == Go(r, "reserveRollback") /\ UNCHANGED <<pre, tokenConsumed, extra>>
    IN  /\ pc[r] = "reserveToken"
        /\ \/ r \in Playground /\ commit /\ UNCHANGED rows
           \/ r \notin Playground /\ TokenAdmits(pend[r]) /\ TakeToken(r, pend[r]) /\ commit
           \/ r \notin Playground /\ ~TokenAdmits(pend[r]) /\ refuse /\ NoFault /\ UNCHANGED rows
           \/ r \notin Playground /\ Fault(r) /\ refuse
        /\ UNCHANGED <<subActive, record, info, source, trusted, consumed, pend, actual, tries, fee>>

\* Mutant: the wallet got its quota back, and Refund will give it back again.
ReleaseReserveKeepsConsumed(r) == UNCHANGED consumed

ReleaseReserve(r) == consumed' = [consumed EXCEPT ![r] = @ - pend[r]]

\* rollbackFundingReserve: a wallet whose rollback fails keeps `consumed`
\* raised, so that Refund gives it back; a subscription has no such memory.
ReserveRollback(r) ==
    /\ pc[r] = "reserveRollback"
    /\ \/ source[r] = "wallet" /\ TakeWallet(r, -pend[r]) /\ ReleaseReserve(r) /\ NoFault
       \/ source[r] = "subscription" /\ TakeSub(r, -pend[r]) /\ UNCHANGED consumed /\ NoFault
       \/ Fault(r) /\ UNCHANGED consumed
    /\ Go(r, "failing")
    /\ UNCHANGED <<subActive, record, info, source, trusted, pre, tokenConsumed, extra, pend,
                   actual, tries, fee>>

-----------------------------------------------------------------------------
(* Settle: the upstream answered and the real cost is known.               *)

\* A funding error is logged; the handler goes on and never refunds.
SettleFunding(r, cost) ==
    LET d == cost - pre[r]
    IN  /\ pc[r] = "active"
        /\ actual' = [actual EXCEPT ![r] = cost]
        /\ pend' = [pend EXCEPT ![r] = d]
        /\ \/ d = 0 /\ Go(r, "settled") /\ NoFault /\ UNCHANGED rows
           \/ d # 0 /\ source[r] = "wallet" /\ TakeWallet(r, d) /\ Go(r, "settleToken") /\ NoFault
           \/ /\ d # 0 /\ source[r] = "subscription" /\ SubAdmits(d)
              /\ TakeSub(r, d) /\ Go(r, "settleToken") /\ NoFault
           \/ /\ d # 0 /\ source[r] = "subscription" /\ ~SubAdmits(d)
              /\ Go(r, "unsettled") /\ NoFault /\ UNCHANGED rows
           \/ d # 0 /\ Fault(r) /\ Go(r, "unsettled")
        /\ UNCHANGED <<subActive, record, info, source, trusted, pre, tokenConsumed, extra,
                       consumed, tries, fee>>

\* A token error is logged; the session counts as settled all the same.
SettleToken(r) ==
    /\ pc[r] = "settleToken"
    /\ \/ r \in Playground /\ NoFault /\ UNCHANGED rows
       \/ r \notin Playground /\ TakeToken(r, pend[r]) /\ NoFault
       \/ r \notin Playground /\ Fault(r)
    /\ Go(r, "settled")
    /\ UNCHANGED <<session, subActive, record, info, fee>>

-----------------------------------------------------------------------------
(* Refund: the request failed.  The work runs in a goroutine of its own,   *)
(* so the violation fee of the same request is charged concurrently.       *)

NeedsRefund(r) ==
    \/ tokenConsumed[r] > 0
    \/ source[r] = "subscription" /\ consumed[r] > 0

\* Only an upstream error may carry the violation marker, and only the
\* synchronous relay charges the fee.
FeeOutcomes(r) ==
    IF FeeQuota > 0 /\ r \notin AsyncTasks /\ pc[r] = "active" THEN {"none", "due"} ELSE {"none"}

\* Refund is reached by requests that did not settle.
MayFail(r) == pc[r] \in {"active", "failing"}

Fail(r) ==
    /\ MayFail(r)
    /\ \E f \in FeeOutcomes(r) : fee' = [fee EXCEPT ![r] = f]
    /\ Go(r, IF NeedsRefund(r) THEN "refundFunding" ELSE "kept")
    /\ UNCHANGED <<rows, session, subActive, record, info, faults>>

AfterExtra(r) == IF NeedsToken(r) THEN "refundToken" ELSE "refunded"

\* Mutant: the extra reservation is taken for part of the record.
AfterFundingSkipsExtra(r) == AfterExtra(r)

\* The extra reservation of a subscription has no record and is returned apart.
AfterFunding(r) ==
    IF source[r] = "subscription" /\ extra[r] > 0 THEN "refundExtra" ELSE AfterExtra(r)

\* WalletFunding.Refund: not idempotent, hence tried once.
RefundWallet(r) ==
    /\ pc[r] = "refundFunding" /\ source[r] = "wallet"
    /\ \/ TakeWallet(r, -consumed[r]) /\ NoFault
       \/ Fault(r)
    /\ Go(r, AfterFunding(r))
    /\ UNCHANGED <<session, subActive, record, info, fee>>

MaxAttempts == 3

\* One more attempt of refundWithRetry failed.
RetryRefund(r) ==
    /\ Fault(r)
    /\ tries' = [tries EXCEPT ![r] = @ + 1]
    /\ Go(r, IF tries[r] + 1 < MaxAttempts THEN "refundFunding" ELSE AfterFunding(r))

\* Mutant: returns the whole reservation, the extra part of which is returned later.
RecordedAmountWithExtra(r) == pre[r]

\* SubscriptionPreConsumeRecord.PreConsumed.
RecordedAmount(r) == consumed[r]

\* RefundSubscriptionPreConsume, first half: the record is still "consumed",
\* and PostConsumeUserSubscriptionDelta commits in a transaction of its own.
RefundSubscription(r) ==
    /\ pc[r] = "refundFunding" /\ source[r] = "subscription" /\ record[r] = "consumed"
    /\ \/ TakeSub(r, -RecordedAmount(r)) /\ Go(r, "refundRecord") /\ NoFault /\ UNCHANGED tries
       \/ RetryRefund(r)
    /\ UNCHANGED <<subActive, record, info, source, trusted, pre, tokenConsumed, extra, consumed,
                   pend, actual, fee>>

\* RefundSubscriptionPreConsume, second half: the outer transaction saves the record.
RefundRecord(r) ==
    /\ pc[r] = "refundRecord"
    /\ \/ /\ record' = [record EXCEPT ![r] = "refunded"]
          /\ Go(r, AfterFunding(r)) /\ NoFault /\ UNCHANGED tries
       \/ RetryRefund(r) /\ UNCHANGED record
    /\ UNCHANGED <<rows, subActive, info, source, trusted, pre, tokenConsumed, extra, consumed,
                   pend, actual, fee>>

RefundExtra(r) ==
    /\ pc[r] = "refundExtra"
    /\ \/ TakeSub(r, -extra[r]) /\ NoFault
       \/ Fault(r)
    /\ Go(r, AfterExtra(r))
    /\ UNCHANGED <<session, subActive, record, info, fee>>

RefundToken(r) ==
    /\ pc[r] = "refundToken"
    /\ \/ TakeToken(r, -tokenConsumed[r]) /\ NoFault
       \/ Fault(r)
    /\ Go(r, "refunded")
    /\ UNCHANGED <<session, subActive, record, info, fee>>

-----------------------------------------------------------------------------
(* ChargeViolationFeeIfNeeded -> PostConsumeQuota: funding, then token.    *)
(* The fee is not part of the request's net draw.                          *)

SetFee(r, f) == fee' = [fee EXCEPT ![r] = f]

ChargeFeeFunding(r) ==
    LET charged == SetFee(r, IF r \in Playground THEN "paid" ELSE "token")
    IN  /\ fee[r] = "due"
        /\ \/ source[r] = "wallet" /\ userQuota' = userQuota - FeeQuota /\ charged /\ UNCHANGED subUsed
           \/ /\ source[r] = "subscription" /\ SubAdmits(FeeQuota)
              /\ subUsed' = subUsed + FeeQuota /\ charged /\ UNCHANGED userQuota
           \/ /\ source[r] = "subscription" /\ ~SubAdmits(FeeQuota)
              /\ SetFee(r, "lost") /\ UNCHANGED <<userQuota, subUsed>>
        /\ UNCHANGED <<remain, walletNet, subNet, tokenNet, session, subActive, record, pc, info, faults>>

ChargeFeeToken(r) ==
    /\ fee[r] = "token"
    /\ remain' = remain - FeeQuota
    /\ SetFee(r, "paid")
    /\ UNCHANGED <<userQuota, subUsed, walletNet, subNet, tokenNet, session, subActive, record,
                   pc, info, faults>>

\* A database error, or the end of the process, loses what is left of the fee.
Unpaid(f) == IF f = "due" THEN "lost" ELSE IF f = "token" THEN "fundingOnly" ELSE f

LoseFee(r) ==
    /\ fee[r] \in {"due", "token"}
    /\ SetFee(r, Unpaid(fee[r]))
    /\ UNCHANGED <<rows, session, subActive, record, pc, info, faults>>

-----------------------------------------------------------------------------
\* Time passes the subscription's end: no pre-consume finds it any more,
\* while settlements and refunds still reach its row.
ExpireSubscription ==
    /\ subActive
    /\ subActive' = FALSE
    /\ UNCHANGED <<rows, session, record, pc, info, fee, faults>>

\* The process dies: nothing on disk says that the session was open.
Crash(r) ==
    /\ pc[r] \notin Terminal \cup {"idle"}
    /\ Fault(r)
    /\ Go(r, "crashed")
    /\ SetFee(r, Unpaid(fee[r]))
    /\ UNCHANGED <<session, subActive, record, info>>

\* Every step the process of request r takes by itself once it has begun.
Step(r) ==
    \/ CheckSubscription(r) \/ CheckWallet(r) \/ PreConsumeToken(r) \/ PreConsumeWallet(r)
    \/ PreConsumeSubscription(r) \/ RollbackToken(r) \/ Fallback(r)
    \/ ReserveToken(r) \/ ReserveRollback(r)
    \/ \E q \in Quotas : SettleFunding(r, q)
    \/ SettleToken(r) \/ Fail(r)
    \/ RefundWallet(r) \/ RefundSubscription(r) \/ RefundRecord(r) \/ RefundExtra(r) \/ RefundToken(r)

FeeStep(r) == ChargeFeeFunding(r) \/ ChargeFeeToken(r) \/ LoseFee(r)

\* All requests are over: the system may stay as it is.
Quiescent ==
    /\ \A r \in Requests : pc[r] \in Terminal /\ fee[r] \notin {"due", "token"}
    /\ UNCHANGED vars

Next ==
    \/ \E r \in Requests :
          \/ \E p \in Preferences, q \in Quotas : Begin(r, p, q)
          \/ RefuseToken(r)
          \/ \E q \in Quotas : ReserveFunding(r, q)
          \/ Step(r)
          \/ FeeStep(r)
          \/ Crash(r)
    \/ ExpireSubscription
    \/ Quiescent

\* Requests keep running (every call has a timeout); nobody has to send one.
Fairness == \A r \in Requests : WF_vars(Step(r)) /\ WF_vars(FeeStep(r))

Spec     == Init /\ [][Next]_vars
FairSpec == Spec /\ Fairness

-----------------------------------------------------------------------------
Sources == {"none", "wallet", "subscription"}
AllPreferences == {"subscription_only", "wallet_only", "wallet_first", "subscription_first"}

\* Every variable has its type; in particular no amount a session keeps is
\* ever negative, and refundWithRetry never counts past its last attempt.
TypeOK ==
    /\ userQuota \in Int /\ remain \in Int /\ subUsed \in Nat
    /\ subActive \in BOOLEAN
    /\ record \in [Requests -> {"none", "consumed", "refunded"}]
    /\ pc \in [Requests -> Labels]
    /\ info \in [Requests -> [pref : AllPreferences, asked : Nat, tokenTrusted : BOOLEAN]]
    /\ source \in [Requests -> Sources]
    /\ trusted \in SUBSET Requests
    /\ pre \in [Requests -> Nat] /\ tokenConsumed \in [Requests -> Nat]
    /\ extra \in [Requests -> Nat] /\ consumed \in [Requests -> Nat]
    /\ pend \in [Requests -> Int] /\ actual \in [Requests -> Nat]
    /\ tries \in [Requests -> 0..MaxAttempts]
    /\ fee \in [Requests -> {"none", "due", "token", "paid", "fundingOnly", "lost"}]
    /\ walletNet \in [Requests -> Int] /\ subNet \in [Requests -> Int] /\ tokenNet \in [Requests -> Int]
    /\ faults \in [Requests -> 0..MaxFaults]

\* What the request has drawn from the source its session ended up with,
\* and from the one it did not use.
Funding(r)      == IF source[r] = "wallet" THEN walletNet[r] ELSE subNet[r]
OtherFunding(r) == IF source[r] = "wallet" THEN subNet[r] ELSE walletNet[r]

TokenShare(r, n) == IF r \in Playground THEN 0 ELSE n

\* A settled request has drawn exactly its actual cost from exactly one
\* source, whatever was reserved, retried or rolled back on the way, and
\* also when database writes failed (Settle, Reserve, NewBillingSession).
SettledFundingExact ==
    \A r \in Requests : pc[r] = "settled" => Funding(r) = actual[r] /\ OtherFunding(r) = 0

\* Without database failures the token of a settled request is charged the
\* same amount as its funding source (Settle, second step).
SettledTokenExact ==
    \A r \in Requests : pc[r] = "settled" /\ faults[r] = 0 => tokenNet[r] = TokenShare(r, actual[r])

\* Without database failures a request that was rejected, or failed, has
\* drawn nothing in the end: preConsume rolls back on every path, the
\* fallback of one source to the other included, and Refund returns the
\* initial and the extra reservation of both rows.
FailedRequestFree ==
    \A r \in Requests : pc[r] \in {"rejected", "refunded", "kept"} /\ faults[r] = 0 =>
        walletNet[r] = 0 /\ subNet[r] = 0 /\ tokenNet[r] = 0

\* No request ever gives the wallet or the token more than it took, not even
\* after failed writes and crashes: refunds of these rows are not retried.
NeverOverRefunded ==
    \A r \in Requests : walletNet[r] >= 0 /\ tokenNet[r] >= 0

\* Concurrent pre-consumes, reserves, settlements and fees never push the
\* used amount of a limited subscription past its total.
SubscriptionWithinTotal ==
    SubTotal > 0 => subUsed <= SubTotal

\* The violation fee of the request, as far as its funding source s has paid it.
FeeDrawn(r, s) ==
    IF source[r] = s /\ fee[r] \in {"token", "paid", "fundingOnly"} THEN FeeQuota ELSE 0

\* What a request drew from the wallet without asking whether the row covers it:
\* the part beyond its checked pre-consume, and the fee.
Checked(r)        == IF r \in trusted THEN 0 ELSE info[r].asked
WalletPostpaid(r) == Positive(walletNet[r] - Checked(r)) + FeeDrawn(r, "wallet")

\* The wallet goes into debt only by what was drawn after the fact (trusted
\* requests, Reserve, settlement above the estimate, fees): concurrent
\* pre-consumes alone never overdraw it (TryReserveUserQuota).
DebtIsPostpaid == userQuota + SumFunction([r \in Requests |-> WalletPostpaid(r)]) >= 0

\* What a request drew from the subscription, its fee included.
SubDrawn(r) == subNet[r] + FeeDrawn(r, "subscription")

\* As long as no write failed, the clamp of PostConsumeUserSubscriptionDelta
\* never forgives quota: the row holds the sum of what the requests drew.
SubscriptionBooksBalance ==
    (\A r \in Requests : faults[r] = 0) => subUsed = SumFunction([r \in Requests |-> SubDrawn(r)])

\* A request that began is over eventually, its asynchronous refund and its
\* violation fee included.
RequestsEnd ==
    \A r \in Requests :
        pc[r] # "idle" ~> pc[r] \in Terminal /\ fee[r] \notin {"due", "token"}

\* A closed account stays closed: once a request is over, no step of it or of
\* another request moves what it has drawn.
ClosedAccountsStay ==
    [][\A r \in Requests : pc[r] \in Terminal =>
          /\ pc'[r] = pc[r]
          /\ walletNet'[r] = walletNet[r] /\ subNet'[r] = subNet[r] /\ tokenNet'[r] = tokenNet[r]]_vars

-----------------------------------------------------------------------------
(* Refinement of BillingLedger.                                             *)

\* An unsettled request (settlement refused by an exhausted subscription or
\* by a failed write) and one that met a fault are abandoned; the others
\* are closed at the end of their last step.
Outcome(r) ==
    IF pc[r] \notin Terminal THEN "open"
    ELSE IF faults[r] > 0 \/ pc[r] = "unsettled" THEN "abandoned"
    ELSE IF pc[r] = "settled" THEN "charged"
    ELSE "free"

Ledger == INSTANCE BillingLedger WITH
    TokenFree <- Playground,
    outcome   <- [r \in Requests |-> Outcome(r)],
    price     <- actual,
    held      <- [r \in Requests |-> [funding |-> walletNet[r] + subNet[r], token |-> tokenNet[r]]]

\* Every behaviour of the sessions is a behaviour of the ledger: each account
\* is closed once, at its price on both rows or at nothing on both.
ImplementsLedger == Ledger!Spec
=============================================================================
