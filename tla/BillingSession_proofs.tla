------------------------- MODULE BillingSession_proofs -------------------------
(***************************************************************************)
(* Proofs about the billing life cycle, for every set of requests, every   *)
(* set of quotas, every setting and every number of faults.                *)
(*                                                                         *)
(* The invariant is local: Account(r) relates what request r has drawn to  *)
(* the fields of its session, phase by phase.  A step of one request does  *)
(* not touch the account of another.  Only SubscriptionWithinTotal and the *)
(* books (DebtIsPostpaid, SubscriptionBooksBalance) are about the shared   *)
(* rows: a step moves one entry of a sum and the row by the same amount.   *)
(***************************************************************************)
EXTENDS BillingSession, Sums, TLAPS

\* The token holds at least n for the request, exactly n if no write failed.
TokenHolds(r, n) ==
    /\ tokenNet[r] >= n
    /\ faults[r] = 0 => tokenNet[r] = n

\* The funding source holds n beyond what the session has pre-consumed.
Reserved(r, n) ==
    /\ pre[r] = tokenConsumed[r]
    /\ source[r] = "wallet" => walletNet[r] = pre[r] + n /\ consumed[r] = pre[r] + n /\ subNet[r] = 0
    /\ source[r] = "subscription" =>
          subNet[r] = pre[r] + n /\ pre[r] = consumed[r] + extra[r] /\ walletNet[r] = 0

\* Up to the pre-consume of the funding source only the token holds anything.
OpeningAccount(r) ==
    /\ walletNet[r] = 0 /\ subNet[r] = 0
    /\ pre[r] = 0 /\ extra[r] = 0 /\ consumed[r] = 0
    /\ TokenHolds(r, IF pc[r] \in {"fund", "rollback", "abort"}
                     THEN TokenShare(r, tokenConsumed[r]) ELSE 0)
    /\ pc[r] = "idle" => source[r] = "none"
    /\ pc[r] = "fund" => tokenConsumed[r] = EffectiveQuota(r)

\* After a failed Reserve ("failing") the source may still hold the extra part.
OpenAccount(r) ==
    /\ TokenHolds(r, TokenShare(r, tokenConsumed[r]))
    /\ pc[r] = "active" => Reserved(r, 0)
    /\ pc[r] \in {"reserveToken", "reserveRollback"} => pend[r] > 0 /\ Reserved(r, pend[r])
    /\ pc[r] = "failing" =>
          /\ pre[r] = tokenConsumed[r]
          /\ source[r] = "wallet" =>
                /\ walletNet[r] = consumed[r] /\ consumed[r] >= pre[r]
                /\ faults[r] = 0 => consumed[r] = pre[r] /\ subNet[r] = 0
          /\ source[r] = "subscription" =>
                /\ walletNet[r] = 0 /\ pre[r] = consumed[r] + extra[r]
                /\ faults[r] = 0 => subNet[r] = pre[r]

\* The funding source is settled; the token is still to follow.
SettlingAccount(r) ==
    /\ Funding(r) = actual[r] /\ OtherFunding(r) = 0
    /\ pend[r] = actual[r] - pre[r]
    /\ TokenHolds(r, TokenShare(r, pre[r]))

\* What is left to give back is what the session remembers.
RefundingAccount(r) ==
    /\ TokenHolds(r, TokenShare(r, tokenConsumed[r]))
    /\ source[r] = "subscription" => walletNet[r] = 0
    /\ pc[r] = "refundFunding" =>
          /\ source[r] = "wallet" => walletNet[r] = consumed[r]
          /\ faults[r] = 0 => subNet[r] = IF source[r] = "wallet" THEN 0 ELSE consumed[r] + extra[r]
    /\ pc[r] \in {"refundRecord", "refundExtra"} =>
          source[r] = "subscription" /\ (faults[r] = 0 => subNet[r] = extra[r])
    /\ pc[r] = "refundToken" =>
          /\ r \notin Playground /\ walletNet[r] >= 0
          /\ faults[r] = 0 => walletNet[r] = 0 /\ subNet[r] = 0
    /\ pc[r] \in {"refundFunding", "refundRecord"} => tries[r] < MaxAttempts

ClosedAccount(r) ==
    /\ walletNet[r] >= 0 /\ tokenNet[r] >= 0
    /\ pc[r] = "settled" =>
          /\ Funding(r) = actual[r] /\ OtherFunding(r) = 0
          /\ faults[r] = 0 => tokenNet[r] = TokenShare(r, actual[r])
    /\ pc[r] \in {"rejected", "refunded", "kept"} /\ faults[r] = 0 =>
          walletNet[r] = 0 /\ subNet[r] = 0 /\ tokenNet[r] = 0
    /\ pc[r] = "crashed" => faults[r] > 0

Unfunded == {"idle", "checkSub", "checkWallet", "rejected", "crashed"}

Account(r) ==
    /\ source[r] # "wallet" => r \notin trusted
    /\ pc[r] \notin Unfunded => source[r] \in {"wallet", "subscription"}
    /\ pc[r] \notin Refunding \cup Terminal => tries[r] = 0
    /\ pc[r] \in Opening => OpeningAccount(r)
    /\ pc[r] \in Open => OpenAccount(r)
    /\ pc[r] = "settleToken" => SettlingAccount(r)
    /\ pc[r] \in Refunding => RefundingAccount(r)
    /\ pc[r] \in Terminal => ClosedAccount(r)

Accounts == \A r \in Requests : Account(r)

\* The inductive invariant.
IInv == TypeOK /\ Accounts /\ SubscriptionWithinTotal

-----------------------------------------------------------------------------
(* The types, in the parts that different steps disturb.                   *)

RowsType ==
    /\ userQuota \in Int /\ remain \in Int /\ subUsed \in Nat
    /\ walletNet \in [Requests -> Int] /\ subNet \in [Requests -> Int] /\ tokenNet \in [Requests -> Int]

FaultsType == faults \in [Requests -> 0..MaxFaults]

SessionType ==
    /\ source \in [Requests -> Sources]
    /\ trusted \in SUBSET Requests
    /\ pre \in [Requests -> Nat] /\ tokenConsumed \in [Requests -> Nat]
    /\ extra \in [Requests -> Nat] /\ consumed \in [Requests -> Nat]
    /\ pend \in [Requests -> Int] /\ actual \in [Requests -> Nat]
    /\ tries \in [Requests -> 0..MaxAttempts]

RequestType ==
    /\ subActive \in BOOLEAN
    /\ record \in [Requests -> {"none", "consumed", "refunded"}]
    /\ pc \in [Requests -> Labels]
    /\ info \in [Requests -> [pref : AllPreferences, asked : Nat, tokenTrusted : BOOLEAN]]
    /\ fee \in [Requests -> {"none", "due", "token", "paid", "fundingOnly", "lost"}]

\* TypeOK is the conjunction of its parts ...
LEMMA TypeParts ==
  TypeOK <=> RowsType /\ FaultsType /\ SessionType /\ RequestType
  BY DEF TypeOK, RowsType, FaultsType, SessionType, RequestType

\* ... in the next state as well.
LEMMA TypePartsPrime ==
  TypeOK' <=> RowsType' /\ FaultsType' /\ SessionType' /\ RequestType'
  BY DEF TypeOK, RowsType, FaultsType, SessionType, RequestType

\* Amounts of an opening session are natural numbers.
LEMMA AmountType ==
  ASSUME TypeOK, NEW r \in Requests
  PROVE  Amount(r) \in Nat /\ EffectiveQuota(r) \in Nat
  BY DEF TypeOK, Amount, EffectiveQuota

\* The primitives keep the types of the rows.
LEMMA TakeWalletType ==
  ASSUME RowsType, NEW r \in Requests, NEW n \in Int, TakeWallet(r, n)
  PROVE  RowsType'
  BY DEF RowsType, TakeWallet

\* Likewise for the token row.
LEMMA TakeTokenType ==
  ASSUME RowsType, NEW r \in Requests, NEW n \in Int, TakeToken(r, n)
  PROVE  RowsType'
  BY DEF RowsType, TakeToken

\* Likewise for the subscription row, whose clamp keeps it natural.
LEMMA TakeSubType ==
  ASSUME RowsType, NEW r \in Requests, NEW n \in Int, TakeSub(r, n)
  PROVE  RowsType'
  BY DEF RowsType, TakeSub, Positive

\* Untouched rows keep their types.
LEMMA SameRowsType ==
  ASSUME RowsType, UNCHANGED rows
  PROVE  RowsType'
  BY DEF RowsType, rows

\* A failed write leaves the rows alone and is counted.
LEMMA FaultType ==
  ASSUME RowsType, FaultsType, NEW r \in Requests, Fault(r)
  PROVE  RowsType' /\ FaultsType' /\ faults'[r] > 0
  BY FaultsAssumption DEF RowsType, FaultsType, Fault, rows

\* No failed write, no new fault.
LEMMA NoFaultType ==
  ASSUME FaultsType, NoFault
  PROVE  FaultsType'
  BY DEF FaultsType, NoFault

\* An untouched session keeps its types.
LEMMA SameSessionType ==
  ASSUME SessionType, UNCHANGED session
  PROVE  SessionType'
  BY DEF SessionType, session

\* A fresh session is well typed.
LEMMA OpenSessionType ==
  ASSUME SessionType, NEW r \in Requests, NEW s \in Sources, OpenSession(r, s)
  PROVE  SessionType'
<1>1. source' \in [Requests -> Sources] /\ tokenConsumed' \in [Requests -> Nat]
  BY DEF SessionType, OpenSession
<1>2. trusted' \in SUBSET Requests
  BY DEF SessionType, OpenSession
<1> QED  BY <1>1, <1>2 DEF SessionType, OpenSession

-----------------------------------------------------------------------------
(* A step of request r leaves the accounts of the others alone.            *)

Same(s) ==
    /\ pc'[s] = pc[s] /\ info'[s] = info[s] /\ source'[s] = source[s]
    /\ (s \in trusted') <=> (s \in trusted)
    /\ pre'[s] = pre[s] /\ tokenConsumed'[s] = tokenConsumed[s] /\ extra'[s] = extra[s]
    /\ consumed'[s] = consumed[s] /\ pend'[s] = pend[s] /\ actual'[s] = actual[s]
    /\ tries'[s] = tries[s] /\ faults'[s] = faults[s]
    /\ walletNet'[s] = walletNet[s] /\ subNet'[s] = subNet[s] /\ tokenNet'[s] = tokenNet[s]

Others(r) == \A s \in Requests \ {r} : Same(s)

\* An account that no step touches stays in order.
LEMMA Frame ==
  ASSUME NEW s \in Requests, Account(s), Same(s)
  PROVE  Account(s)'
  BY DEF Same, EffectiveQuota, Amount, Account, OpeningAccount, OpenAccount, SettlingAccount,
         RefundingAccount, ClosedAccount, TokenHolds, Reserved, TokenShare, Funding, OtherFunding

\* Hence a step of r keeps the invariant if it keeps the types, the account
\* of r and the bound on the subscription.
LEMMA Localise ==
  ASSUME IInv, NEW r \in Requests, TypeOK', Account(r)', SubscriptionWithinTotal', Others(r)
  PROVE  IInv'
  BY Frame DEF IInv, Accounts, Others

\* In every phase the wallet and the token hold no negative amount.
LEMMA Solvency ==
  ASSUME TypeOK, NEW r \in Requests, Account(r)
  PROVE  walletNet[r] >= 0 /\ tokenNet[r] >= 0
<1>0. RowsType /\ SessionType /\ RequestType
  BY TypeParts
<1>1. CASE pc[r] \in Opening
  BY <1>0, <1>1 DEF RowsType, SessionType, Account, OpeningAccount, TokenHolds, TokenShare
<1>2. CASE pc[r] \in Open
  BY <1>0, <1>2 DEF RowsType, SessionType, Account, OpenAccount, Reserved, TokenHolds, TokenShare,
     Unfunded, Open
<1>3. CASE pc[r] = "settleToken"
  BY <1>0, <1>3 DEF RowsType, SessionType, Account, SettlingAccount, Funding, OtherFunding,
     TokenHolds, TokenShare
<1>4. CASE pc[r] \in Refunding
  BY <1>0, <1>4 DEF RowsType, SessionType, Account, RefundingAccount, TokenHolds, TokenShare,
     Unfunded, Refunding
<1>5. CASE pc[r] \in Terminal
  BY <1>0, <1>5 DEF Account, ClosedAccount
<1> QED  BY <1>0, <1>1, <1>2, <1>3, <1>4, <1>5 DEF RequestType, Labels

\* The initial accounts are in order.
LEMMA InitInv == Init => IInv
  BY QuotasAssumption, RowsAssumption, FaultsAssumption
     DEF Init, Zero, IInv, TypeOK, Sources, AllPreferences, MaxAttempts, SubscriptionWithinTotal,
         Accounts, Account, OpeningAccount, TokenHolds, TokenShare, Unfunded,
         Labels, Opening, Open, Refunding, Terminal

-----------------------------------------------------------------------------
(* One lemma per action.                                                    *)

\* The token was valid; the first source is chosen.
LEMMA BeginStep ==
  ASSUME IInv, NEW r \in Requests, NEW p \in Preferences, NEW q \in Quotas, Begin(r, p, q)
  PROVE  IInv' /\ Others(r)
<1>0. TypeOK /\ RowsType /\ FaultsType /\ SessionType /\ RequestType /\ Account(r)
  BY TypeParts DEF IInv, Accounts
<1>1. TypeOK'
  <2>1. RowsType'
    BY <1>0, SameRowsType, QuotasAssumption DEF Begin
  <2>2. FaultsType'
    BY <1>0 DEF Begin, FaultsType
  <2>3. SessionType'
    BY <1>0, QuotasAssumption DEF Begin, SessionType, Sources
  <2>4. RequestType'
    BY <1>0, QuotasAssumption, PreferenceAssumption
       DEF Begin, Go, RequestType, Labels, Opening, Open, Refunding, Terminal,
           AllPreferences
  <2> QED  BY <2>1, <2>2, <2>3, <2>4, TypePartsPrime
<1>2. Account(r)'
  BY <1>0, QuotasAssumption
     DEF RowsType, SessionType, FaultsType, RequestType, Begin, Go, rows, session, Account,
         OpeningAccount, TokenHolds, Unfunded, Opening, Open, Refunding, Terminal,
         MaxAttempts
<1>3. Others(r)
  BY <1>0
     DEF RowsType, SessionType, FaultsType, RequestType, Others, Same, Begin, Go, rows,
         session
<1>4. SubscriptionWithinTotal'
  BY DEF IInv, SubscriptionWithinTotal, Begin, rows
<1> QED  BY <1>1, <1>2, <1>3, <1>4, Localise

\* The token was invalid: nothing is drawn.
LEMMA RefuseTokenStep ==
  ASSUME IInv, NEW r \in Requests, RefuseToken(r)
  PROVE  IInv' /\ Others(r)
<1>0. TypeOK /\ RowsType /\ FaultsType /\ SessionType /\ RequestType /\ Account(r)
  BY TypeParts DEF IInv, Accounts
<1>1. TypeOK'
  <2>1. RowsType'
    BY <1>0, SameRowsType DEF RefuseToken
  <2>2. FaultsType'
    BY <1>0 DEF RefuseToken, FaultsType
  <2>3. SessionType'
    BY <1>0, SameSessionType DEF RefuseToken
  <2>4. RequestType'
    BY <1>0 DEF RefuseToken, Go, RequestType, Labels, Opening, Open, Refunding, Terminal
  <2> QED  BY <2>1, <2>2, <2>3, <2>4, TypePartsPrime
<1>2. Account(r)'
  BY <1>0
     DEF RowsType, SessionType, FaultsType, RequestType, RefuseToken, Go, rows, session,
         Account, OpeningAccount, ClosedAccount, TokenHolds, Unfunded, Opening, Open,
         Refunding, Terminal, MaxAttempts
<1>3. Others(r)
  BY <1>0
     DEF RowsType, SessionType, FaultsType, RequestType, Others, Same, RefuseToken, Go, rows,
         session
<1>4. SubscriptionWithinTotal'
  BY DEF IInv, SubscriptionWithinTotal, RefuseToken, rows
<1> QED  BY <1>1, <1>2, <1>3, <1>4, Localise

\* HasActiveUserSubscription opens a session or leads to the wallet.
LEMMA CheckSubscriptionStep ==
  ASSUME IInv, NEW r \in Requests, CheckSubscription(r)
  PROVE  IInv' /\ Others(r)
<1>0. TypeOK /\ RowsType /\ FaultsType /\ SessionType /\ RequestType /\ Account(r)
  BY TypeParts DEF IInv, Accounts
<1>1. TypeOK'
  <2>1. RowsType'
    BY <1>0, FaultType, SameRowsType DEF CheckSubscription
  <2>2. FaultsType'
    BY <1>0, FaultType, NoFaultType DEF CheckSubscription
  <2>3. SessionType'
    BY <1>0, OpenSessionType, SameSessionType DEF CheckSubscription, Sources
  <2>4. RequestType'
    BY <1>0 DEF CheckSubscription, Go, RequestType, Labels, Opening, Open, Refunding, Terminal
  <2> QED  BY <2>1, <2>2, <2>3, <2>4, TypePartsPrime
<1>2. Account(r)'
  BY <1>0
     DEF RowsType, SessionType, FaultsType, RequestType, CheckSubscription, OpenSession,
         NoFault, Fault, Go, rows, session, Account, OpeningAccount, ClosedAccount,
         TokenHolds, Unfunded, Opening, Open, Refunding, Terminal, MaxAttempts
<1>3. Others(r)
  BY <1>0
     DEF RowsType, SessionType, FaultsType, RequestType, Others, Same, CheckSubscription,
         OpenSession, NoFault, Fault, Go, rows, session
<1>4. SubscriptionWithinTotal'
  BY DEF IInv, SubscriptionWithinTotal, CheckSubscription, Fault, rows
<1> QED  BY <1>1, <1>2, <1>3, <1>4, Localise

\* tryWallet opens a session on the wallet.
LEMMA CheckWalletStep ==
  ASSUME IInv, NEW r \in Requests, CheckWallet(r)
  PROVE  IInv' /\ Others(r)
<1>0. TypeOK /\ RowsType /\ FaultsType /\ SessionType /\ RequestType /\ Account(r)
  BY TypeParts DEF IInv, Accounts
<1>1. TypeOK'
  <2>1. RowsType'
    BY <1>0, FaultType, SameRowsType DEF CheckWallet
  <2>2. FaultsType'
    BY <1>0, FaultType, NoFaultType DEF CheckWallet
  <2>3. SessionType'
    BY <1>0, OpenSessionType, SameSessionType DEF CheckWallet, Sources
  <2>4. RequestType'
    BY <1>0 DEF CheckWallet, Go, RequestType, Labels, Opening, Open, Refunding, Terminal
  <2> QED  BY <2>1, <2>2, <2>3, <2>4, TypePartsPrime
<1>2. Account(r)'
  BY <1>0
     DEF RowsType, SessionType, FaultsType, RequestType, CheckWallet, OpenSession, NoFault,
         Fault, Go, rows, session, Account, OpeningAccount, ClosedAccount, TokenHolds,
         Unfunded, Opening, Open, Refunding, Terminal, MaxAttempts
<1>3. Others(r)
  BY <1>0
     DEF RowsType, SessionType, FaultsType, RequestType, Others, Same, CheckWallet,
         OpenSession, NoFault, Fault, Go, rows, session
<1>4. SubscriptionWithinTotal'
  BY DEF IInv, SubscriptionWithinTotal, CheckWallet, Fault, rows
<1> QED  BY <1>1, <1>2, <1>3, <1>4, Localise

\* The token holds what tokenConsumed says.
LEMMA PreConsumeTokenStep ==
  ASSUME IInv, NEW r \in Requests, PreConsumeToken(r)
  PROVE  IInv' /\ Others(r)
<1>0. TypeOK /\ RowsType /\ FaultsType /\ SessionType /\ RequestType /\ Account(r)
  BY TypeParts DEF IInv, Accounts
<1>1. TypeOK'
  <2>1. RowsType'
    BY <1>0, TakeTokenType, FaultType, SameRowsType, AmountType DEF PreConsumeToken, SessionType
  <2>2. FaultsType'
    BY <1>0, FaultType, NoFaultType DEF PreConsumeToken
  <2>3. SessionType'
    BY <1>0, AmountType DEF PreConsumeToken, SessionType
  <2>4. RequestType'
    BY <1>0 DEF PreConsumeToken, Go, RequestType, Labels, Opening, Open, Refunding, Terminal
  <2> QED  BY <2>1, <2>2, <2>3, <2>4, TypePartsPrime
<1>2. Account(r)'
  BY <1>0, AmountType
     DEF RowsType, SessionType, FaultsType, RequestType, PreConsumeToken, TakeToken, NoFault,
         Fault, Go, rows, session, Account, OpeningAccount, ClosedAccount, TokenHolds,
         TokenShare, EffectiveQuota, Amount, Unfunded, Opening, Open, Refunding, Terminal,
         MaxAttempts
<1>3. Others(r)
  BY <1>0
     DEF RowsType, SessionType, FaultsType, RequestType, Others, Same, PreConsumeToken,
         TakeToken, NoFault, Fault, Go, rows, session
<1>4. SubscriptionWithinTotal'
  BY DEF IInv, SubscriptionWithinTotal, PreConsumeToken, TakeToken, Fault, rows
<1> QED  BY <1>1, <1>2, <1>3, <1>4, Localise

\* The wallet holds what the session pre-consumed.
LEMMA PreConsumeWalletStep ==
  ASSUME IInv, NEW r \in Requests, PreConsumeWallet(r)
  PROVE  IInv' /\ Others(r)
<1>0. TypeOK /\ RowsType /\ FaultsType /\ SessionType /\ RequestType /\ Account(r)
  BY TypeParts DEF IInv, Accounts
<1>1. TypeOK'
  <2>1. RowsType'
    BY <1>0, TakeWalletType, FaultType, SameRowsType, AmountType DEF PreConsumeWallet, SessionType
  <2>2. FaultsType'
    BY <1>0, FaultType, NoFaultType DEF PreConsumeWallet
  <2>3. SessionType'
    BY <1>0, AmountType DEF PreConsumeWallet, Fund, RefuseFunding, SessionType
  <2>4. RequestType'
    BY <1>0
       DEF PreConsumeWallet, Fund, RefuseFunding, Go, RequestType, Labels, Opening, Open,
           Refunding, Terminal
  <2> QED  BY <2>1, <2>2, <2>3, <2>4, TypePartsPrime
<1>2. Account(r)'
  BY <1>0, AmountType
     DEF RowsType, SessionType, FaultsType, RequestType, PreConsumeWallet, TakeWallet, Fund,
         RefuseFunding, NoFault, Fault, Go, rows, session, Account, OpeningAccount,
         OpenAccount, Reserved, TokenHolds, TokenShare, Unfunded, Opening, Open, Refunding,
         Terminal, MaxAttempts
<1>3. Others(r)
  BY <1>0
     DEF RowsType, SessionType, FaultsType, RequestType, Others, Same, PreConsumeWallet,
         TakeWallet, Fund, RefuseFunding, NoFault, Fault, Go, rows, session
<1>4. SubscriptionWithinTotal'
  BY DEF IInv, SubscriptionWithinTotal, PreConsumeWallet, TakeWallet, Fault, rows
<1> QED  BY <1>1, <1>2, <1>3, <1>4, Localise

\* The subscription holds what the session pre-consumed.
LEMMA PreConsumeSubscriptionStep ==
  ASSUME IInv, NEW r \in Requests, PreConsumeSubscription(r)
  PROVE  IInv' /\ Others(r)
<1>0. TypeOK /\ RowsType /\ FaultsType /\ SessionType /\ RequestType /\ Account(r)
  BY TypeParts DEF IInv, Accounts
<1>1. TypeOK'
  <2>1. RowsType'
    BY <1>0, TakeSubType, FaultType, SameRowsType, AmountType
       DEF PreConsumeSubscription, SessionType
  <2>2. FaultsType'
    BY <1>0, FaultType, NoFaultType DEF PreConsumeSubscription
  <2>3. SessionType'
    BY <1>0, AmountType DEF PreConsumeSubscription, Fund, RefuseFunding, SessionType
  <2>4. RequestType'
    BY <1>0
       DEF PreConsumeSubscription, Fund, RefuseFunding, Go, RequestType, Labels, Opening,
           Open, Refunding, Terminal
  <2> QED  BY <2>1, <2>2, <2>3, <2>4, TypePartsPrime
<1>2. Account(r)'
  BY <1>0, AmountType
     DEF RowsType, SessionType, FaultsType, RequestType, PreConsumeSubscription, TakeSub,
         SubAdmits, Positive, Fund, RefuseFunding, NoFault, Fault, Go, rows, session,
         Account, OpeningAccount, OpenAccount, Reserved, TokenHolds, TokenShare,
         EffectiveQuota, Unfunded, Opening, Open, Refunding, Terminal, MaxAttempts
<1>3. Others(r)
  BY <1>0
     DEF RowsType, SessionType, FaultsType, RequestType, Others, Same,
         PreConsumeSubscription, TakeSub, Fund, RefuseFunding, NoFault, Fault, Go, rows,
         session
<1>4. SubscriptionWithinTotal'
  BY <1>0, RowsAssumption, AmountType
     DEF IInv, RowsType, SessionType, SubscriptionWithinTotal, PreConsumeSubscription,
         TakeSub, SubAdmits, Positive, Fault, rows
<1> QED  BY <1>1, <1>2, <1>3, <1>4, Localise

\* The token quota is given back, or a write failed.
LEMMA RollbackTokenStep ==
  ASSUME IInv, NEW r \in Requests, RollbackToken(r)
  PROVE  IInv' /\ Others(r)
<1>0. TypeOK /\ RowsType /\ FaultsType /\ SessionType /\ RequestType /\ Account(r)
  BY TypeParts DEF IInv, Accounts
<1>1. TypeOK'
  <2>1. RowsType'
    BY <1>0, TakeTokenType, FaultType, SameRowsType DEF RollbackToken, SessionType
  <2>2. FaultsType'
    BY <1>0, FaultType, NoFaultType DEF RollbackToken
  <2>3. SessionType'
    BY <1>0 DEF RollbackToken, SessionType
  <2>4. RequestType'
    BY <1>0 DEF RollbackToken, Go, RequestType, Labels, Opening, Open, Refunding, Terminal
  <2> QED  BY <2>1, <2>2, <2>3, <2>4, TypePartsPrime
<1>2. Account(r)'
  BY <1>0
     DEF RowsType, SessionType, FaultsType, RequestType, RollbackToken, NeedsToken,
         TakeToken, NoFault, Fault, Go, rows, session, Account, OpeningAccount,
         ClosedAccount, TokenHolds, TokenShare, Unfunded, Opening, Open, Refunding, Terminal,
         MaxAttempts
<1>3. Others(r)
  BY <1>0
     DEF RowsType, SessionType, FaultsType, RequestType, Others, Same, RollbackToken,
         TakeToken, NoFault, Fault, Go, rows, session
<1>4. SubscriptionWithinTotal'
  BY DEF IInv, SubscriptionWithinTotal, RollbackToken, TakeToken, Fault, rows
<1> QED  BY <1>1, <1>2, <1>3, <1>4, Localise

\* The other source starts from an empty session.
LEMMA FallbackStep ==
  ASSUME IInv, NEW r \in Requests, Fallback(r)
  PROVE  IInv' /\ Others(r)
<1>0. TypeOK /\ RowsType /\ FaultsType /\ SessionType /\ RequestType /\ Account(r)
  BY TypeParts DEF IInv, Accounts
<1>1. TypeOK'
  <2>1. RowsType'
    BY <1>0, FaultType, SameRowsType DEF Fallback
  <2>2. FaultsType'
    BY <1>0, FaultType, NoFaultType DEF Fallback
  <2>3. SessionType'
    BY <1>0, OpenSessionType, SameSessionType DEF Fallback, Sources
  <2>4. RequestType'
    BY <1>0 DEF Fallback, Go, RequestType, Labels, Opening, Open, Refunding, Terminal
  <2> QED  BY <2>1, <2>2, <2>3, <2>4, TypePartsPrime
<1>2. Account(r)'
  BY <1>0
     DEF RowsType, SessionType, FaultsType, RequestType, Fallback, OpenSession, NoFault,
         Fault, Go, rows, session, Account, OpeningAccount, ClosedAccount, TokenHolds,
         Unfunded, Opening, Open, Refunding, Terminal, MaxAttempts
<1>3. Others(r)
  BY <1>0
     DEF RowsType, SessionType, FaultsType, RequestType, Others, Same, Fallback, OpenSession,
         NoFault, Fault, Go, rows, session
<1>4. SubscriptionWithinTotal'
  BY DEF IInv, SubscriptionWithinTotal, Fallback, Fault, rows
<1> QED  BY <1>1, <1>2, <1>3, <1>4, Localise

\* Reserve raises the funding source first.
LEMMA ReserveFundingStep ==
  ASSUME IInv, NEW r \in Requests, NEW q \in Quotas, ReserveFunding(r, q)
  PROVE  IInv' /\ Others(r)
<1>0. TypeOK /\ RowsType /\ FaultsType /\ SessionType /\ RequestType /\ Account(r)
  BY TypeParts DEF IInv, Accounts
<1>1. TypeOK'
  <2>1. RowsType'
    BY <1>0, TakeWalletType, TakeSubType, FaultType, SameRowsType, QuotasAssumption
       DEF ReserveFunding, SessionType
  <2>2. FaultsType'
    BY <1>0, FaultType, NoFaultType DEF ReserveFunding
  <2>3. SessionType'
    BY <1>0, QuotasAssumption DEF ReserveFunding, SessionType
  <2>4. RequestType'
    BY <1>0, QuotasAssumption
       DEF ReserveFunding, Go, RequestType, Labels, Opening, Open, Refunding, Terminal
  <2> QED  BY <2>1, <2>2, <2>3, <2>4, TypePartsPrime
<1>2. Account(r)'
  BY <1>0, QuotasAssumption
     DEF RowsType, SessionType, FaultsType, RequestType, ReserveFunding, TakeWallet, TakeSub,
         SubAdmits, Positive, NoFault, Fault, Go, rows, session, Account, OpenAccount,
         Reserved, TokenHolds, Unfunded, Opening, Open, Refunding, Terminal, MaxAttempts
<1>3. Others(r)
  BY <1>0
     DEF RowsType, SessionType, FaultsType, RequestType, Others, Same, ReserveFunding,
         TakeWallet, TakeSub, NoFault, Fault, Go, rows, session
<1>4. SubscriptionWithinTotal'
  BY <1>0, RowsAssumption, QuotasAssumption
     DEF IInv, RowsType, SessionType, SubscriptionWithinTotal, ReserveFunding, TakeWallet,
         TakeSub, SubAdmits, Positive, Fault, rows
<1> QED  BY <1>1, <1>2, <1>3, <1>4, Localise

\* Reserve raises the token, and commits the session fields.
LEMMA ReserveTokenStep ==
  ASSUME IInv, NEW r \in Requests, ReserveToken(r)
  PROVE  IInv' /\ Others(r)
<1>0. TypeOK /\ RowsType /\ FaultsType /\ SessionType /\ RequestType /\ Account(r)
  BY TypeParts DEF IInv, Accounts
<1>1. TypeOK'
  <2>1. RowsType'
    BY <1>0, TakeTokenType, FaultType, SameRowsType DEF ReserveToken, SessionType
  <2>2. FaultsType'
    BY <1>0, FaultType, NoFaultType DEF ReserveToken
  <2>3. SessionType'
    BY <1>0 DEF ReserveToken, CommitReserve, SessionType, Account, OpenAccount, Reserved, Open
  <2>4. RequestType'
    BY <1>0 DEF ReserveToken, Go, RequestType, Labels, Opening, Open, Refunding, Terminal
  <2> QED  BY <2>1, <2>2, <2>3, <2>4, TypePartsPrime
<1>2. Account(r)'
  BY <1>0
     DEF RowsType, SessionType, FaultsType, RequestType, ReserveToken, CommitReserve,
         TakeToken, NoFault, Fault, Go, rows, session, Account, OpenAccount, Reserved,
         TokenHolds, TokenShare, Unfunded, Opening, Open, Refunding, Terminal, MaxAttempts
<1>3. Others(r)
  BY <1>0
     DEF RowsType, SessionType, FaultsType, RequestType, Others, Same, ReserveToken,
         CommitReserve, TakeToken, NoFault, Fault, Go, rows, session
<1>4. SubscriptionWithinTotal'
  BY DEF IInv, SubscriptionWithinTotal, ReserveToken, TakeToken, Fault, rows
<1> QED  BY <1>1, <1>2, <1>3, <1>4, Localise

\* A refused Reserve lowers the funding source again.
LEMMA ReserveRollbackStep ==
  ASSUME IInv, NEW r \in Requests, ReserveRollback(r)
  PROVE  IInv' /\ Others(r)
<1>0. TypeOK /\ RowsType /\ FaultsType /\ SessionType /\ RequestType /\ Account(r)
  BY TypeParts DEF IInv, Accounts
<1>1. TypeOK'
  <2>1. RowsType'
    BY <1>0, TakeWalletType, TakeSubType, FaultType DEF ReserveRollback, SessionType
  <2>2. FaultsType'
    BY <1>0, FaultType, NoFaultType DEF ReserveRollback
  <2>3. SessionType'
    <3>1. Reserved(r, pend[r])
      BY <1>0 DEF ReserveRollback, Account, OpenAccount, Open
    <3>2. source[r] = "wallet" => consumed[r] - pend[r] \in Nat
      BY <1>0, <3>1 DEF Reserved, SessionType
    <3>3. consumed' \in [Requests -> Nat]
      BY <1>0, <3>2 DEF ReserveRollback, ReleaseReserve, SessionType
    <3> QED  BY <1>0, <3>3 DEF ReserveRollback, SessionType
  <2>4. RequestType'
    BY <1>0 DEF ReserveRollback, Go, RequestType, Labels, Opening, Open, Refunding, Terminal
  <2> QED  BY <2>1, <2>2, <2>3, <2>4, TypePartsPrime
<1>2. Account(r)'
  BY <1>0
     DEF RowsType, SessionType, FaultsType, RequestType, ReserveRollback, ReleaseReserve,
         TakeWallet, TakeSub, Positive, NoFault, Fault, Go, rows, session, Account,
         OpenAccount, Reserved, TokenHolds, Unfunded, Opening, Open, Refunding, Terminal,
         MaxAttempts
<1>3. Others(r)
  BY <1>0
     DEF RowsType, SessionType, FaultsType, RequestType, Others, Same, ReserveRollback,
         ReleaseReserve, TakeWallet, TakeSub, NoFault, Fault, Go, rows, session
<1>4. SubscriptionWithinTotal'
  BY <1>0, RowsAssumption
     DEF IInv, RowsType, SessionType, SubscriptionWithinTotal, ReserveRollback, TakeWallet,
         TakeSub, Positive, Fault, rows, Account, OpenAccount, Open
<1> QED  BY <1>1, <1>2, <1>3, <1>4, Localise

\* Settle brings the funding source to the actual cost.
LEMMA SettleFundingStep ==
  ASSUME IInv, NEW r \in Requests, NEW q \in Quotas, SettleFunding(r, q)
  PROVE  IInv' /\ Others(r)
<1>0. TypeOK /\ RowsType /\ FaultsType /\ SessionType /\ RequestType /\ Account(r)
  BY TypeParts DEF IInv, Accounts
<1>1. TypeOK'
  <2>1. RowsType'
    BY <1>0, TakeWalletType, TakeSubType, FaultType, SameRowsType, QuotasAssumption
       DEF SettleFunding, SessionType
  <2>2. FaultsType'
    BY <1>0, FaultType, NoFaultType DEF SettleFunding
  <2>3. SessionType'
    BY <1>0, QuotasAssumption DEF SettleFunding, SessionType
  <2>4. RequestType'
    BY <1>0, QuotasAssumption
       DEF SettleFunding, Go, RequestType, Labels, Opening, Open, Refunding, Terminal
  <2> QED  BY <2>1, <2>2, <2>3, <2>4, TypePartsPrime
<1>2. Account(r)'
  <2> DEFINE d == q - pre[r]
  <2>0. /\ pc[r] = "active" /\ q \in Nat /\ pre[r] \in Nat /\ d \in Int
        /\ source[r] \in {"wallet", "subscription"} /\ tries[r] = 0
        /\ TokenHolds(r, TokenShare(r, tokenConsumed[r])) /\ Reserved(r, 0)
        /\ source[r] # "wallet" => r \notin trusted
        /\ actual'[r] = q /\ pend'[r] = d
        /\ UNCHANGED <<source, trusted, pre, tokenConsumed, extra, consumed, tries>>
    BY <1>0, QuotasAssumption
       DEF SettleFunding, SessionType, Account, OpenAccount, Unfunded, Open, Refunding, Terminal
  <2>1. CASE d = 0 /\ Go(r, "settled") /\ NoFault /\ UNCHANGED rows
    BY <1>0, <2>0, <2>1 DEF RowsType, SessionType, RequestType, Go, NoFault, rows, Account, Reserved,
       ClosedAccount, TokenHolds, TokenShare, Funding, OtherFunding, Unfunded, Opening, Open, Refunding, Terminal
  <2>2. CASE d # 0 /\ source[r] = "wallet" /\ TakeWallet(r, d) /\ Go(r, "settleToken") /\ NoFault
    BY <1>0, <2>0, <2>2 DEF RowsType, SessionType, RequestType, Go, NoFault, TakeWallet, Account, Reserved,
       SettlingAccount, TokenHolds, TokenShare, Funding, OtherFunding, Unfunded, Opening, Open, Refunding, Terminal
  <2>3. CASE d # 0 /\ source[r] = "subscription" /\ TakeSub(r, d) /\ Go(r, "settleToken") /\ NoFault
    BY <1>0, <2>0, <2>3 DEF RowsType, SessionType, RequestType, Go, NoFault, TakeSub, Account, Reserved,
       SettlingAccount, TokenHolds, TokenShare, Funding, OtherFunding, Unfunded, Opening, Open, Refunding, Terminal
  <2>4. CASE Go(r, "unsettled") /\ UNCHANGED rows
    BY <1>0, <2>0, <2>4 DEF RowsType, SessionType, RequestType, Go, rows, Account, Reserved,
       ClosedAccount, TokenHolds, TokenShare, Unfunded, Opening, Open, Refunding, Terminal
  <2> QED  BY <2>1, <2>2, <2>3, <2>4 DEF SettleFunding, Fault
<1>3. Others(r)
  BY <1>0
     DEF RowsType, SessionType, FaultsType, RequestType, Others, Same, SettleFunding,
         TakeWallet, TakeSub, NoFault, Fault, Go, rows, session
<1>4. SubscriptionWithinTotal'
  BY <1>0, RowsAssumption, QuotasAssumption
     DEF IInv, RowsType, SessionType, SubscriptionWithinTotal, SettleFunding, TakeWallet,
         TakeSub, SubAdmits, Positive, Fault, rows
<1> QED  BY <1>1, <1>2, <1>3, <1>4, Localise

\* Settle brings the token to the actual cost.
LEMMA SettleTokenStep ==
  ASSUME IInv, NEW r \in Requests, SettleToken(r)
  PROVE  IInv' /\ Others(r)
<1>0. TypeOK /\ RowsType /\ FaultsType /\ SessionType /\ RequestType /\ Account(r)
  BY TypeParts DEF IInv, Accounts
<1>1. TypeOK'
  <2>1. RowsType'
    BY <1>0, TakeTokenType, FaultType, SameRowsType DEF SettleToken, SessionType
  <2>2. FaultsType'
    BY <1>0, FaultType, NoFaultType DEF SettleToken
  <2>3. SessionType'
    BY <1>0, SameSessionType DEF SettleToken
  <2>4. RequestType'
    BY <1>0 DEF SettleToken, Go, RequestType, Labels, Opening, Open, Refunding, Terminal
  <2> QED  BY <2>1, <2>2, <2>3, <2>4, TypePartsPrime
<1>2. Account(r)'
  BY <1>0
     DEF RowsType, SessionType, FaultsType, RequestType, SettleToken, TakeToken, NoFault,
         Fault, Go, rows, session, Account, SettlingAccount, ClosedAccount, Funding,
         OtherFunding, TokenHolds, TokenShare, Unfunded, Opening, Open, Refunding, Terminal,
         MaxAttempts
<1>3. Others(r)
  BY <1>0
     DEF RowsType, SessionType, FaultsType, RequestType, Others, Same, SettleToken,
         TakeToken, NoFault, Fault, Go, rows, session
<1>4. SubscriptionWithinTotal'
  BY DEF IInv, SubscriptionWithinTotal, SettleToken, TakeToken, Fault, rows
<1> QED  BY <1>1, <1>2, <1>3, <1>4, Localise

\* Refund is due exactly if the session holds something.
LEMMA FailStep ==
  ASSUME IInv, NEW r \in Requests, Fail(r)
  PROVE  IInv' /\ Others(r)
<1>0. TypeOK /\ RowsType /\ FaultsType /\ SessionType /\ RequestType /\ Account(r)
  BY TypeParts DEF IInv, Accounts
<1>1. TypeOK'
  <2>1. RowsType'
    BY <1>0, SameRowsType DEF Fail
  <2>2. FaultsType'
    BY <1>0 DEF Fail, FaultsType
  <2>3. SessionType'
    BY <1>0, SameSessionType DEF Fail
  <2>4. RequestType'
    BY <1>0 DEF Fail, FeeOutcomes, Go, RequestType, Labels, Opening, Open, Refunding, Terminal
  <2> QED  BY <2>1, <2>2, <2>3, <2>4, TypePartsPrime
<1>2. Account(r)'
  <2>0. /\ pc[r] \in {"active", "failing"}
        /\ source[r] \in {"wallet", "subscription"} /\ tries[r] = 0
        /\ OpenAccount(r)
        /\ source[r] # "wallet" => r \notin trusted
        /\ UNCHANGED <<source, trusted, pre, tokenConsumed, extra, consumed, pend, actual, tries,
                       walletNet, subNet, tokenNet, faults>>
    BY <1>0 DEF Fail, MayFail, session, rows, Account, Unfunded, Open, Refunding, Terminal
  <2>1. CASE NeedsRefund(r) /\ pc'[r] = "refundFunding"
    BY <1>0, <2>0, <2>1 DEF RowsType, SessionType, Account, OpenAccount, Reserved, RefundingAccount,
       TokenHolds, TokenShare, MaxAttempts, Unfunded, Opening, Open, Refunding, Terminal
  <2>2. CASE ~NeedsRefund(r) /\ pc'[r] = "kept"
    BY <1>0, <2>0, <2>2 DEF RowsType, SessionType, NeedsRefund, Account, OpenAccount, Reserved,
       ClosedAccount, TokenHolds, TokenShare, Unfunded, Opening, Open, Refunding, Terminal
  <2> QED  BY <1>0, <2>1, <2>2 DEF Fail, Go, RequestType
<1>3. Others(r)
  BY <1>0
     DEF RowsType, SessionType, FaultsType, RequestType, Others, Same, Fail, Go, rows,
         session
<1>4. SubscriptionWithinTotal'
  BY DEF IInv, SubscriptionWithinTotal, Fail, rows
<1> QED  BY <1>1, <1>2, <1>3, <1>4, Localise

\* The wallet gets back what the session consumed.
LEMMA RefundWalletStep ==
  ASSUME IInv, NEW r \in Requests, RefundWallet(r)
  PROVE  IInv' /\ Others(r)
<1>0. TypeOK /\ RowsType /\ FaultsType /\ SessionType /\ RequestType /\ Account(r)
  BY TypeParts DEF IInv, Accounts
<1>1. TypeOK'
  <2>1. RowsType'
    BY <1>0, TakeWalletType, FaultType DEF RefundWallet, SessionType
  <2>2. FaultsType'
    BY <1>0, FaultType, NoFaultType DEF RefundWallet
  <2>3. SessionType'
    BY <1>0, SameSessionType DEF RefundWallet
  <2>4. RequestType'
    BY <1>0
       DEF RefundWallet, AfterFunding, AfterExtra, Go, RequestType, Labels, Opening, Open,
           Refunding, Terminal
  <2> QED  BY <2>1, <2>2, <2>3, <2>4, TypePartsPrime
<1>2. Account(r)'
  BY <1>0
     DEF RowsType, SessionType, FaultsType, RequestType, RefundWallet, AfterFunding,
         AfterExtra, NeedsToken, TakeWallet, NoFault, Fault, Go, rows, session, Account,
         RefundingAccount, ClosedAccount, TokenHolds, TokenShare, Unfunded, Opening, Open,
         Refunding, Terminal, MaxAttempts
<1>3. Others(r)
  BY <1>0
     DEF RowsType, SessionType, FaultsType, RequestType, Others, Same, RefundWallet,
         TakeWallet, NoFault, Fault, Go, rows, session
<1>4. SubscriptionWithinTotal'
  BY DEF IInv, SubscriptionWithinTotal, RefundWallet, TakeWallet, Fault, rows
<1> QED  BY <1>1, <1>2, <1>3, <1>4, Localise

\* The subscription gets back the recorded amount.
LEMMA RefundSubscriptionStep ==
  ASSUME IInv, NEW r \in Requests, RefundSubscription(r)
  PROVE  IInv' /\ Others(r)
<1>0. TypeOK /\ RowsType /\ FaultsType /\ SessionType /\ RequestType /\ Account(r)
  BY TypeParts DEF IInv, Accounts
<1>1. TypeOK'
  <2>1. RowsType'
    BY <1>0, TakeSubType, FaultType, SameRowsType
       DEF RefundSubscription, RetryRefund, RecordedAmount, SessionType
  <2>2. FaultsType'
    BY <1>0, FaultType, NoFaultType DEF RefundSubscription, RetryRefund
  <2>3. SessionType'
    BY <1>0
       DEF RefundSubscription, RetryRefund, SessionType, Account, RefundingAccount,
           MaxAttempts, Refunding
  <2>4. RequestType'
    BY <1>0
       DEF RefundSubscription, RetryRefund, AfterFunding, AfterExtra, Go, RequestType,
           Labels, Opening, Open, Refunding, Terminal
  <2> QED  BY <2>1, <2>2, <2>3, <2>4, TypePartsPrime
<1>2. Account(r)'
  BY <1>0
     DEF RowsType, SessionType, FaultsType, RequestType, RefundSubscription, RetryRefund,
         RecordedAmount, AfterFunding, AfterExtra, NeedsToken, TakeSub, Positive, NoFault,
         Fault, Go, MaxAttempts, rows, session, Account, RefundingAccount, ClosedAccount,
         TokenHolds, TokenShare, Unfunded, Opening, Open, Refunding, Terminal
<1>3. Others(r)
  BY <1>0
     DEF RowsType, SessionType, FaultsType, RequestType, Others, Same, RefundSubscription,
         RetryRefund, TakeSub, NoFault, Fault, Go, rows, session
<1>4. SubscriptionWithinTotal'
  BY <1>0, RowsAssumption
     DEF IInv, RowsType, SessionType, SubscriptionWithinTotal, RefundSubscription,
         RetryRefund, RecordedAmount, TakeSub, Positive, Fault, rows
<1> QED  BY <1>1, <1>2, <1>3, <1>4, Localise

\* The record is marked, and the extra reservation remains.
LEMMA RefundRecordStep ==
  ASSUME IInv, NEW r \in Requests, RefundRecord(r)
  PROVE  IInv' /\ Others(r)
<1>0. TypeOK /\ RowsType /\ FaultsType /\ SessionType /\ RequestType /\ Account(r)
  BY TypeParts DEF IInv, Accounts
<1>1. TypeOK'
  <2>1. RowsType'
    BY <1>0, FaultType, SameRowsType DEF RefundRecord, RetryRefund
  <2>2. FaultsType'
    BY <1>0, FaultType, NoFaultType DEF RefundRecord, RetryRefund
  <2>3. SessionType'
    BY <1>0
       DEF RefundRecord, RetryRefund, SessionType, Account, RefundingAccount, MaxAttempts,
           Refunding
  <2>4. RequestType'
    BY <1>0
       DEF RefundRecord, RetryRefund, AfterFunding, AfterExtra, Go, RequestType, Labels,
           Opening, Open, Refunding, Terminal
  <2> QED  BY <2>1, <2>2, <2>3, <2>4, TypePartsPrime
<1>2. Account(r)'
  BY <1>0
     DEF RowsType, SessionType, FaultsType, RequestType, RefundRecord, RetryRefund,
         AfterFunding, AfterExtra, NeedsToken, NoFault, Fault, Go, MaxAttempts, rows,
         session, Account, RefundingAccount, ClosedAccount, TokenHolds, TokenShare, Unfunded,
         Opening, Open, Refunding, Terminal
<1>3. Others(r)
  BY <1>0
     DEF RowsType, SessionType, FaultsType, RequestType, Others, Same, RefundRecord,
         RetryRefund, NoFault, Fault, Go, rows, session
<1>4. SubscriptionWithinTotal'
  BY DEF IInv, SubscriptionWithinTotal, RefundRecord, RetryRefund, Fault, rows
<1> QED  BY <1>1, <1>2, <1>3, <1>4, Localise

\* The extra reservation is given back.
LEMMA RefundExtraStep ==
  ASSUME IInv, NEW r \in Requests, RefundExtra(r)
  PROVE  IInv' /\ Others(r)
<1>0. TypeOK /\ RowsType /\ FaultsType /\ SessionType /\ RequestType /\ Account(r)
  BY TypeParts DEF IInv, Accounts
<1>1. TypeOK'
  <2>1. RowsType'
    BY <1>0, TakeSubType, FaultType DEF RefundExtra, SessionType
  <2>2. FaultsType'
    BY <1>0, FaultType, NoFaultType DEF RefundExtra
  <2>3. SessionType'
    BY <1>0, SameSessionType DEF RefundExtra
  <2>4. RequestType'
    BY <1>0
       DEF RefundExtra, AfterExtra, Go, RequestType, Labels, Opening, Open, Refunding,
           Terminal
  <2> QED  BY <2>1, <2>2, <2>3, <2>4, TypePartsPrime
<1>2. Account(r)'
  BY <1>0
     DEF RowsType, SessionType, FaultsType, RequestType, RefundExtra, AfterExtra, NeedsToken,
         TakeSub, Positive, NoFault, Fault, Go, rows, session, Account, RefundingAccount,
         ClosedAccount, TokenHolds, TokenShare, Unfunded, Opening, Open, Refunding, Terminal,
         MaxAttempts
<1>3. Others(r)
  BY <1>0
     DEF RowsType, SessionType, FaultsType, RequestType, Others, Same, RefundExtra, TakeSub,
         NoFault, Fault, Go, rows, session
<1>4. SubscriptionWithinTotal'
  BY <1>0, RowsAssumption
     DEF IInv, RowsType, SessionType, SubscriptionWithinTotal, RefundExtra, TakeSub,
         Positive, Fault, rows
<1> QED  BY <1>1, <1>2, <1>3, <1>4, Localise

\* The token gets back what the session consumed.
LEMMA RefundTokenStep ==
  ASSUME IInv, NEW r \in Requests, RefundToken(r)
  PROVE  IInv' /\ Others(r)
<1>0. TypeOK /\ RowsType /\ FaultsType /\ SessionType /\ RequestType /\ Account(r)
  BY TypeParts DEF IInv, Accounts
<1>1. TypeOK'
  <2>1. RowsType'
    BY <1>0, TakeTokenType, FaultType DEF RefundToken, SessionType
  <2>2. FaultsType'
    BY <1>0, FaultType, NoFaultType DEF RefundToken
  <2>3. SessionType'
    BY <1>0, SameSessionType DEF RefundToken
  <2>4. RequestType'
    BY <1>0 DEF RefundToken, Go, RequestType, Labels, Opening, Open, Refunding, Terminal
  <2> QED  BY <2>1, <2>2, <2>3, <2>4, TypePartsPrime
<1>2. Account(r)'
  BY <1>0
     DEF RowsType, SessionType, FaultsType, RequestType, RefundToken, TakeToken, NoFault,
         Fault, Go, rows, session, Account, RefundingAccount, ClosedAccount, TokenHolds,
         TokenShare, Unfunded, Opening, Open, Refunding, Terminal, MaxAttempts
<1>3. Others(r)
  BY <1>0
     DEF RowsType, SessionType, FaultsType, RequestType, Others, Same, RefundToken,
         TakeToken, NoFault, Fault, Go, rows, session
<1>4. SubscriptionWithinTotal'
  BY DEF IInv, SubscriptionWithinTotal, RefundToken, TakeToken, Fault, rows
<1> QED  BY <1>1, <1>2, <1>3, <1>4, Localise

\* A violation fee moves the shared rows and no account.
LEMMA FeeStepStep ==
  ASSUME IInv, NEW r \in Requests, FeeStep(r)
  PROVE  IInv' /\ \A s \in Requests : Same(s)
<1>0. TypeOK /\ RowsType /\ FaultsType /\ SessionType /\ RequestType
  BY TypeParts DEF IInv
<1>1. UNCHANGED <<walletNet, subNet, tokenNet, session, subActive, record, pc, info, faults>>
  BY DEF FeeStep, ChargeFeeFunding, ChargeFeeToken, LoseFee, rows
<1>2. TypeOK'
  <2>1. userQuota' \in Int /\ remain' \in Int /\ subUsed' \in Nat
    BY <1>0, SettingsAssumption
       DEF RowsType, FeeStep, ChargeFeeFunding, ChargeFeeToken, LoseFee, rows
  <2>2. fee' \in [Requests -> {"none", "due", "token", "paid", "fundingOnly", "lost"}]
    BY <1>0 DEF RequestType, FeeStep, ChargeFeeFunding, ChargeFeeToken, LoseFee, SetFee, Unpaid
  <2> QED  BY <1>1, <2>1, <2>2 DEF IInv, TypeOK, session
<1>3. \A s \in Requests : Same(s)
  BY <1>1 DEF Same, session
<1>4. SubscriptionWithinTotal'
  BY <1>0, RowsAssumption, SettingsAssumption
     DEF IInv, RowsType, SubscriptionWithinTotal, FeeStep, ChargeFeeFunding, ChargeFeeToken, LoseFee,
         SubAdmits, Positive, rows
<1> QED  BY <1>2, <1>3, <1>4, Frame DEF IInv, Accounts

\* A crash leaves the account as it is, with a fault.
LEMMA CrashStep ==
  ASSUME IInv, NEW r \in Requests, Crash(r)
  PROVE  IInv' /\ Others(r)
<1>0. TypeOK /\ RowsType /\ FaultsType /\ SessionType /\ RequestType /\ Account(r)
  BY TypeParts DEF IInv, Accounts
<1>1. TypeOK'
  <2>1. RowsType'
    BY <1>0, FaultType, SameRowsType DEF Crash
  <2>2. FaultsType'
    BY <1>0, FaultType DEF Crash
  <2>3. SessionType'
    BY <1>0, SameSessionType DEF Crash
  <2>4. RequestType'
    BY <1>0 DEF Crash, Go, SetFee, Unpaid, RequestType, Labels, Opening, Open, Refunding, Terminal
  <2> QED  BY <2>1, <2>2, <2>3, <2>4, TypePartsPrime
<1>2. Account(r)'
  <2>0. /\ pc[r] \notin Terminal \cup {"idle"} /\ pc'[r] = "crashed" /\ faults'[r] > 0
        /\ UNCHANGED <<rows, session>>
    BY <1>0, FaultType DEF Crash, Go, Fault, RequestType
  <2>1. walletNet[r] >= 0 /\ tokenNet[r] >= 0
    BY <1>0, Solvency
  <2> QED
    BY <1>0, <2>0, <2>1 DEF rows, session, Account, ClosedAccount, Unfunded, Opening, Open, Refunding, Terminal
<1>3. Others(r)
  BY <1>0
     DEF RowsType, SessionType, FaultsType, RequestType, Others, Same, Crash, Fault, Go,
         SetFee, rows, session
<1>4. SubscriptionWithinTotal'
  BY DEF IInv, SubscriptionWithinTotal, Crash, Fault, rows
<1> QED  BY <1>1, <1>2, <1>3, <1>4, Localise

-----------------------------------------------------------------------------
\* Steps that belong to no request: the subscription expires, or nothing happens.
LEMMA SharedStep ==
  ASSUME IInv, ExpireSubscription \/ UNCHANGED vars
  PROVE  IInv' /\ \A s \in Requests : Same(s)
<1>1. UNCHANGED <<rows, session, record, pc, info, fee, faults>> /\ subActive' \in BOOLEAN
  BY DEF IInv, TypeOK, ExpireSubscription, vars
<1>2. TypeOK'
  BY <1>1 DEF IInv, TypeOK, rows, session
<1>3. \A s \in Requests : Same(s)
  BY <1>1 DEF Same, rows, session
<1> QED  BY <1>1, <1>2, <1>3, Frame DEF IInv, Accounts, SubscriptionWithinTotal, rows

\* What a step looks like: some request that is not over moves and keeps its
\* account in order, or all accounts stay as they are.
LEMMA StepKinds ==
  ASSUME IInv, [Next]_vars
  PROVE  /\ IInv'
         /\ \/ \E r \in Requests : pc[r] \notin Terminal /\ Others(r)
            \/ \A s \in Requests : Same(s)
<1> DEFINE Moves(r) == IInv' /\ pc[r] \notin Terminal /\ Others(r)
           Rests == IInv' /\ \A s \in Requests : Same(s)
<1>1. CASE UNCHANGED vars \/ ExpireSubscription \/ Quiescent
  BY <1>1, SharedStep DEF Quiescent
<1>2. ASSUME NEW r \in Requests, NEW p \in Preferences, NEW q \in Quotas, Begin(r, p, q)
      PROVE  Moves(r)
  BY <1>2, BeginStep DEF Begin, Terminal
<1>3. ASSUME NEW r \in Requests, NEW q \in Quotas, ReserveFunding(r, q)
      PROVE  Moves(r)
  BY <1>3, ReserveFundingStep DEF ReserveFunding, Terminal
<1>4. ASSUME NEW r \in Requests, RefuseToken(r) \/ Crash(r)
      PROVE  Moves(r)
  BY <1>4, RefuseTokenStep, CrashStep DEF RefuseToken, Crash, Terminal
<1>5. ASSUME NEW r \in Requests, FeeStep(r)
      PROVE  Rests
  BY <1>5, FeeStepStep
<1>6. ASSUME NEW r \in Requests, NEW q \in Quotas, SettleFunding(r, q)
      PROVE  Moves(r)
  BY <1>6, SettleFundingStep DEF SettleFunding, Terminal
<1>7. ASSUME NEW r \in Requests, Step(r)
      PROVE  Moves(r)
  <2>1. CASE CheckSubscription(r) \/ CheckWallet(r) \/ PreConsumeToken(r) \/ PreConsumeWallet(r)
    BY <2>1, CheckSubscriptionStep, CheckWalletStep, PreConsumeTokenStep, PreConsumeWalletStep
       DEF CheckSubscription, CheckWallet, PreConsumeToken, PreConsumeWallet, Terminal
  <2>2. CASE PreConsumeSubscription(r) \/ RollbackToken(r) \/ Fallback(r)
    BY <2>2, PreConsumeSubscriptionStep, RollbackTokenStep, FallbackStep
       DEF PreConsumeSubscription, RollbackToken, Fallback, Terminal
  <2>3. CASE ReserveToken(r) \/ ReserveRollback(r) \/ SettleToken(r) \/ Fail(r)
    BY <2>3, ReserveTokenStep, ReserveRollbackStep, SettleTokenStep, FailStep
       DEF ReserveToken, ReserveRollback, SettleToken, Fail, MayFail, Terminal
  <2>4. CASE RefundWallet(r) \/ RefundSubscription(r) \/ RefundRecord(r) \/ RefundExtra(r) \/ RefundToken(r)
    BY <2>4, RefundWalletStep, RefundSubscriptionStep, RefundRecordStep, RefundExtraStep, RefundTokenStep
       DEF RefundWallet, RefundSubscription, RefundRecord, RefundExtra, RefundToken, Terminal
  <2> QED  BY <1>6, <1>7, <2>1, <2>2, <2>3, <2>4 DEF Step
<1>8. CASE \E r \in Requests : Moves(r)
  BY <1>8
<1>9. CASE Rests
  BY <1>9
<1> QED  BY <1>1, <1>2, <1>3, <1>4, <1>5, <1>7, <1>8, <1>9 DEF Next

\* Every reachable state of the billing sessions satisfies the invariant.
THEOREM Invariant == Spec => []IInv
  BY InitInv, StepKinds, PTL DEF Spec

\* The variables always have their types: session amounts never become
\* negative, and refundWithRetry stops after its last attempt.
THEOREM Typing == Spec => []TypeOK
  BY Invariant, PTL DEF IInv

\* Settle leaves every request charged its actual cost on one source only,
\* for any number of concurrent requests and of failed writes.
THEOREM SettlementIsExact == Spec => []SettledFundingExact
<1>1. IInv => SettledFundingExact
  BY DEF IInv, Accounts, Account, ClosedAccount, SettledFundingExact, Terminal
<1> QED  BY <1>1, Invariant, PTL

\* Without a failed write the token is charged the same amount.
THEOREM TokenSettlementIsExact == Spec => []SettledTokenExact
<1>1. IInv => SettledTokenExact
  BY DEF IInv, Accounts, Account, ClosedAccount, SettledTokenExact, Terminal
<1> QED  BY <1>1, Invariant, PTL

\* Rejected and refunded requests have drawn nothing, if no write failed.
THEOREM FailureIsFree == Spec => []FailedRequestFree
<1>1. IInv => FailedRequestFree
  BY DEF IInv, Accounts, Account, ClosedAccount, FailedRequestFree, Terminal
<1> QED  BY <1>1, Invariant, PTL

\* The wallet and the token never get back more than the request took.
THEOREM RefundsAreBounded == Spec => []NeverOverRefunded
<1>1. IInv => NeverOverRefunded
  BY Solvency DEF IInv, Accounts, NeverOverRefunded
<1> QED  BY <1>1, Invariant, PTL

\* No interleaving of pre-consumes, reserves, settlements and fees pushes a
\* limited subscription past its total.
THEOREM SubscriptionIsBounded == Spec => []SubscriptionWithinTotal
  BY Invariant, PTL DEF IInv

-----------------------------------------------------------------------------
(* Action property and refinement.                                          *)

\* Once a request is over, no step of any request moves what it has drawn.
THEOREM ClosedAccountsAreFinal == Spec => ClosedAccountsStay
<1>1. ASSUME IInv, [Next]_vars, NEW r \in Requests, pc[r] \in Terminal
      PROVE  /\ pc'[r] = pc[r]
             /\ walletNet'[r] = walletNet[r] /\ subNet'[r] = subNet[r] /\ tokenNet'[r] = tokenNet[r]
  BY <1>1, StepKinds DEF Others, Same
<1>2. IInv /\ [Next]_vars =>
        [\A r \in Requests : pc[r] \in Terminal =>
          /\ pc'[r] = pc[r]
          /\ walletNet'[r] = walletNet[r] /\ subNet'[r] = subNet[r] /\ tokenNet'[r] = tokenNet[r]]_vars
  BY <1>1
<1> QED  BY <1>2, Invariant, PTL DEF Spec, ClosedAccountsStay

\* The accounts that a step leaves alone look the same in the ledger.
LEMMA SameLedger ==
  ASSUME NEW s \in Requests, Same(s)
  PROVE  /\ Outcome(s)' = Outcome(s) /\ actual'[s] = actual[s]
         /\ walletNet'[s] + subNet'[s] = walletNet[s] + subNet[s] /\ tokenNet'[s] = tokenNet[s]
  BY DEF Same, Outcome

\* A step of a request that is not over adjusts, closes or abandons its account.
LEMMA MoveRefines ==
  ASSUME TypeOK, IInv', NEW r \in Requests, pc[r] \notin Terminal, Others(r)
  PROVE  Ledger!Next
<1> DEFINE outcome == [s \in Requests |-> Outcome(s)]
           held == [s \in Requests |-> [funding |-> walletNet[s] + subNet[s], token |-> tokenNet[s]]]
<1>0. /\ TypeOK' /\ RowsType' /\ SessionType' /\ RequestType' /\ FaultsType' /\ Account(r)'
      /\ SessionType
  BY TypeParts, TypePartsPrime DEF IInv, Accounts
<1>1. outcome' = [outcome EXCEPT ![r] = Outcome(r)']
  BY SameLedger DEF Others
<1>2. actual' = [actual EXCEPT ![r] = actual'[r]]
  BY <1>0, SameLedger DEF Others, SessionType
<1>3. held' = [held EXCEPT ![r] = held'[r]]
  BY SameLedger DEF Others
<1>4. outcome[r] = "open" /\ actual'[r] \in Nat
  BY <1>0 DEF Outcome, SessionType
<1>5. held'[r] \in Ledger!Holdings
  BY <1>0 DEF RowsType, Ledger!Holdings
<1>6. CASE pc'[r] \notin Terminal
  <2>1. Outcome(r)' = "open" /\ outcome' = outcome
    BY <1>1, <1>4, <1>6 DEF Outcome
  <2>2. Ledger!Adjust(r)
    BY <2>1, <1>2, <1>3, <1>4, <1>5 DEF Ledger!Adjust
  <2> QED  BY <2>2 DEF Ledger!Next
<1>7. CASE pc'[r] \in Terminal /\ (faults'[r] > 0 \/ pc'[r] = "unsettled")
  <2>1. Outcome(r)' = "abandoned"
    BY <1>7 DEF Outcome
  <2>2. Ledger!Abandon(r)
    BY <2>1, <1>1, <1>2, <1>3, <1>4, <1>5 DEF Ledger!Abandon
  <2> QED  BY <2>2 DEF Ledger!Next
<1>8. CASE pc'[r] = "settled" /\ ~(faults'[r] > 0)
  <2>1. Outcome(r)' = "charged"
    BY <1>8 DEF Outcome, Terminal
  <2>2. held'[r] = Ledger!Charge(r, actual'[r])
    BY <1>0, <1>8 DEF Ledger!Charge, Account, ClosedAccount, Funding, OtherFunding, TokenShare,
       RowsType, SessionType, FaultsType, Terminal
  <2>3. Ledger!Close(r)
    BY <2>1, <2>2, <1>1, <1>2, <1>3, <1>4 DEF Ledger!Close
  <2> QED  BY <2>3 DEF Ledger!Next
<1>9. CASE pc'[r] \in Terminal \ {"settled", "unsettled"} /\ ~(faults'[r] > 0)
  <2>1. Outcome(r)' = "free"
    BY <1>9 DEF Outcome, Terminal
  <2>2. held'[r] = Ledger!Nothing
    BY <1>0, <1>9 DEF Ledger!Nothing, Account, ClosedAccount, FaultsType, Terminal
  <2>3. Ledger!Close(r)
    BY <2>1, <2>2, <1>1, <1>2, <1>3, <1>4 DEF Ledger!Close
  <2> QED  BY <2>3 DEF Ledger!Next
<1> QED  BY <1>6, <1>7, <1>8, <1>9

\* The sessions implement the ledger, for any number of requests and faults:
\* every account is closed once, at its price on both rows or at nothing.
THEOREM SessionsImplementLedger == Spec => ImplementsLedger
<1>1. Init => Ledger!Init
  BY DEF Init, Zero, Ledger!Init, Ledger!Nothing, Outcome, Terminal
<1>2. IInv /\ [Next]_vars => [Ledger!Next]_(Ledger!ledger)
  <2> SUFFICES ASSUME IInv, [Next]_vars PROVE [Ledger!Next]_(Ledger!ledger)
    OBVIOUS
  <2>1. ASSUME NEW r \in Requests, pc[r] \notin Terminal, Others(r)
        PROVE  Ledger!Next
    BY <2>1, StepKinds, MoveRefines DEF IInv
  <2>2. CASE \A s \in Requests : Same(s)
    <3>1. [s \in Requests |-> Outcome(s)]' = [s \in Requests |-> Outcome(s)]
      BY <2>2, SameLedger
    <3>2. actual' = actual
      BY <2>2, SameLedger, StepKinds DEF IInv, TypeOK
    <3>3. [s \in Requests |-> [funding |-> walletNet[s] + subNet[s], token |-> tokenNet[s]]]'
            = [s \in Requests |-> [funding |-> walletNet[s] + subNet[s], token |-> tokenNet[s]]]
      BY <2>2, SameLedger
    <3> QED  BY <3>1, <3>2, <3>3 DEF Ledger!ledger
  <2> QED  BY <2>1, <2>2, StepKinds
<1> QED  BY <1>1, <1>2, Invariant, PTL DEF Spec, ImplementsLedger, Ledger!Spec
-----------------------------------------------------------------------------
(* The books: the rows and the sum of what the requests have drawn.  A step *)
(* moves one request's entry and its row together (Money).                  *)

\* What the books need of a request: no fee before it failed, a wallet session
\* beyond its checked estimate, and no subscription given more than it took.
Booked(r) ==
    /\ pc[r] \notin Refunding \cup Terminal => fee[r] = "none"
    /\ pc[r] \in {"active", "reserveToken"} /\ source[r] = "wallet" => pre[r] >= Checked(r)
    /\ pc[r] = "unsettled" /\ faults[r] = 0 => subNet[r] >= 0

Books == (\A r \in Requests : Booked(r)) /\ DebtIsPostpaid /\ SubscriptionBooksBalance

\* The subscription row follows the request's draw, the wallet covers what the
\* request did not postpone.
Money(r) ==
    /\ faults'[r] = 0 =>
          faults[r] = 0 /\ subUsed' = Positive(subUsed + (SubDrawn(r)' - SubDrawn(r)))
    /\ \/ userQuota' + WalletPostpaid(r)' >= userQuota + WalletPostpaid(r)
       \/ userQuota' >= 0

FeesElsewhere(r) == \A s \in Requests \ {r} : fee'[s] = fee[s]

\* A step of r keeps the books.
BooksStep(r) == Money(r) /\ Booked(r)' /\ FeesElsewhere(r)

\* The entries of the books are numbers.
LEMMA EntryType ==
  TypeOK => \A r \in Requests :
      /\ userQuota \in Int /\ subUsed \in Nat /\ faults[r] \in Nat
      /\ walletNet[r] \in Int /\ subNet[r] \in Int /\ Checked(r) \in Nat
      /\ FeeDrawn(r, "wallet") \in Nat /\ FeeDrawn(r, "subscription") \in Nat
<1> SUFFICES ASSUME TypeOK, NEW r \in Requests
    PROVE  /\ userQuota \in Int /\ subUsed \in Nat /\ faults[r] \in Nat
           /\ walletNet[r] \in Int /\ subNet[r] \in Int /\ Checked(r) \in Nat
           /\ FeeDrawn(r, "wallet") \in Nat /\ FeeDrawn(r, "subscription") \in Nat
  OBVIOUS
<1>1. userQuota \in Int /\ subUsed \in Nat /\ walletNet[r] \in Int /\ subNet[r] \in Int
  BY DEF TypeOK
<1>2. faults[r] \in Nat
  BY FaultsAssumption DEF TypeOK
<1>3. info[r].asked \in Nat
  BY DEF TypeOK
<1> QED  BY <1>1, <1>2, <1>3, SettingsAssumption DEF Checked, FeeDrawn

\* In the next state as well.
LEMMA EntryTypePrime ==
  TypeOK' => \A r \in Requests :
      /\ userQuota' \in Int /\ subUsed' \in Nat /\ faults'[r] \in Nat
      /\ walletNet'[r] \in Int /\ subNet'[r] \in Int /\ Checked(r)' \in Nat
      /\ FeeDrawn(r, "wallet")' \in Nat /\ FeeDrawn(r, "subscription")' \in Nat
<1>1. (TypeOK => \A r \in Requests :
        /\ userQuota \in Int /\ subUsed \in Nat /\ faults[r] \in Nat
        /\ walletNet[r] \in Int /\ subNet[r] \in Int /\ Checked(r) \in Nat
        /\ FeeDrawn(r, "wallet") \in Nat /\ FeeDrawn(r, "subscription") \in Nat)'
  BY EntryType, PTL
<1> QED  BY <1>1

\* Without faults, no request gives the subscription more than it took.
LEMMA SubSolvency ==
  TypeOK /\ Accounts /\ (\A s \in Requests : Booked(s)) =>
      \A s \in Requests : faults[s] = 0 => subNet[s] >= 0
<1> SUFFICES ASSUME TypeOK, NEW r \in Requests, Account(r), Booked(r), faults[r] = 0
    PROVE  subNet[r] >= 0
  BY DEF Accounts
<1>0. RowsType /\ SessionType /\ RequestType
  BY TypeParts
<1>1. CASE pc[r] \in Opening
  BY <1>0, <1>1 DEF RowsType, Account, OpeningAccount
<1>2. CASE pc[r] \in Open
  BY <1>0, <1>2 DEF RowsType, SessionType, Account, OpenAccount, Reserved, Unfunded, Open
<1>3. CASE pc[r] = "settleToken"
  BY <1>0, <1>3 DEF RowsType, SessionType, Account, SettlingAccount, Funding, OtherFunding
<1>4. CASE pc[r] \in Refunding
  BY <1>0, <1>4 DEF RowsType, SessionType, Account, RefundingAccount, Unfunded, Refunding
<1>5. CASE pc[r] \in Terminal
  BY <1>0, <1>5 DEF RowsType, SessionType, Account, ClosedAccount, Booked, Funding, OtherFunding, Terminal
<1> QED  BY <1>0, <1>1, <1>2, <1>3, <1>4, <1>5 DEF RequestType, Labels

\* In the next state as well.
LEMMA SubSolvencyPrime ==
  TypeOK' /\ Accounts' /\ (\A s \in Requests : Booked(s)') =>
      \A s \in Requests : faults'[s] = 0 => subNet'[s] >= 0
<1>1. (TypeOK /\ Accounts /\ (\A s \in Requests : Booked(s)) =>
        \A s \in Requests : faults[s] = 0 => subNet[s] >= 0)'
  BY SubSolvency, PTL
<1> QED  BY <1>1

\* Steps that move no funding row and no entry.
LEMMA QuietMoney ==
  ASSUME TypeOK, TypeOK', NEW r \in Requests,
         userQuota' = userQuota, subUsed' = subUsed,
         walletNet'[r] = walletNet[r], subNet'[r] = subNet[r],
         FeeDrawn(r, "wallet")' = FeeDrawn(r, "wallet"),
         FeeDrawn(r, "subscription")' = FeeDrawn(r, "subscription"),
         Checked(r)' = Checked(r) \/ walletNet[r] = 0,
         faults[r] = 0 \/ faults'[r] > 0
  PROVE  Money(r)
<1>1. /\ userQuota \in Int /\ subUsed \in Nat /\ faults[r] \in Nat /\ faults'[r] \in Nat
      /\ walletNet[r] \in Int /\ subNet[r] \in Int /\ Checked(r) \in Nat /\ Checked(r)' \in Nat
      /\ FeeDrawn(r, "wallet") \in Nat /\ FeeDrawn(r, "subscription") \in Nat
  BY EntryType, EntryTypePrime
<1>2. SubDrawn(r)' = SubDrawn(r) /\ SubDrawn(r) \in Int
  BY <1>1 DEF SubDrawn
<1>3. subUsed' = Positive(subUsed + (SubDrawn(r)' - SubDrawn(r)))
  BY <1>1, <1>2 DEF Positive
<1>4. WalletPostpaid(r)' = WalletPostpaid(r) /\ WalletPostpaid(r) \in Int
  BY <1>1 DEF WalletPostpaid, Positive
<1> QED  BY <1>1, <1>3, <1>4 DEF Money

\* The request keeps its source, its estimate and its fee.
KeepsTerms(r) ==
    /\ source'[r] = source[r] /\ fee'[r] = fee[r] /\ info'[r] = info[r]
    /\ (r \in trusted') <=> (r \in trusted)

\* Then its fee and its checked amount are the same.
LEMMA SameTerms ==
  ASSUME NEW r \in Requests, KeepsTerms(r)
  PROVE  /\ FeeDrawn(r, "wallet")' = FeeDrawn(r, "wallet")
         /\ FeeDrawn(r, "subscription")' = FeeDrawn(r, "subscription")
         /\ Checked(r)' = Checked(r)
  BY DEF KeepsTerms, FeeDrawn, Checked

\* Steps on the token row alone, and steps that write nothing.
LEMMA IdleMoney ==
  ASSUME TypeOK, TypeOK', NEW r \in Requests, KeepsTerms(r),
         UNCHANGED <<userQuota, subUsed, walletNet, subNet>>, faults[r] = 0 \/ faults'[r] > 0
  PROVE  Money(r)
  BY SameTerms, QuietMoney

\* A write of the wallet that gives back, was checked, or comes on top of the
\* checked estimate.
LEMMA WalletMoney ==
  ASSUME TypeOK, TypeOK', NEW r \in Requests, KeepsTerms(r), NoFault, NEW n \in Int, TakeWallet(r, n),
         n <= 0 \/ walletNet[r] >= Checked(r) \/ userQuota >= n
  PROVE  Money(r)
<1>1. /\ userQuota \in Int /\ subUsed \in Nat /\ walletNet[r] \in Int /\ subNet[r] \in Int
      /\ Checked(r) \in Nat /\ FeeDrawn(r, "wallet") \in Nat /\ FeeDrawn(r, "subscription") \in Nat
  BY EntryType
<1>2. /\ FeeDrawn(r, "wallet")' = FeeDrawn(r, "wallet")
      /\ FeeDrawn(r, "subscription")' = FeeDrawn(r, "subscription")
      /\ Checked(r)' = Checked(r) /\ faults' = faults
  BY SameTerms DEF NoFault
<1>3. /\ userQuota' = userQuota - n /\ walletNet'[r] = walletNet[r] + n
      /\ subUsed' = subUsed /\ subNet' = subNet
  BY DEF TakeWallet, TypeOK
<1>4. SubDrawn(r)' = SubDrawn(r) /\ SubDrawn(r) \in Int
  BY <1>1, <1>2, <1>3 DEF SubDrawn
<1>5. subUsed' = Positive(subUsed + (SubDrawn(r)' - SubDrawn(r)))
  BY <1>1, <1>3, <1>4 DEF Positive
<1>6. \/ userQuota' + WalletPostpaid(r)' >= userQuota + WalletPostpaid(r)
      \/ userQuota' >= 0
  BY <1>1, <1>2, <1>3 DEF WalletPostpaid, Positive
<1> QED  BY <1>2, <1>5, <1>6 DEF Money

\* A write of the subscription moves the row and the entry alike, up to the clamp.
LEMMA SubMoney ==
  ASSUME TypeOK, TypeOK', NEW r \in Requests, KeepsTerms(r), NoFault, NEW n \in Int, TakeSub(r, n)
  PROVE  Money(r)
<1>1. /\ userQuota \in Int /\ subUsed \in Nat /\ walletNet[r] \in Int /\ subNet[r] \in Int
      /\ Checked(r) \in Nat /\ FeeDrawn(r, "wallet") \in Nat /\ FeeDrawn(r, "subscription") \in Nat
  BY EntryType
<1>2. /\ FeeDrawn(r, "wallet")' = FeeDrawn(r, "wallet")
      /\ FeeDrawn(r, "subscription")' = FeeDrawn(r, "subscription")
      /\ Checked(r)' = Checked(r) /\ faults' = faults
  BY SameTerms DEF NoFault
<1>3. /\ userQuota' = userQuota /\ walletNet' = walletNet
      /\ subUsed' = Positive(subUsed + n) /\ subNet'[r] = subNet[r] + n
  BY DEF TakeSub, TypeOK
<1>4. SubDrawn(r)' - SubDrawn(r) = n
  BY <1>1, <1>2, <1>3 DEF SubDrawn
<1>5. WalletPostpaid(r)' = WalletPostpaid(r) /\ WalletPostpaid(r) \in Int
  BY <1>1, <1>2, <1>3 DEF WalletPostpaid, Positive
<1> QED  BY <1>1, <1>2, <1>3, <1>4, <1>5 DEF Money

\* Until its funding is pre-consumed a request may change its source and its trust:
\* it has drawn nothing and owes no fee.
LEMMA OpeningBooks ==
  ASSUME IInv, TypeOK', NEW r \in Requests, Booked(r), pc[r] \in Opening,
         UNCHANGED <<userQuota, subUsed, walletNet, subNet, fee>>,
         pc'[r] \in Opening \cup {"rejected"}, faults[r] = 0 \/ faults'[r] > 0
  PROVE  BooksStep(r)
<1>1. walletNet[r] = 0 /\ fee[r] = "none" /\ TypeOK
  BY DEF IInv, Accounts, Account, OpeningAccount, Booked, Opening, Refunding, Terminal
<1>2. /\ FeeDrawn(r, "wallet")' = FeeDrawn(r, "wallet")
      /\ FeeDrawn(r, "subscription")' = FeeDrawn(r, "subscription")
  BY <1>1 DEF FeeDrawn
<1>3. Money(r)
  BY <1>1, <1>2, QuietMoney
<1>4. Booked(r)'
  BY <1>1 DEF Booked, Opening
<1> QED  BY <1>3, <1>4 DEF BooksStep, FeesElsewhere

\* After its last reserve nothing but the fee and the unsettled amount is booked.
LEMMA LateBooked ==
  ASSUME NEW r \in Requests, pc'[r] \in Refunding \cup (Terminal \ {"unsettled"})
  PROVE  Booked(r)'
  BY DEF Booked, Refunding, Terminal

\* A failed write is counted.
LEMMA FaultCounts ==
  ASSUME IInv, NEW r \in Requests, Fault(r)
  PROVE  faults'[r] > 0 /\ UNCHANGED rows
  BY FaultType, TypeParts DEF IInv, Fault
\* Up to the pre-consume of the token no funding row moves.
LEMMA OpeningStepBooks ==
  ASSUME IInv, IInv', NEW r \in Requests, Booked(r),
         \/ \E p \in Preferences, q \in Quotas : Begin(r, p, q)
         \/ RefuseToken(r) \/ CheckSubscription(r) \/ CheckWallet(r) \/ PreConsumeToken(r)
         \/ RollbackToken(r) \/ Fallback(r)
  PROVE  BooksStep(r)
<1>0. TypeOK /\ TypeOK' /\ RequestType /\ FaultsType
  BY TypeParts DEF IInv
<1>1. UNCHANGED <<userQuota, subUsed, walletNet, subNet, fee>>
  BY DEF Begin, RefuseToken, CheckSubscription, CheckWallet, PreConsumeToken, RollbackToken, Fallback,
     Fault, TakeToken, rows
<1>2. pc[r] \in Opening /\ pc'[r] \in Opening \cup {"rejected"}
  BY <1>0 DEF Begin, RefuseToken, CheckSubscription, CheckWallet, PreConsumeToken, RollbackToken, Fallback,
     Go, RequestType, Opening
<1>3. faults[r] = 0 \/ faults'[r] > 0
  <2>1. faults' = faults \/ Fault(r)
    BY DEF Begin, RefuseToken, CheckSubscription, CheckWallet, PreConsumeToken, RollbackToken, Fallback, NoFault
  <2>2. faults[r] \in Nat
    BY <1>0, EntryType
  <2> QED  BY <2>1, <2>2, FaultCounts
<1> QED  BY <1>0, <1>1, <1>2, <1>3, OpeningBooks

\* The conditional UPDATE checks the wallet for exactly the estimate.
LEMMA PreConsumeWalletBooks ==
  ASSUME IInv, IInv', NEW r \in Requests, Booked(r), PreConsumeWallet(r)
  PROVE  BooksStep(r)
<1>0. TypeOK /\ TypeOK' /\ RequestType /\ SessionType
  BY TypeParts DEF IInv
<1>1. pc[r] = "fund" /\ pc[r] \in Opening /\ source[r] = "wallet"
      /\ UNCHANGED <<info, source, trusted, fee>>
  BY DEF PreConsumeWallet, Opening
<1>2. PICK e \in Nat : e = EffectiveQuota(r)
  BY <1>0, AmountType
<1>3. CASE (e = 0 \/ WalletAdmits(e)) /\ TakeWallet(r, e) /\ Fund(r, e) /\ NoFault
  <2>1. Money(r)
    BY <1>0, <1>1, <1>3, WalletMoney DEF KeepsTerms, WalletAdmits
  <2>2. e = Checked(r)
    BY <1>1, <1>2 DEF EffectiveQuota, Amount, Checked
  <2>3. pc'[r] = "active" /\ pre'[r] = e
    BY <1>0, <1>3 DEF Fund, Go, RequestType, SessionType
  <2>4. Checked(r)' = Checked(r) /\ fee[r] = "none"
    BY <1>1 DEF Checked, Booked, Refunding, Terminal
  <2>5. Booked(r)'
    BY <1>1, <2>2, <2>3, <2>4 DEF Booked
  <2> QED  BY <1>1, <2>1, <2>5 DEF BooksStep, FeesElsewhere
<1>4. CASE UNCHANGED rows /\ (NoFault \/ Fault(r)) /\ \E label \in {"rollback", "abort"} : RefuseFunding(r, label)
  <2>1. faults[r] = 0 \/ faults'[r] > 0
    BY <1>0, <1>4, FaultCounts, EntryType DEF NoFault
  <2>2. pc'[r] \in Opening
    BY <1>0, <1>4 DEF RefuseFunding, Go, RequestType, Opening
  <2> QED  BY <1>0, <1>1, <1>4, <2>1, <2>2, OpeningBooks DEF rows
<1> QED  BY <1>2, <1>3, <1>4, FaultCounts DEF PreConsumeWallet

\* The transaction charges the subscription what the record says.
LEMMA PreConsumeSubscriptionBooks ==
  ASSUME IInv, IInv', NEW r \in Requests, Booked(r), PreConsumeSubscription(r)
  PROVE  BooksStep(r)
<1>0. TypeOK /\ TypeOK' /\ RequestType /\ SessionType
  BY TypeParts DEF IInv
<1>1. pc[r] = "fund" /\ pc[r] \in Opening /\ source[r] = "subscription"
      /\ UNCHANGED <<info, source, trusted, fee>>
  BY DEF PreConsumeSubscription, Opening
<1>2. PICK a \in Nat : a = Amount(r)
  BY <1>0, AmountType
<1>3. CASE TakeSub(r, a) /\ Fund(r, a) /\ NoFault
  <2>1. Money(r)
    BY <1>0, <1>1, <1>3, SubMoney DEF KeepsTerms
  <2>2. pc'[r] = "active" /\ fee[r] = "none"
    BY <1>0, <1>1, <1>3 DEF Fund, Go, RequestType, Booked, Refunding, Terminal
  <2>3. Booked(r)'
    BY <1>1, <2>2 DEF Booked
  <2> QED  BY <1>1, <2>1, <2>3 DEF BooksStep, FeesElsewhere
<1>4. CASE UNCHANGED rows /\ (NoFault \/ Fault(r)) /\ \E label \in {"rollback", "abort"} : RefuseFunding(r, label)
  <2>1. faults[r] = 0 \/ faults'[r] > 0
    BY <1>0, <1>4, FaultCounts, EntryType DEF NoFault
  <2>2. pc'[r] \in Opening
    BY <1>0, <1>4 DEF RefuseFunding, Go, RequestType, Opening
  <2> QED  BY <1>0, <1>1, <1>4, <2>1, <2>2, OpeningBooks DEF rows
<1> QED  BY <1>2, <1>3, <1>4, FaultCounts DEF PreConsumeSubscription

\* Reserve draws on top of the checked estimate.
LEMMA ReserveFundingBooks ==
  ASSUME IInv, IInv', NEW r \in Requests, NEW q \in Quotas, Booked(r), ReserveFunding(r, q)
  PROVE  BooksStep(r)
<1>0. TypeOK /\ TypeOK' /\ RequestType /\ SessionType /\ Account(r)
  BY TypeParts DEF IInv, Accounts
<1>1. pc[r] = "active" /\ KeepsTerms(r) /\ UNCHANGED <<info, source, trusted, fee, pre>>
  BY DEF ReserveFunding, KeepsTerms
<1>2. PICK d \in Int : d = q - pre[r]
  BY <1>0, QuotasAssumption DEF SessionType
<1>3. Money(r)
  <2>1. CASE source[r] = "wallet" /\ TakeWallet(r, d) /\ NoFault
    <3>1. walletNet[r] >= Checked(r)
      BY <1>0, <1>1, <2>1, EntryType DEF Booked, Account, OpenAccount, Reserved, Open, SessionType
    <3> QED  BY <1>0, <1>1, <2>1, <3>1, WalletMoney
  <2>2. CASE TakeSub(r, d) /\ NoFault
    BY <1>0, <1>1, <2>2, SubMoney
  <2>3. CASE UNCHANGED rows /\ (NoFault \/ Fault(r))
    <3>1. faults[r] = 0 \/ faults'[r] > 0
      BY <1>0, <2>3, FaultCounts, EntryType DEF NoFault
    <3> QED  BY <1>0, <1>1, <2>3, <3>1, IdleMoney DEF rows
  <2> QED  BY <1>2, <2>1, <2>2, <2>3, FaultCounts DEF ReserveFunding
<1>4. pc'[r] \in {"reserveToken", "failing"}
  BY <1>0 DEF ReserveFunding, Go, RequestType
<1>5. fee[r] = "none" /\ (source[r] = "wallet" => pre[r] >= Checked(r)) /\ Checked(r)' = Checked(r)
  BY <1>1, SameTerms DEF Booked, Refunding, Terminal
<1>6. Booked(r)'
  BY <1>1, <1>4, <1>5 DEF Booked
<1> QED  BY <1>1, <1>3, <1>6 DEF BooksStep, FeesElsewhere

\* The reserved part joins the session.
LEMMA ReserveTokenBooks ==
  ASSUME IInv, IInv', NEW r \in Requests, Booked(r), ReserveToken(r)
  PROVE  BooksStep(r)
<1>0. TypeOK /\ TypeOK' /\ RequestType /\ SessionType /\ Account(r)
  BY TypeParts DEF IInv, Accounts
<1>1. /\ pc[r] = "reserveToken" /\ KeepsTerms(r) /\ UNCHANGED <<info, source, trusted, fee>>
      /\ UNCHANGED <<userQuota, subUsed, walletNet, subNet>> /\ (NoFault \/ Fault(r))
  BY DEF ReserveToken, KeepsTerms, TakeToken, Fault, rows
<1>2. Money(r)
  <2>1. faults[r] = 0 \/ faults'[r] > 0
    BY <1>0, <1>1, FaultCounts, EntryType DEF NoFault
  <2> QED  BY <1>0, <1>1, <2>1, IdleMoney
<1>3. /\ fee[r] = "none" /\ (source[r] = "wallet" => pre[r] >= Checked(r)) /\ Checked(r)' = Checked(r)
      /\ pend[r] > 0 /\ pend[r] \in Int /\ pre[r] \in Nat /\ Checked(r) \in Nat
  BY <1>0, <1>1, SameTerms, EntryType
     DEF Booked, Refunding, Terminal, Account, OpenAccount, Open, SessionType
<1>4. pc'[r] = "reserveRollback" \/ (pc'[r] = "active" /\ pre'[r] = pre[r] + pend[r])
  BY <1>0 DEF ReserveToken, CommitReserve, Go, RequestType, SessionType
<1>5. Booked(r)'
  BY <1>1, <1>3, <1>4 DEF Booked
<1> QED  BY <1>1, <1>2, <1>5 DEF BooksStep, FeesElsewhere

\* A rollback gives back.
LEMMA ReserveRollbackBooks ==
  ASSUME IInv, IInv', NEW r \in Requests, Booked(r), ReserveRollback(r)
  PROVE  BooksStep(r)
<1>0. TypeOK /\ TypeOK' /\ RequestType /\ SessionType /\ Account(r)
  BY TypeParts DEF IInv, Accounts
<1>1. pc[r] = "reserveRollback" /\ KeepsTerms(r) /\ UNCHANGED fee /\ pc'[r] = "failing" /\ fee[r] = "none"
  BY <1>0 DEF ReserveRollback, KeepsTerms, Go, RequestType, Booked, Refunding, Terminal
<1>2. PICK d \in Int : d = -pend[r] /\ d <= 0
  BY <1>0, <1>1 DEF SessionType, Account, OpenAccount, Open
<1>3. Money(r)
  <2>1. CASE TakeWallet(r, d) /\ NoFault
    BY <1>0, <1>1, <1>2, <2>1, WalletMoney
  <2>2. CASE TakeSub(r, d) /\ NoFault
    BY <1>0, <1>1, <2>2, SubMoney
  <2>3. CASE Fault(r)
    BY <1>0, <1>1, <2>3, FaultCounts, IdleMoney DEF rows
  <2> QED  BY <1>2, <2>1, <2>2, <2>3 DEF ReserveRollback
<1>4. Booked(r)'
  BY <1>1 DEF Booked
<1> QED  BY <1>1, <1>3, <1>4 DEF BooksStep, FeesElsewhere

\* Settle moves the funding row to the real cost, above or below the estimate.
LEMMA SettleFundingBooks ==
  ASSUME IInv, IInv', NEW r \in Requests, NEW q \in Quotas, Booked(r), SettleFunding(r, q)
  PROVE  BooksStep(r)
<1>0. TypeOK /\ TypeOK' /\ RequestType /\ SessionType /\ Account(r)
  BY TypeParts DEF IInv, Accounts
<1>1. /\ pc[r] = "active" /\ KeepsTerms(r) /\ UNCHANGED <<info, source, trusted, fee, pre>>
      /\ fee[r] = "none" /\ Reserved(r, 0) /\ source[r] \in {"wallet", "subscription"}
  BY <1>0 DEF SettleFunding, KeepsTerms, Booked, Refunding, Terminal, Account, OpenAccount, Open, Unfunded
<1>2. PICK d \in Int : d = q - pre[r]
  BY <1>0, QuotasAssumption DEF SessionType
<1>3. Money(r)
  <2>1. CASE source[r] = "wallet" /\ TakeWallet(r, d) /\ NoFault
    <3>1. walletNet[r] >= Checked(r)
      BY <1>0, <1>1, <2>1, EntryType DEF Booked, Reserved, SessionType
    <3> QED  BY <1>0, <1>1, <2>1, <3>1, WalletMoney
  <2>2. CASE TakeSub(r, d) /\ NoFault
    BY <1>0, <1>1, <2>2, SubMoney
  <2>3. CASE UNCHANGED rows /\ (NoFault \/ Fault(r))
    <3>1. faults[r] = 0 \/ faults'[r] > 0
      BY <1>0, <2>3, FaultCounts, EntryType DEF NoFault
    <3> QED  BY <1>0, <1>1, <2>3, <3>1, IdleMoney DEF rows
  <2> QED  BY <1>2, <2>1, <2>2, <2>3, FaultCounts DEF SettleFunding
<1>4. /\ pc'[r] \in {"settled", "settleToken", "unsettled"}
      /\ pc'[r] = "unsettled" => UNCHANGED rows
  BY <1>0 DEF SettleFunding, Go, RequestType, Fault
<1>5. subNet[r] >= 0
  BY <1>0, <1>1, EntryType DEF Reserved, SessionType
<1>6. Booked(r)'
  BY <1>1, <1>4, <1>5 DEF Booked, rows
<1> QED  BY <1>1, <1>3, <1>6 DEF BooksStep, FeesElsewhere

\* Steps of a request that failed, or is settled, write only what they give back.
LEMMA LateStepBooks ==
  ASSUME IInv, IInv', NEW r \in Requests, Booked(r),
         \/ SettleToken(r) \/ RefundWallet(r) \/ RefundSubscription(r) \/ RefundRecord(r)
         \/ RefundExtra(r) \/ RefundToken(r)
  PROVE  BooksStep(r)
<1>0. TypeOK /\ TypeOK' /\ RequestType /\ SessionType
  BY TypeParts DEF IInv
<1>1. KeepsTerms(r) /\ UNCHANGED fee
  BY DEF SettleToken, RefundWallet, RefundSubscription, RefundRecord, RefundExtra, RefundToken, KeepsTerms, session
<1>2. pc'[r] \in Refunding \cup (Terminal \ {"unsettled"})
  BY <1>0 DEF SettleToken, RefundWallet, RefundSubscription, RefundRecord, RefundExtra, RefundToken,
     RetryRefund, AfterFunding, AfterExtra, Go, RequestType, Refunding, Terminal
<1>3. PICK c, x \in Int : c = -consumed[r] /\ x = -extra[r] /\ c <= 0
  BY <1>0 DEF SessionType
<1>4. Money(r)
  <2>1. CASE TakeWallet(r, c) /\ NoFault
    BY <1>0, <1>1, <1>3, <2>1, WalletMoney
  <2>2. CASE (TakeSub(r, c) \/ TakeSub(r, x)) /\ NoFault
    BY <1>0, <1>1, <2>2, SubMoney
  <2>3. CASE UNCHANGED <<userQuota, subUsed, walletNet, subNet>> /\ (NoFault \/ Fault(r))
    <3>1. faults[r] = 0 \/ faults'[r] > 0
      BY <1>0, <2>3, FaultCounts, EntryType DEF NoFault
    <3> QED  BY <1>0, <1>1, <2>3, <3>1, IdleMoney
  <2>4. CASE SettleToken(r) \/ RefundToken(r) \/ RefundRecord(r) \/ Fault(r)
    BY <2>3, <2>4, FaultCounts DEF SettleToken, RefundToken, RefundRecord, RetryRefund, TakeToken, rows
  <2>5. CASE RefundWallet(r) \/ RefundSubscription(r) \/ RefundExtra(r)
    BY <1>3, <2>1, <2>2, <2>4, <2>5
       DEF RefundWallet, RefundSubscription, RefundExtra, RetryRefund, RecordedAmount
  <2> QED  BY <2>4, <2>5
<1>5. Booked(r)'
  BY <1>2, LateBooked
<1> QED  BY <1>1, <1>4, <1>5 DEF BooksStep, FeesElsewhere

\* A failure, or a crash, writes no row; the fee it leaves behind is not yet drawn
\* or stays drawn.
LEMMA FailBooks ==
  ASSUME IInv, IInv', NEW r \in Requests, Booked(r), Fail(r) \/ Crash(r)
  PROVE  BooksStep(r)
<1>0. TypeOK /\ TypeOK' /\ RequestType
  BY TypeParts DEF IInv
<1>1. /\ UNCHANGED <<rows, source, trusted, info>> /\ (UNCHANGED faults \/ Fault(r))
      /\ \E f : fee' = [fee EXCEPT ![r] = f]
  BY DEF Fail, Crash, Fault, SetFee, session
<1>2. /\ FeeDrawn(r, "wallet")' = FeeDrawn(r, "wallet")
      /\ FeeDrawn(r, "subscription")' = FeeDrawn(r, "subscription")
      /\ Checked(r)' = Checked(r)
  <2>1. CASE Fail(r)
    <3>1. fee[r] = "none" /\ fee'[r] \in {"none", "due"}
      BY <1>0, <2>1 DEF Fail, MayFail, FeeOutcomes, Booked, RequestType, Refunding, Terminal
    <3> QED  BY <1>1, <3>1 DEF FeeDrawn, Checked
  <2>2. CASE Crash(r)
    <3>1. fee'[r] = Unpaid(fee[r]) /\ fee[r] \in {"none", "due", "token", "paid", "fundingOnly", "lost"}
      BY <1>0, <2>2 DEF Crash, SetFee, RequestType
    <3> QED  BY <1>1, <3>1 DEF FeeDrawn, Checked, Unpaid
  <2> QED  BY <2>1, <2>2
<1>3. Money(r)
  <2>1. faults[r] = 0 \/ faults'[r] > 0
    BY <1>0, <1>1, FaultCounts, EntryType
  <2> QED  BY <1>0, <1>1, <1>2, <2>1, QuietMoney DEF rows
<1>4. pc'[r] \in Refunding \cup (Terminal \ {"unsettled"})
  BY <1>0 DEF Fail, Crash, Go, RequestType, Refunding, Terminal
<1>5. FeesElsewhere(r)
  BY <1>0, <1>1 DEF FeesElsewhere, RequestType
<1> QED  BY <1>3, <1>4, <1>5, LateBooked DEF BooksStep

\* ChargeViolationFeeIfNeeded takes the fee from the row it books it on.
LEMMA FeeStepBooks ==
  ASSUME IInv, IInv', NEW r \in Requests, Booked(r), FeeStep(r)
  PROVE  BooksStep(r)
<1>0. TypeOK /\ TypeOK' /\ RequestType
  BY TypeParts DEF IInv
<1>1. /\ UNCHANGED <<walletNet, subNet, source, trusted, info, pc, faults>>
      /\ \E f : fee' = [fee EXCEPT ![r] = f]
      /\ fee[r] \in {"due", "token"}
  BY DEF FeeStep, ChargeFeeFunding, ChargeFeeToken, LoseFee, SetFee, rows, session
<1>2. /\ userQuota \in Int /\ subUsed \in Nat /\ walletNet[r] \in Int /\ subNet[r] \in Int /\ faults[r] \in Nat
      /\ Checked(r) \in Nat /\ Checked(r)' = Checked(r) /\ FeeQuota \in Nat
      /\ FeeDrawn(r, "wallet") \in Nat /\ FeeDrawn(r, "subscription") \in Nat
  BY <1>0, <1>1, EntryType, SettingsAssumption DEF Checked
<1>3. Money(r)
  <2>1. CASE /\ fee[r] = "due" /\ fee'[r] \in {"token", "paid"} /\ source[r] = "wallet"
             /\ userQuota' = userQuota - FeeQuota /\ subUsed' = subUsed
    <3>1. /\ FeeDrawn(r, "wallet") = 0 /\ FeeDrawn(r, "wallet")' = FeeQuota
          /\ FeeDrawn(r, "subscription") = 0 /\ FeeDrawn(r, "subscription")' = 0
      BY <1>1, <2>1 DEF FeeDrawn
    <3>2. SubDrawn(r)' = SubDrawn(r) /\ SubDrawn(r) \in Int
      BY <1>1, <1>2, <3>1 DEF SubDrawn
    <3>3. subUsed' = Positive(subUsed + (SubDrawn(r)' - SubDrawn(r)))
      BY <1>2, <2>1, <3>2 DEF Positive
    <3>4. userQuota' + WalletPostpaid(r)' >= userQuota + WalletPostpaid(r)
      BY <1>1, <1>2, <2>1, <3>1 DEF WalletPostpaid, Positive
    <3> QED  BY <1>1, <3>3, <3>4 DEF Money
  <2>2. CASE /\ fee[r] = "due" /\ fee'[r] \in {"token", "paid"} /\ source[r] = "subscription"
             /\ userQuota' = userQuota /\ subUsed' = subUsed + FeeQuota
    <3>1. /\ FeeDrawn(r, "wallet") = 0 /\ FeeDrawn(r, "wallet")' = 0
          /\ FeeDrawn(r, "subscription") = 0 /\ FeeDrawn(r, "subscription")' = FeeQuota
      BY <1>1, <2>2 DEF FeeDrawn
    <3>2. SubDrawn(r)' - SubDrawn(r) = FeeQuota
      BY <1>1, <1>2, <3>1 DEF SubDrawn
    <3>3. subUsed' = Positive(subUsed + (SubDrawn(r)' - SubDrawn(r)))
      BY <1>2, <2>2, <3>2 DEF Positive
    <3>4. WalletPostpaid(r)' = WalletPostpaid(r) /\ WalletPostpaid(r) \in Int
      BY <1>1, <1>2, <3>1 DEF WalletPostpaid, Positive
    <3> QED  BY <1>1, <1>2, <2>2, <3>3, <3>4 DEF Money
  <2>3. CASE /\ UNCHANGED <<userQuota, subUsed>>
             /\ \/ fee[r] = "due" /\ fee'[r] = "lost"
                \/ fee[r] = "token" /\ fee'[r] \in {"paid", "fundingOnly"}
    <3>1. /\ FeeDrawn(r, "wallet")' = FeeDrawn(r, "wallet")
          /\ FeeDrawn(r, "subscription")' = FeeDrawn(r, "subscription")
      BY <1>1, <2>3 DEF FeeDrawn
    <3>2. faults[r] = 0 \/ faults'[r] > 0
      BY <1>1, <1>2
    <3> QED  BY <1>0, <1>1, <1>2, <2>3, <3>1, <3>2, QuietMoney
  <2>4. CASE ChargeFeeFunding(r)
    BY <1>0, <2>1, <2>2, <2>3, <2>4 DEF ChargeFeeFunding, SetFee, RequestType
  <2>5. CASE ChargeFeeToken(r) \/ LoseFee(r)
    BY <1>0, <2>3, <2>5 DEF ChargeFeeToken, LoseFee, SetFee, Unpaid, RequestType, rows
  <2> QED  BY <2>4, <2>5 DEF FeeStep
<1>4. Booked(r)'
  BY <1>1 DEF Booked, Refunding, Terminal
<1>5. FeesElsewhere(r)
  BY <1>0, <1>1 DEF FeesElsewhere, RequestType
<1> QED  BY <1>3, <1>4, <1>5 DEF BooksStep

\* A step that keeps the entry of r and its rows together keeps the sums.
LEMMA BooksKept ==
  ASSUME IInv, IInv', Books, NEW r \in Requests, Others(r), BooksStep(r)
  PROVE  Books'
<1>0. TypeOK /\ TypeOK' /\ Accounts'
  BY DEF IInv
<1>1. ASSUME NEW s \in Requests PROVE Booked(s)'
  BY <1>1 DEF Books, BooksStep, FeesElsewhere, Others, Same, Booked, Checked
<1>2. \A s \in Requests \ {r} : WalletPostpaid(s)' = WalletPostpaid(s) /\ SubDrawn(s)' = SubDrawn(s)
  BY DEF BooksStep, FeesElsewhere, Others, Same, WalletPostpaid, SubDrawn, Checked, FeeDrawn
<1>3. DebtIsPostpaid'
  <2>1. PICK f, g : f = [s \in Requests |-> WalletPostpaid(s)] /\ g = [s \in Requests |-> WalletPostpaid(s)']
    OBVIOUS
  <2>2. \A s \in Requests : WalletPostpaid(s) \in Nat /\ WalletPostpaid(s)' \in Nat
    BY <1>0, EntryType, EntryTypePrime DEF WalletPostpaid, Positive
  <2>3. f \in [Requests -> Nat] /\ g \in [Requests -> Nat] /\ f \in [Requests -> Int] /\ g \in [Requests -> Int]
    BY <2>1, <2>2
  <2>4. SumFunction(g) = SumFunction(f) + g[r] - f[r]
    BY <1>2, <2>1, <2>3, SumChange, RequestsAssumption
  <2>5. SumFunction(f) \in Int /\ SumFunction(g) \in Nat
    BY <2>3, SumType, SumNat, RequestsAssumption
  <2>6. /\ f[r] = WalletPostpaid(r) /\ g[r] = WalletPostpaid(r)'
        /\ f[r] \in Int /\ g[r] \in Int /\ userQuota \in Int /\ userQuota' \in Int
    BY <1>0, <2>1, <2>3, EntryType, EntryTypePrime
  <2>7. userQuota + SumFunction(f) >= 0
    BY <2>1 DEF Books, DebtIsPostpaid
  <2>8. userQuota' + g[r] >= userQuota + f[r] \/ userQuota' >= 0
    BY <2>6 DEF BooksStep, Money
  <2>9. userQuota' + SumFunction(g) >= 0
    BY <2>4, <2>5, <2>6, <2>7, <2>8
  <2> QED  BY <2>1, <2>9 DEF DebtIsPostpaid
<1>4. SubscriptionBooksBalance'
  <2> SUFFICES ASSUME \A s \in Requests : faults'[s] = 0
      PROVE  subUsed' = SumFunction([s \in Requests |-> SubDrawn(s)'])
    BY DEF SubscriptionBooksBalance
  <2>1. PICK f, g : f = [s \in Requests |-> SubDrawn(s)] /\ g = [s \in Requests |-> SubDrawn(s)']
    OBVIOUS
  <2>2. \A s \in Requests : SubDrawn(s) \in Int /\ SubDrawn(s)' \in Nat
    <3>1. \A s \in Requests : subNet'[s] >= 0
      BY <1>0, <1>1, SubSolvencyPrime
    <3> QED  BY <1>0, <3>1, EntryType, EntryTypePrime DEF SubDrawn
  <2>3. f \in [Requests -> Int] /\ g \in [Requests -> Nat] /\ g \in [Requests -> Int]
    BY <2>1, <2>2
  <2>4. SumFunction(g) = SumFunction(f) + g[r] - f[r]
    BY <1>2, <2>1, <2>3, SumChange, RequestsAssumption
  <2>5. SumFunction(f) \in Int /\ SumFunction(g) \in Nat
    BY <2>3, SumType, SumNat, RequestsAssumption
  <2>6. \A s \in Requests : faults[s] = 0
    BY DEF BooksStep, Money, Others, Same
  <2>7. subUsed = SumFunction(f)
    BY <2>1, <2>6 DEF Books, SubscriptionBooksBalance
  <2>8. f[r] = SubDrawn(r) /\ g[r] = SubDrawn(r)' /\ f[r] \in Int /\ g[r] \in Int
    BY <2>1, <2>3
  <2>9. subUsed' = Positive(subUsed + (g[r] - f[r]))
    BY <2>8 DEF BooksStep, Money
  <2>10. subUsed' = SumFunction(g)
    BY <2>4, <2>5, <2>7, <2>8, <2>9 DEF Positive
  <2> QED  BY <2>1, <2>10
<1> QED  BY <1>1, <1>3, <1>4 DEF Books

\* The books are in order at first.
LEMMA InitBooks == Init => Books
<1> SUFFICES ASSUME Init PROVE Books
  OBVIOUS
<1>1. PICK z : z = [r \in Requests |-> 0]
  OBVIOUS
<1>2. SumFunction(z) = 0
  BY <1>1, SumOfZeros, RequestsAssumption
<1>3. \A r \in Requests : WalletPostpaid(r) = 0 /\ SubDrawn(r) = 0
  BY DEF Init, Zero, WalletPostpaid, SubDrawn, Checked, FeeDrawn, Positive
<1>4. [r \in Requests |-> WalletPostpaid(r)] = z /\ [r \in Requests |-> SubDrawn(r)] = z
  BY <1>1, <1>3
<1>5. \A r \in Requests : Booked(r)
  BY DEF Init, Booked, Refunding, Terminal
<1>6. DebtIsPostpaid /\ SubscriptionBooksBalance
  BY <1>2, <1>4, RowsAssumption DEF Init, DebtIsPostpaid, SubscriptionBooksBalance
<1> QED  BY <1>5, <1>6 DEF Books

\* Every step keeps the books.
LEMMA NextBooks == IInv /\ IInv' /\ Books /\ [Next]_vars => Books'
<1> SUFFICES ASSUME IInv, IInv', Books, [Next]_vars PROVE Books'
  OBVIOUS
<1>1. CASE UNCHANGED vars \/ ExpireSubscription \/ Quiescent
  <2>1. UNCHANGED <<rows, session, pc, info, fee, faults>>
    BY <1>1 DEF ExpireSubscription, Quiescent, vars
  <2>2. \A r \in Requests : WalletPostpaid(r)' = WalletPostpaid(r) /\ SubDrawn(r)' = SubDrawn(r) /\ (Booked(r) => Booked(r)')
    BY <2>1 DEF rows, session, WalletPostpaid, SubDrawn, Checked, FeeDrawn, Booked
  <2>3. /\ [r \in Requests |-> WalletPostpaid(r)]' = [r \in Requests |-> WalletPostpaid(r)]
        /\ [r \in Requests |-> SubDrawn(r)]' = [r \in Requests |-> SubDrawn(r)]
    BY <2>2
  <2> QED  BY <2>1, <2>2, <2>3 DEF Books, DebtIsPostpaid, SubscriptionBooksBalance, rows
<1>2. ASSUME NEW r \in Requests,
             \/ \E p \in Preferences, q \in Quotas : Begin(r, p, q)
             \/ RefuseToken(r) \/ CheckSubscription(r) \/ CheckWallet(r) \/ PreConsumeToken(r)
             \/ RollbackToken(r) \/ Fallback(r)
      PROVE  Books'
  <2>1. Others(r)
    BY <1>2, BeginStep, RefuseTokenStep, CheckSubscriptionStep, CheckWalletStep, PreConsumeTokenStep,
       RollbackTokenStep, FallbackStep
  <2>2. BooksStep(r)
    BY <1>2, OpeningStepBooks DEF Books
  <2> QED  BY <2>1, <2>2, BooksKept
<1>3. ASSUME NEW r \in Requests, PreConsumeWallet(r) \/ PreConsumeSubscription(r)
      PROVE  Books'
  BY <1>3, PreConsumeWalletStep, PreConsumeSubscriptionStep, PreConsumeWalletBooks,
     PreConsumeSubscriptionBooks, BooksKept DEF Books
<1>4. ASSUME NEW r \in Requests, NEW q \in Quotas, ReserveFunding(r, q) \/ SettleFunding(r, q)
      PROVE  Books'
  BY <1>4, ReserveFundingStep, SettleFundingStep, ReserveFundingBooks, SettleFundingBooks, BooksKept DEF Books
<1>5. ASSUME NEW r \in Requests, ReserveToken(r) \/ ReserveRollback(r)
      PROVE  Books'
  BY <1>5, ReserveTokenStep, ReserveRollbackStep, ReserveTokenBooks, ReserveRollbackBooks, BooksKept DEF Books
<1>6. ASSUME NEW r \in Requests,
             \/ SettleToken(r) \/ RefundWallet(r) \/ RefundSubscription(r) \/ RefundRecord(r)
             \/ RefundExtra(r) \/ RefundToken(r)
      PROVE  Books'
  <2>1. Others(r)
    BY <1>6, SettleTokenStep, RefundWalletStep, RefundSubscriptionStep, RefundRecordStep, RefundExtraStep,
       RefundTokenStep
  <2>2. BooksStep(r)
    BY <1>6, LateStepBooks DEF Books
  <2> QED  BY <2>1, <2>2, BooksKept
<1>7. ASSUME NEW r \in Requests, Fail(r) \/ Crash(r)
      PROVE  Books'
  BY <1>7, FailStep, CrashStep, FailBooks, BooksKept DEF Books
<1>8. ASSUME NEW r \in Requests, FeeStep(r)
      PROVE  Books'
  <2>1. Others(r)
    BY <1>8, FeeStepStep DEF Others
  <2> QED  BY <1>8, <2>1, FeeStepBooks, BooksKept DEF Books
<1> QED  BY <1>1, <1>2, <1>3, <1>4, <1>5, <1>6, <1>7, <1>8 DEF Next, Step

\* Whatever runs, fails and crashes concurrently, the wallet is in debt at most by
\* what trusted requests, reserves, settlements above the estimate and fees drew
\* after the fact: pre-consumes (TryReserveUserQuota) never overdraw it.
THEOREM WalletDebtIsPostpaid == Spec => []DebtIsPostpaid
<1>1. Books => DebtIsPostpaid
  BY DEF Books
<1> QED  BY <1>1, InitBooks, NextBooks, Invariant, PTL DEF Spec

\* As long as no write failed, AmountUsed is the sum of what the requests drew and of
\* their fees: the clamp of PostConsumeUserSubscriptionDelta never forgives quota.
THEOREM SubscriptionBalances == Spec => []SubscriptionBooksBalance
<1>1. Books => SubscriptionBooksBalance
  BY DEF Books
<1> QED  BY <1>1, InitBooks, NextBooks, Invariant, PTL DEF Spec
================================================================================
