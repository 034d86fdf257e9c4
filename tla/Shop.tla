-------------------------------- MODULE Shop --------------------------------
(***************************************************************************)
(* The shop of the panel (internal/commerce): orders and their external    *)
(* refunds, the wallet with the origin of its money (funding.go), plans,   *)
(* add-ons, purchases and their refunds, commissions for the inviter,      *)
(* redeem codes, renewals and administrators' adjustments, for one buyer   *)
(* and the account that invited them.                                      *)
(*                                                                         *)
(* Every operation is one transaction of the writer, on the variable shop;   *)
(* a request with an idempotency key that was used before changes nothing  *)
(* and is left out.  Amounts are integers, as in the code.                 *)
(***************************************************************************)
EXTENDS Integers, Sequences, FiniteSets, FiniteSetsExt, SequencesExt

CONSTANTS Orders, Amount,      \* recharge orders of the buyer and their amounts
          Terms,               \* the versions of the plan: price and quota, in order
          Addon,               \* the add-on's price and quota
          Rate,                \* commission in hundredths
          CodeAmount, MaxUses, \* the cash code
          Credits,             \* adjustments an administrator may make
          Sizes,               \* amounts a refund may have
          Chunk,               \* the quota a lease asks for
          MaxEnts, MaxReserve, \* bounds on entitlements, reservations,
          MaxAsides, MaxExtras \* rare operations, and everything beyond one purchase

ASSUME ShopConstants ==
    /\ Amount \in [Orders -> Nat \ {0}]
    /\ \A i \in 1..Len(Terms) : Terms[i].price \in Nat /\ Terms[i].quota \in Nat
    /\ Rate \in 0..100 /\ MaxUses \in Nat /\ Sizes \subseteq Nat \ {0}

Buyer == "buyer"
Inviter == "inviter"
Users == {Buyer, Inviter}
NoOrder == "none"

\* What a debit is for: purchases and reservations may be given back.
Refs == {<<"ent", i>> : i \in 1..MaxEnts} \cup {<<"addon", i>> : i \in 1..MaxExtras}
        \cup {<<"refund", i>> : i \in 1..MaxExtras} \cup {<<"gone", 0>>}
Gone == <<"gone", 0>>

VARIABLES shop,   \* the tables of the shop
          asides  \* how many of the operations of Aside were made

shopVars == <<shop, asides>>

\* commission_refunds' fraction: the share n / d of a total, rounded down.
Fraction(total, n, d) == (total * n) \div d

\* Everything beyond one purchase and its refunds draws on one bound.
Extras == Len(shop.refunds) + Len(shop.addons) + asides + Max({0, Len(shop.ents) - 1})

Total(S, f(_)) == MapThenSumSet(f, S)
Positions(s) == 1..Len(s)

\* old: a balance from before money was tracked, part of it from an order that
\* was paid then and may have a reservation for an external refund.
Fresh ==
    [wallet |-> [u \in Users |-> 0], funds |-> [u \in Users |-> <<>>], tracked |-> {},
     order |-> [o \in Orders |-> "pending"], refunds |-> <<>>, ents |-> <<>>, addons |-> <<>>,
     comm |-> [i \in 1..MaxEnts |-> [amount |-> 0, status |-> "none", rev |-> 0]],
     terms |-> 1, active |-> TRUE, bound |-> FALSE, cash |-> {}, gift |-> FALSE, codes |-> TRUE,
     expired |-> FALSE, renew |-> FALSE, adj |-> [u \in Users |-> 0]]

Migrated(o, reserved) ==
    [Fresh EXCEPT !.wallet[Buyer] = Amount[o] - reserved, !.order[o] = "paid",
                  !.refunds = IF reserved = 0 THEN <<>>
                              ELSE <<[order |-> o, amount |-> reserved, status |-> "pending"]>>]

ShopInit == asides = 0 /\ shop \in {Fresh} \cup {Migrated(o, n) : o \in Orders, n \in {0, 1}}

-----------------------------------------------------------------------------
(* Money and where it came from: post, trackFunds, restoreFunds *)

Source(o, n) == [order |-> o, left |-> n, out |-> [r \in Refs |-> 0]]

\* trackFunds: the balance of an account that was never tracked is one source.
Tracked(x, u) ==
    IF u \in x.tracked THEN x
    ELSE [x EXCEPT !.tracked = @ \cup {u},
                   !.funds[u] = IF x.wallet[u] > 0 THEN Append(@, Source(NoOrder, x.wallet[u])) ELSE @]

Credit(x, u, n, o) ==
    LET y == Tracked(x, u)
    IN  IF n = 0 THEN y
        ELSE [y EXCEPT !.wallet[u] = @ + n, !.funds[u] = Append(@, Source(o, n))]

\* Sources that may pay: those of one order, if it has any, or all of them.
Payers(fs, o) ==
    LET own == {i \in Positions(fs) : fs[i].order = o}
    IN  IF o # NoOrder /\ own # {} THEN own ELSE Positions(fs)

CanDebit(x, u, n, o) ==
    LET fs == Tracked(x, u).funds[u]
    IN  /\ x.wallet[u] >= n
        /\ Total(Payers(fs, o), LAMBDA i : fs[i].left) >= n

\* The oldest eligible source pays first; what it paid is noted under ref.
Draw(fs, who, n, ref) ==
    [i \in Positions(fs) |->
        LET older == Total({j \in who : j < i}, LAMBDA j : fs[j].left)
            part == IF i \in who THEN Max({0, Min({fs[i].left, n - older})}) ELSE 0
        IN  [fs[i] EXCEPT !.left = @ - part, !.out[ref] = @ + part]]

Debit(x, u, n, ref, o) ==
    LET y == Tracked(x, u)
    IN  [y EXCEPT !.wallet[u] = @ - n, !.funds[u] = Draw(@, Payers(@, o), n, ref)]

Owed(x, u, ref) == Total(Positions(x.funds[u]), LAMBDA i : x.funds[u][i].out[ref])

\* Money goes back to the sources it came from, oldest first.
Restore(x, u, n, ref) ==
    [x EXCEPT !.wallet[u] = @ + n,
              !.funds[u] = [i \in Positions(@) |->
                 LET older == Total(1..(i - 1), LAMBDA j : x.funds[u][j].out[ref])
                     part == Max({0, Min({@[i].out[ref], n - older})})
                 IN  [@[i] EXCEPT !.left = @ + part, !.out[ref] = @ - part]]]

-----------------------------------------------------------------------------
(* Orders and external refunds *)

PaidStates == {"paid", "paid_late", "partially_refunded", "refunded"}

\* ConfirmPaymentTx: also for an order that was closed in the meantime.
ConfirmPayment(o) ==
    /\ shop.order[o] \in {"pending", "closed"}
    /\ shop' = [Credit(shop, Buyer, Amount[o], o) EXCEPT
                 !.order[o] = IF @ = "pending" THEN "paid" ELSE "paid_late"]

CloseOrder(o) ==
    /\ shop.order[o] = "pending"
    /\ shop' = [shop EXCEPT !.order[o] = "closed"]

RefundsOf(x, o, states) ==
    Total({r \in Positions(x.refunds) : x.refunds[r].order = o /\ x.refunds[r].status \in states},
          LAMBDA r : x.refunds[r].amount)

\* n of order o are set aside, from the money of one order or from all.
Reservation(o, n, source) ==
    LET r == Len(shop.refunds) + 1
    IN  /\ Extras < MaxExtras
        /\ shop.order[o] \in PaidStates \ {"refunded"}
        /\ n <= Amount[o] - RefundsOf(shop, o, {"pending", "completed"})
        /\ CanDebit(shop, Buyer, n, source)
        /\ shop' = [Debit(shop, Buyer, n, <<"refund", r>>, source) EXCEPT
                     !.refunds = Append(@, [order |-> o, amount |-> n, status |-> "pending"])]

\* Mutation: any money of the buyer is set aside.
RequestRefundAny(o, n) == Reservation(o, n, NoOrder)

\* The money of that order is set aside until somebody pays it back outside.
RequestRefund(o, n) == Reservation(o, n, o)

\* refund_release: a reservation from before tracking becomes a new source.
Released(x, r) ==
    LET y == Tracked(x, Buyer)
        n == x.refunds[r].amount
    IN  IF Owed(y, Buyer, <<"refund", r>>) = 0 THEN Credit(y, Buyer, n, NoOrder)
        ELSE Restore(y, Buyer, n, <<"refund", r>>)

\* Mutation: the status looks at this refund alone.
ResolveRefundAlone(r, completed) ==
    /\ shop.refunds[r].status = "pending"
    /\ LET o == shop.refunds[r].order
           done == [shop EXCEPT !.refunds[r].status = "completed"]
       IN  shop' = IF completed
                 THEN [done EXCEPT !.order[o] = IF shop.refunds[r].amount = Amount[o]
                                                THEN "refunded" ELSE "partially_refunded"]
                 ELSE [Released(shop, r) EXCEPT !.refunds[r].status = "canceled"]

ResolveRefund(r, completed) ==
    /\ shop.refunds[r].status = "pending"
    /\ LET o == shop.refunds[r].order
           done == [shop EXCEPT !.refunds[r].status = "completed"]
       IN  shop' = IF completed
                 THEN [done EXCEPT !.order[o] = IF RefundsOf(done, o, {"completed"}) = Amount[o]
                                                THEN "refunded" ELSE "partially_refunded"]
                 ELSE [Released(shop, r) EXCEPT !.refunds[r].status = "canceled"]

-----------------------------------------------------------------------------
(* Plans, purchases, add-ons and renewals *)

Plan == Terms[shop.terms]

\* recordCommission.
Commission(x, i, price) ==
    LET n == Fraction(price, Rate, 100)
    IN  IF ~x.bound \/ n = 0 THEN x
        ELSE [x EXCEPT !.comm[i] = [amount |-> n, status |-> "pending", rev |-> 0]]

Entitled(x, bought) ==
    [x EXCEPT !.ents = Append(@, [price |-> Plan.price, full |-> Plan.quota, quota |-> Plan.quota,
                                  alloc |-> 0, bought |-> bought, back |-> 0]),
              !.expired = FALSE]

Room == Len(shop.ents) < MaxEnts /\ (shop.ents = <<>> \/ Extras < MaxExtras)

\* purchaseTx, at the version the buyer saw.
CanPurchase == shop.active /\ Room /\ CanDebit(shop, Buyer, Plan.price, NoOrder)

Purchased ==
    LET i == Len(shop.ents) + 1
    IN  Commission(Entitled(Debit(shop, Buyer, Plan.price, <<"ent", i>>, NoOrder), TRUE), i, Plan.price)

Purchase == CanPurchase /\ shop' = Purchased

Latest == shop.ents[Len(shop.ents)]

PurchaseAddon ==
    LET a == Len(shop.addons) + 1
        i == Len(shop.ents)
    IN  /\ Extras < MaxExtras /\ i > 0 /\ ~shop.expired
        /\ CanDebit(shop, Buyer, Addon.price, NoOrder)
        /\ shop' = [Debit(shop, Buyer, Addon.price, <<"addon", a>>, NoOrder) EXCEPT
                     !.addons = Append(@, [ent |-> i, back |-> 0]),
                     !.ents[i].quota = IF Addon.quota = 0 \/ @ = 0 THEN 0 ELSE @ + Addon.quota]

\* RunAutoRenew: only once the period is over; a failure is tried again later.
RunAutoRenew == shop.renew /\ shop.expired /\ CanPurchase /\ shop' = Purchased

SetAutoRenew ==
    /\ shop.renew \/ shop.active
    /\ shop' = [shop EXCEPT !.renew = ~@]

SetPlanActive == shop' = [shop EXCEPT !.active = ~@]

UpdatePlan ==
    /\ shop.terms < Len(Terms)
    /\ shop' = [shop EXCEPT !.terms = @ + 1]

\* The latest entitlement reaches its end.
Expire ==
    /\ shop.ents # <<>> /\ ~shop.expired
    /\ shop' = [shop EXCEPT !.expired = TRUE]

\* Leases reserve quota, as much as is left of it, and give back what they did
\* not use (PanelLeases).
Reserve ==
    LET n == IF Latest.quota = 0 THEN Chunk ELSE Min({Chunk, Latest.quota - Latest.alloc})
    IN  /\ shop.ents # <<>> /\ ~shop.expired
        /\ n > 0 /\ Latest.alloc + n <= MaxReserve
        /\ shop' = [shop EXCEPT !.ents[Len(shop.ents)].alloc = @ + n]

Release(i, unused) ==
    /\ unused <= shop.ents[i].alloc
    /\ shop' = [shop EXCEPT !.ents[i].alloc = @ - unused]

-----------------------------------------------------------------------------
(* Refunds of purchases to the wallet, and commissions *)

\* What was bought: an entitlement or an add-on to one.
Bought(kind, i) ==
    IF kind = "ent"
    THEN [ent |-> i, price |-> shop.ents[i].price, full |-> shop.ents[i].full, back |-> shop.ents[i].back]
    ELSE [ent |-> shop.addons[i].ent, price |-> Addon.price, full |-> Addon.quota, back |-> shop.addons[i].back]

\* reversePurchaseCommission: the share of the commission that goes with back of price.
Reversal(x, kind, i, back, price) ==
    IF kind # "ent" \/ x.comm[i].status \notin {"pending", "paid"} THEN 0
    ELSE Fraction(x.comm[i].amount, back, price) - x.comm[i].rev

Reversed(x, i, n) ==
    LET paid == x.comm[i].status = "paid"
        y == IF paid THEN Debit(x, Inviter, n, Gone, NoOrder) ELSE x
    IN  IF n <= 0 THEN x
        ELSE [y EXCEPT !.comm[i].rev = @ + n,
                       !.comm[i].status = IF x.comm[i].rev + n = x.comm[i].amount THEN "reversed" ELSE @]

\* Mutation: quota that leases hold is taken back too.
RemovedAnyway(kind, i, n) ==
    LET b == Bought(kind, i)
    IN  IF shop.ents[b.ent].quota = 0 THEN -1
        ELSE Fraction(b.full, b.back + n, b.price) - Fraction(b.full, b.back, b.price)

\* The quota n of the price stands for, or -1 when leases hold some of it.
Removed(kind, i, n) ==
    LET b == Bought(kind, i)
        q == Fraction(b.full, b.back + n, b.price) - Fraction(b.full, b.back, b.price)
    IN  IF q = 0 \/ shop.ents[b.ent].quota - q >= shop.ents[b.ent].alloc THEN q ELSE -1

\* One transaction: the quota, the commission and the money, or nothing at all.
RefundPurchase(kind, i, n) ==
    LET b == Bought(kind, i)
        q == Removed(kind, i, n)
        c == Reversal(shop, kind, i, b.back + n, b.price)
    IN  /\ b.price > 0 /\ n <= b.price - b.back
        /\ q >= 0
        /\ c > 0 /\ shop.comm[i].status = "paid" => CanDebit(shop, Inviter, c, NoOrder)
        /\ Owed(shop, Buyer, <<kind, i>>) >= n
        /\ LET y == Restore(Reversed(shop, i, c), Buyer, n, <<kind, i>>)
               z == [y EXCEPT !.ents[b.ent].quota = @ - q]
           IN  shop' = IF kind = "ent" THEN [z EXCEPT !.ents[i].back = @ + n]
                     ELSE [z EXCEPT !.addons[i].back = @ + n]

\* Mutation: the whole commission is paid, also after a refund of the purchase.
SettleCommissionWhole(i) ==
    /\ shop.comm[i].status = "pending"
    /\ shop' = [Credit(shop, Inviter, shop.comm[i].amount, NoOrder) EXCEPT !.comm[i].status = "paid"]

\* ResolveCommission: what a refund already reversed is neither paid nor taken back.
SettleCommission(i) ==
    /\ shop.comm[i].status = "pending"
    /\ shop' = [Credit(shop, Inviter, shop.comm[i].amount - shop.comm[i].rev, NoOrder) EXCEPT
                 !.comm[i].status = "paid"]

ReverseCommission(i) ==
    LET rest == shop.comm[i].amount - shop.comm[i].rev
        paid == shop.comm[i].status = "paid"
    IN  /\ shop.comm[i].status \in {"pending", "paid"}
        /\ paid => CanDebit(shop, Inviter, rest, NoOrder)
        /\ shop' = [IF paid THEN Debit(shop, Inviter, rest, Gone, NoOrder) ELSE shop EXCEPT
                     !.comm[i].status = "reversed"]

BindReferral ==
    /\ ~shop.bound
    /\ \A i \in Positions(shop.ents) : ~shop.ents[i].bought
    /\ shop' = [shop EXCEPT !.bound = TRUE]

-----------------------------------------------------------------------------
(* Redeem codes and adjustments *)

\* A code for money, of which each account takes at most one.
RedeemCash(u) ==
    /\ shop.codes /\ u \notin shop.cash /\ Cardinality(shop.cash) < MaxUses
    /\ shop' = [Credit(shop, u, CodeAmount, NoOrder) EXCEPT !.cash = @ \cup {u}]

\* A code for the plan: no money moves, no commission is earned.
RedeemPlan ==
    /\ shop.codes /\ ~shop.gift /\ shop.active /\ Room
    /\ shop' = [Entitled(shop, FALSE) EXCEPT !.gift = TRUE]

RevokeRedeemCode ==
    /\ shop.codes
    /\ shop' = [shop EXCEPT !.codes = FALSE]

AdjustUserBalance(u, n) ==
    /\ shop.adj[u] = 0
    /\ n < 0 => CanDebit(shop, u, -n, NoOrder)
    /\ shop' = [IF n > 0 THEN Credit(shop, u, n, NoOrder) ELSE Debit(shop, u, -n, Gone, NoOrder) EXCEPT
                 !.adj[u] = n]

-----------------------------------------------------------------------------

Trade ==
    \/ \E o \in Orders : ConfirmPayment(o) \/ CloseOrder(o) \/ \E n \in Sizes : RequestRefund(o, n)
    \/ \E r \in Positions(shop.refunds), c \in BOOLEAN : ResolveRefund(r, c)
    \/ Purchase \/ PurchaseAddon \/ RunAutoRenew \/ Expire
    \/ Reserve \/ \E i \in Positions(shop.ents), n \in 1..Chunk : Release(i, n)
    \/ \E i \in Positions(shop.ents), n \in Sizes : RefundPurchase("ent", i, n)
    \/ \E i \in Positions(shop.addons), n \in Sizes : RefundPurchase("addon", i, n)
    \/ \E i \in Positions(shop.ents) : SettleCommission(i) \/ ReverseCommission(i)
    \/ BindReferral

\* Rarer operations, MaxAsides of them in a behaviour, each in place of a refund or an add-on.
Aside ==
    \/ SetAutoRenew \/ SetPlanActive \/ UpdatePlan \/ RedeemPlan \/ RevokeRedeemCode
    \/ \E u \in Users : RedeemCash(u) \/ \E n \in Credits : AdjustUserBalance(u, n)

ShopNext ==
    \/ Trade /\ UNCHANGED asides
    \/ asides < MaxAsides /\ Extras < MaxExtras /\ Aside /\ asides' = asides + 1

ShopSpec == ShopInit /\ [][ShopNext]_shopVars

-----------------------------------------------------------------------------

Ent == [price : Nat, full : Nat, quota : Nat, alloc : 0..MaxReserve, bought : BOOLEAN, back : Nat]

\* Wallets, sources, quota and reservations are never negative, statuses are
\* the ones the code knows: every debit and every removal is checked first.
TypeOK ==
    /\ \A u \in Users : shop.wallet[u] \in Nat
    /\ \A u \in Users : \A i \in Positions(shop.funds[u]) :
          /\ shop.funds[u][i].order \in Orders \cup {NoOrder}
          /\ shop.funds[u][i].left \in Nat /\ shop.funds[u][i].out \in [Refs -> Nat]
    /\ shop.tracked \subseteq Users /\ shop.order \in [Orders -> PaidStates \cup {"pending", "closed"}]
    /\ \A r \in Positions(shop.refunds) : shop.refunds[r] \in
          [order : Orders, amount : Nat \ {0}, status : {"pending", "completed", "canceled"}]
    /\ Len(shop.ents) <= MaxEnts /\ \A i \in Positions(shop.ents) : shop.ents[i] \in Ent
    /\ \A i \in Positions(shop.addons) : shop.addons[i] \in [ent : Positions(shop.ents), back : Nat]
    /\ shop.comm \in [1..MaxEnts -> [amount : Nat, status : {"none", "pending", "paid", "reversed"}, rev : Nat]]
    /\ shop.terms \in Positions(Terms) /\ shop.cash \subseteq Users /\ shop.adj \in [Users -> Int]
    /\ \A f \in {"active", "bound", "gift", "codes", "expired", "renew"} : shop[f] \in BOOLEAN

Bonus(u) == shop.adj[u] + IF u \in shop.cash THEN CodeAmount ELSE 0

\* Whatever the order of payments, purchases, refunds, cancellations and
\* commission decisions, both wallets hold exactly what the records say: each
\* order credited once, each refund taken or given back once, each purchase paid
\* less its refunds, each commission less what was reversed (post and its callers).
Books ==
    /\ shop.wallet[Buyer] = Bonus(Buyer)
          + Total({o \in Orders : shop.order[o] \in PaidStates}, LAMBDA o : Amount[o])
          - Total(Orders, LAMBDA o : RefundsOf(shop, o, {"pending", "completed"}))
          - Total({i \in Positions(shop.ents) : shop.ents[i].bought}, LAMBDA i : shop.ents[i].price - shop.ents[i].back)
          - Total(Positions(shop.addons), LAMBDA i : Addon.price - shop.addons[i].back)
    /\ shop.wallet[Inviter] = Bonus(Inviter)
          + Total({i \in 1..MaxEnts : shop.comm[i].status = "paid"}, LAMBDA i : shop.comm[i].amount - shop.comm[i].rev)

\* Once an account is tracked, its sources hold exactly its balance (trackFunds,
\* restoreFunds): no debit the wallet allows fails for want of a source, and a
\* release never invents or loses money.
FundsMatch ==
    \A u \in shop.tracked : shop.wallet[u] = Total(Positions(shop.funds[u]), LAMBDA i : shop.funds[u][i].left)

\* An external refund returns the money of its own order: what it holds came
\* from that order's source, and the source still adds up to the order, so no
\* yuan is both refunded outside and spent on a purchase the buyer keeps.
OwnMoney ==
    \A i \in Positions(shop.funds[Buyer]) :
        LET f == shop.funds[Buyer][i]
            own == {j \in Positions(shop.funds[Buyer]) : shop.funds[Buyer][j].order # NoOrder}
        IN  /\ f.order # NoOrder => f.left + Total(Refs, LAMBDA ref : f.out[ref]) = Amount[f.order]
            /\ \A r \in Positions(shop.refunds) :
                  f.out[<<"refund", r>>] > 0 =>
                     \/ f.order = shop.refunds[r].order
                     \/ \A j \in own : shop.funds[Buyer][j].order # shop.refunds[r].order

\* An order never gives back more than was paid, refunds exist only for paid
\* orders, and its status says how much was returned (ResolveRefund).
OrdersSettled ==
    \A o \in Orders :
        LET done == RefundsOf(shop, o, {"completed"})
        IN  /\ RefundsOf(shop, o, {"pending", "completed"}) <= Amount[o]
            /\ shop.order[o] = "refunded" <=> done = Amount[o]
            /\ shop.order[o] = "partially_refunded" <=> done \in 1..(Amount[o] - 1)
            /\ shop.order[o] \in {"pending", "closed"} =>
                  \A r \in Positions(shop.refunds) : shop.refunds[r].order # o

\* However a purchase is refunded in parts, before or after its commission is
\* paid, the inviter keeps the share of the part that was not refunded, rounded
\* in one step (reversePurchaseCommission, ResolveCommission).
CommissionShare ==
    \A i \in Positions(shop.ents) :
        shop.comm[i].status \in {"pending", "paid"} =>
            shop.comm[i].rev = Fraction(shop.comm[i].amount, shop.ents[i].back, shop.ents[i].price)

\* No refund takes quota that leases hold: a finite quota covers what is allocated.
QuotaKept == \A i \in Positions(shop.ents) : shop.ents[i].quota # 0 => shop.ents[i].alloc <= shop.ents[i].quota

\* A finite plan that was refunded in full, with no add-on to it, has no quota
\* left to allocate (RefundPurchase removes it).
RefundTakesQuota ==
    \A i \in Positions(shop.ents) :
        LET e == shop.ents[i]
        IN  e.bought /\ e.full > 0 /\ e.price > 0 /\ e.back = e.price
            /\ (\A a \in Positions(shop.addons) : shop.addons[a].ent # i)
            => ~(e.quota = 0 \/ e.alloc < e.quota)
=============================================================================
