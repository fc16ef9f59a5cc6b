---------------------------- MODULE TradeLedger ----------------------------
(***************************************************************************)
(* What the engine's logs do to one market's rows: the handlers of         *)
(* src/chain/event-processor.service.ts from createMarket to               *)
(* onSeedRedeemed, and the share ledger of updatePosition, beside the      *)
(* engine contract they mirror.                                            *)
(*                                                                         *)
(* Each action is one engine transaction and the handler of its log, which *)
(* MarketIndexer delivers in chain order; the log is delivered once here   *)
(* (MarketIndexer shows what a replay adds).  The engine is external: its  *)
(* prices are not modelled, so a trade's cost is any amount that leaves    *)
(* the engine solvent.                                                     *)
(***************************************************************************)
EXTENDS Integers, FiniteSets, FiniteSetsExt, Functions

CONSTANTS
    Accounts,      \* execution accounts
    OutcomeCount,  \* market.outcomeCount
    SeedPerOutcome, SeedCost,  \* of MarketCreated
    Amounts,       \* bound: what a trade may cost or return
    MaxShares,     \* bound: shares of one trade
    MaxTrades,     \* bound: trades in a behaviour
    SqlNull        \* SQL NULL

Outcomes == 0..(OutcomeCount - 1)

PositionType == [shares : Nat, costBasis : Int, realizedPnl : Int, redeemed : BOOLEAN]
Statuses == {"TRADING", "RESOLVED", "INVALID"}

ASSUME LedgerAssumption ==
    /\ IsFiniteSet(Accounts)
    /\ SqlNull \notin PositionType \cup Statuses
    /\ OutcomeCount \in Nat \ {0, 1}
    /\ SeedPerOutcome \in Nat /\ SeedCost \in Nat /\ SeedCost >= SeedPerOutcome
    /\ Amounts \subseteq Nat /\ MaxShares \in Nat /\ MaxTrades \in Nat

VARIABLES
    \* the engine
    phase,       \* "none", "trading", "resolved", "void"
    winner,      \* the winning outcome
    balance,     \* balance[a][o]: shares an account holds
    collateral,  \* what the market holds
    claimed,     \* accounts that have redeemed
    seedClaimed,
    cash,        \* history: collateral an account has received less what it has paid
    trades,      \* bound counter
    \* the database
    status, winningOutcomeId, pot, surplus,
    currentShares,   \* currentShares[o]
    position         \* position[a][o]: a row, or SqlNull

engineVars == <<phase, winner, balance, collateral, claimed, seedClaimed, cash, trades>>
ledgerVars == <<engineVars, status, winningOutcomeId, pot, surplus, currentShares, position>>

Outstanding(b, o) == SeedPerOutcome + SumFunction([a \in Accounts |-> b[a][o]])

\* A market pays one unit per winning share, whichever outcome wins.  (External)
Solvent(b, c) == \A o \in Outcomes : c >= Outstanding(b, o)

-----------------------------------------------------------------------------
(***************************************************************************)
(* updatePosition                                                          *)
(***************************************************************************)
Row(shares, cost, pnl) == [shares |-> shares, costBasis |-> cost, realizedPnl |-> pnl, redeemed |-> FALSE]

BuyRow(row, shares, amount) ==
    IF row = SqlNull THEN Row(shares, amount, 0)
    ELSE [row EXCEPT !.shares = @ + shares, !.costBasis = @ + amount]

\* The share of the basis that leaves with the shares sold.
CostRemoved(oldCost, sold, oldShares) ==
    IF oldShares > 0 THEN (oldCost * sold) \div oldShares ELSE 0

\* Selling into an absent row books the proceeds as profit; shares never go below zero.
SellRow(row, shares, amount) ==
    IF row = SqlNull THEN Row(0, 0, amount)
    ELSE LET sold    == IF shares > row.shares THEN row.shares ELSE shares
             removed == CostRemoved(row.costBasis, sold, row.shares)
         IN  [row EXCEPT !.shares = @ - sold,
                         !.costBasis = @ - removed,
                         !.realizedPnl = @ + (amount - removed)]

\* A short credited to the outcome it names.
LegsOnShorted(shorted) == {shorted}
\* A short credits every outcome but the one it is against.
Legs(shorted) == Outcomes \ {shorted}

\* The basis split without the remainder on the last leg.
LegBasisFloor(i, shorted, cost) == cost \div Cardinality(Legs(shorted))
\* The cost split evenly, the remainder on the last leg.
LegBasis(i, shorted, cost) ==
    LET n == Cardinality(Legs(shorted)) IN
    IF i = Max(Legs(shorted)) THEN cost - (cost \div n) * (n - 1) ELSE cost \div n

-----------------------------------------------------------------------------
LedgerInit ==
    /\ phase = "none" /\ winner = 0 /\ collateral = 0 /\ trades = 0
    /\ balance = [a \in Accounts |-> [o \in Outcomes |-> 0]]
    /\ claimed = {} /\ seedClaimed = FALSE /\ cash = [a \in Accounts |-> 0]
    /\ status = SqlNull /\ winningOutcomeId = SqlNull /\ pot = 0 /\ surplus = 0
    /\ currentShares = [o \in Outcomes |-> 0]
    /\ position = [a \in Accounts |-> [o \in Outcomes |-> SqlNull]]

\* MarketCreated: the creator's seed is outstanding stock from the first block.
CreateMarket ==
    /\ phase = "none"
    /\ phase' = "trading" /\ collateral' = SeedCost
    /\ status' = "TRADING" /\ pot' = SeedCost
    /\ currentShares' = [o \in Outcomes |-> SeedPerOutcome]
    /\ UNCHANGED <<winner, balance, claimed, seedClaimed, cash, trades, winningOutcomeId, surplus, position>>

\* The engine settles a trade: shares move, collateral follows, and it stays solvent.
EngineTrade(a, b, paid) ==
    /\ phase = "trading" /\ trades < MaxTrades
    /\ collateral + paid >= 0 /\ Solvent(b, collateral + paid)
    /\ balance' = b
    /\ collateral' = collateral + paid
    /\ cash' = [cash EXCEPT ![a] = @ - paid]
    /\ trades' = trades + 1
    /\ UNCHANGED <<phase, winner, claimed, seedClaimed, status, winningOutcomeId, surplus>>

\* Bought, and onTrade with side BUY.
OnBought ==
    \E a \in Accounts, o \in Outcomes, shares \in 1..MaxShares, cost \in Amounts :
        /\ EngineTrade(a, [balance EXCEPT ![a][o] = @ + shares], cost)
        /\ pot' = pot + cost
        /\ currentShares' = [currentShares EXCEPT ![o] = @ + shares]
        /\ position' = [position EXCEPT ![a][o] = BuyRow(@, shares, cost)]

\* Sold, and onTrade with side SELL.
OnSold ==
    \E a \in Accounts, o \in Outcomes, shares \in 1..MaxShares, proceeds \in Amounts :
        /\ shares <= balance[a][o]
        /\ EngineTrade(a, [balance EXCEPT ![a][o] = @ - shares], -proceeds)
        /\ pot' = pot - proceeds
        /\ currentShares' = [currentShares EXCEPT ![o] = @ - shares]
        /\ position' = [position EXCEPT ![a][o] = SellRow(@, shares, proceeds)]

\* Shorted (buyComplement), and onShort.
OnShorted ==
    \E a \in Accounts, o \in Outcomes, shares \in 1..MaxShares, cost \in Amounts :
        /\ EngineTrade(a, [balance EXCEPT ![a] = [i \in Outcomes |-> IF i = o THEN @[i] ELSE @[i] + shares]], cost)
        /\ currentShares' = [i \in Outcomes |->
               IF i \in Legs(o) THEN currentShares[i] + shares ELSE currentShares[i]]
        /\ position' = [position EXCEPT ![a] = [i \in Outcomes |->
               IF i \in Legs(o) THEN BuyRow(@[i], shares, LegBasis(i, o, cost)) ELSE @[i]]]
        /\ pot' = pot + cost

\* MarketResolved(winner, owed, surplus), and onResolved: the pot becomes the liability.
OnResolved ==
    /\ phase = "trading"
    /\ \E w \in Outcomes :
          LET owed == Outstanding(balance, w) IN
          /\ phase' = "resolved" /\ winner' = w /\ collateral' = owed
          /\ status' = "RESOLVED" /\ winningOutcomeId' = w
          /\ pot' = owed /\ surplus' = collateral - owed
    /\ UNCHANGED <<balance, claimed, seedClaimed, cash, trades, currentShares, position>>

\* "Everyone refunds their cost basis" when a market is void.  (External)
Refund(a) == SumFunction([o \in Outcomes |-> IF position[a][o] = SqlNull THEN 0 ELSE position[a][o].costBasis])

\* MarketInvalidated(surplus), and onInvalidated: the pot is left as it was.
OnInvalidated ==
    /\ phase = "trading"
    /\ LET refunds == SumFunction([a \in Accounts |-> Refund(a)])
           swept   == IF refunds < collateral THEN collateral - refunds ELSE 0
       IN /\ phase' = "void" /\ collateral' = collateral - swept
          /\ status' = "INVALID" /\ surplus' = swept
    /\ UNCHANGED <<winner, balance, claimed, seedClaimed, cash, trades, winningOutcomeId, pot, currentShares, position>>

\* What an account that still holds shares is paid.  (External)
Holds(a) == \E o \in Outcomes : balance[a][o] > 0
Payout(a) == IF phase = "resolved" THEN balance[a][winner]
             ELSE IF Refund(a) < collateral THEN Refund(a) ELSE collateral

\* A row is closed and credited with the payout; no row is made for one.
CloseRow(row, payout) ==
    IF row = SqlNull THEN SqlNull
    ELSE [row EXCEPT !.redeemed = TRUE, !.realizedPnl = @ + payout]

\* onRedeem without the pot's decrement.
OnRedeemedKeepingPot ==
    \E a \in Accounts \ claimed : LET payout == Payout(a) IN
        /\ phase \in {"resolved", "void"} /\ Holds(a)
        /\ claimed' = claimed \cup {a}
        /\ collateral' = collateral - payout
        /\ cash' = [cash EXCEPT ![a] = @ + payout]
        /\ position' = [position EXCEPT ![a] = [o \in Outcomes |-> CloseRow(@[o], payout)]]
        /\ UNCHANGED <<pot, phase, winner, balance, seedClaimed, trades, status, winningOutcomeId, surplus, currentShares>>
\* Redeemed(account, amount), and onRedeem: every row of the account in the market is closed.
OnRedeemed ==
    \E a \in Accounts \ claimed : LET payout == Payout(a) IN
        /\ phase \in {"resolved", "void"} /\ Holds(a)
        /\ claimed' = claimed \cup {a}
        /\ collateral' = collateral - payout
        /\ cash' = [cash EXCEPT ![a] = @ + payout]
        /\ position' = [position EXCEPT ![a] = [o \in Outcomes |-> CloseRow(@[o], payout)]]
        /\ pot' = pot - payout
        /\ UNCHANGED <<phase, winner, balance, seedClaimed, trades, status, winningOutcomeId, surplus, currentShares>>

\* SeedRedeemed(creator, amount), and onSeedRedeemed: a void market pays the creator no seed, and
\* an amount of zero touches nothing.
OnSeedRedeemed ==
    /\ phase \in {"resolved", "void"} /\ ~seedClaimed
    /\ LET amount == IF phase = "resolved" THEN SeedPerOutcome ELSE 0 IN
          /\ collateral' = collateral - amount
          /\ pot' = IF amount = 0 THEN pot ELSE pot - amount
    /\ seedClaimed' = TRUE
    /\ UNCHANGED <<phase, winner, balance, claimed, cash, trades, status, winningOutcomeId, surplus, currentShares, position>>

LedgerNext == \/ CreateMarket \/ OnBought \/ OnSold \/ OnShorted
        \/ OnResolved \/ OnInvalidated \/ OnRedeemed \/ OnSeedRedeemed
LedgerSpec == LedgerInit /\ [][LedgerNext]_ledgerVars

-----------------------------------------------------------------------------
(***************************************************************************)
(* What the portfolio shows a settled position to be worth (markToMarket   *)
(* in src/positions/positions.service.ts).                                 *)
(***************************************************************************)
MarkToMarket(row, o) ==
    CASE row = SqlNull -> 0
      [] row # SqlNull /\ status = "RESOLVED" -> IF o = winningOutcomeId THEN row.shares ELSE 0
      [] row # SqlNull /\ status = "INVALID" -> row.costBasis

Unredeemed(row) == row # SqlNull /\ ~row.redeemed

-----------------------------------------------------------------------------
(***************************************************************************)
(* Properties                                                              *)
(***************************************************************************)
\* The types of the engine's state and of the market's rows.
LedgerTypeOK ==
    /\ phase \in {"none", "trading", "resolved", "void"} /\ winner \in Outcomes
    /\ balance \in [Accounts -> [Outcomes -> Nat]] /\ collateral \in Nat
    /\ claimed \subseteq Accounts /\ seedClaimed \in BOOLEAN
    /\ cash \in [Accounts -> Int] /\ trades \in 0..MaxTrades
    /\ status \in Statuses \cup {SqlNull} /\ winningOutcomeId \in Outcomes \cup {SqlNull}
    /\ pot \in Int /\ surplus \in Nat
    /\ currentShares \in [Outcomes -> Nat]
    /\ position \in [Accounts -> [Outcomes -> PositionType \cup {SqlNull}]]

RowShares(row) == IF row = SqlNull THEN 0 ELSE row.shares

\* The share ledger agrees with the engine, account by account, and each outcome's currentShares
\* is the seed plus everybody's positions: buys, sells and the fan-out of shorts move both alike.
HoldingsMirrored ==
    status # SqlNull =>
        /\ \A a \in Accounts, o \in Outcomes : RowShares(position[a][o]) = balance[a][o]
        /\ \A o \in Outcomes : currentShares[o] = Outstanding(balance, o)

\* What the portfolio shows the unredeemed positions to be worth, and the creator's seed.
Worth(a) == SumFunction([o \in Outcomes |->
    IF Unredeemed(position[a][o]) THEN MarkToMarket(position[a][o], o) ELSE 0])
Liability ==
    SumFunction([a \in Accounts |-> Worth(a)])
    + (IF seedClaimed THEN 0 ELSE SeedPerOutcome)

\* Market.pot is the collateral the market holds, through trading, resolution and redemptions, and
\* after resolution "the outstanding liability and nothing else"; an invalidated market's pot still
\* counts the surplus that the engine swept (onInvalidated leaves it).
PotIsCollateral ==
    /\ pot = collateral + (IF status = "INVALID" THEN surplus ELSE 0)
    /\ status = "RESOLVED" => pot = Liability

Booked(row) == IF row = SqlNull THEN 0 ELSE row.realizedPnl - row.costBasis

\* An account's rows account for its cash: realised profit less the basis still held is what it
\* has received less what it has paid, to the unit, whatever a sell or a short's split rounded; and the
\* basis a sell removes never exceeds what is there, nor is any left when the last share goes.
BasisAccountsForCash ==
    /\ status = "TRADING" =>
          \A a \in Accounts : cash[a] = SumFunction([o \in Outcomes |-> Booked(position[a][o])])
    /\ \A a \in Accounts, o \in Outcomes :
          position[a][o] # SqlNull =>
              /\ position[a][o].costBasis >= 0
              /\ position[a][o].shares = 0 => position[a][o].costBasis = 0
=============================================================================
