------------------------------ MODULE MCClient ------------------------------
(***************************************************************************)
(* Parts of the client's worker, one after the other: the connection       *)
(* (ClientConn), the wallet's transactions (WalletTxs), pegs and swaps     *)
(* (PegSwap), the AMP session (AmpConn), the coins of an order (Coins) and *)
(* a payjoin (Payjoin).                                                    *)
(* `part' says which one a behaviour is of; all but the first keep their   *)
(* state in the same variables, while the connection stays as it was in    *)
(* the beginning.                                                          *)
(***************************************************************************)
EXTENDS ClientConn

CONSTANTS w1, w2, ConfCount, Amounts, Balance, NetFee, MinPegOut

MCWallets == {w1, w2}
MCRegChains == <<"external">>
MCNoChains == <<>>

TxSetups == {[ops |-> {"send", "receive", "evict"}, budget |-> 2, top |-> 3],
             [ops |-> {"receive", "evict"}, budget |-> 3, top |-> 3],
             [ops |-> {"send", "logout", "network"}, budget |-> 3, top |-> 2],
             [ops |-> {"accept", "payjoin", "logout", "network", "reconnect"}, budget |-> 2, top |-> 3]}
PegSetups == {[ops |-> {"peg_out", "coins"}, budget |-> 5, faults |-> 2],
              [ops |-> {"peg_in"}, budget |-> 2, faults |-> 2],
              [ops |-> {"swap"}, budget |-> 3, faults |-> 3],
              [ops |-> {"peg_out", "swap", "logout"}, budget |-> 4, faults |-> 1]}

(* Sorted coins, all together or the first or the last in another order;   *)
(* balances around the steps of the fee.                                   *)
Sorted(S, n) == {c \in [1..n -> S] : \A k \in 1..(n - 1) : c[k] <= c[k + 1]}
CoinWallets ==
    {[bitcoin |-> FALSE, coins |-> c, reserved |-> r \cap DOMAIN c, entered |-> 1..9] :
       c \in UNION {Sorted(1..4, n) : n \in 1..4}, r \in {{}, {1}, {2, 4}}}
    \cup {[bitcoin |-> TRUE, coins |-> <<b, 1500>>, reserved |-> r, entered |-> {b + 1500, b}] :
             b \in {1000} \cup 499498..499504 \cup 506503..506511, r \in {{}, {2}}}
TiesDown == {507500}

PayCoins == UNION {[1..n -> {9, 25}] : n \in 1..3}
FeeCoins == {<<300, 300>>, <<497>>, <<507, 1>>, <<300, 200, 20>>}

VARIABLES part, work, saved, outside, user, purse, done

T == INSTANCE WalletTxs WITH Setups <- TxSetups, w <- work, q <- saved, gdk <- outside, ui <- user, n <- done
P == INSTANCE PegSwap WITH Setups <- PegSetups, w <- work, file <- saved, srv <- outside, ui <- user,
                           wal <- purse, n <- done
M == INSTANCE AmpConn WITH MaxInputs <- 3, MaxFaults <- 2, a <- work, gdk <- outside, k <- done
C == INSTANCE Coins WITH Wallets <- CoinWallets, o <- work
J == INSTANCE Payjoin WITH ClientCoins <- PayCoins, ServerCoins <- FeeCoins, Prices <- {0, 1, 3},
                           FixedFees <- {0, 2}, j <- work

otherVars == <<work, saved, outside, user, purse, done>>
allVars == <<vars, otherVars, part>>

ClientInit ==
    /\ Init
    /\ \/ part = "conn" /\ work = 0 /\ saved = 0 /\ outside = 0 /\ user = 0 /\ purse = 0 /\ done = 0
       \/ part = "txs" /\ T!Init /\ purse = 0
       \/ part = "peg" /\ P!Init
       \/ part = "amp" /\ M!Init /\ saved = 0 /\ user = 0 /\ purse = 0
       \/ part = "coins" /\ C!Init /\ saved = 0 /\ outside = 0 /\ user = 0 /\ purse = 0 /\ done = 0
       \/ part = "payjoin" /\ J!Init /\ saved = 0 /\ outside = 0 /\ user = 0 /\ purse = 0 /\ done = 0

Of_conn(A) == part = "conn" /\ A /\ UNCHANGED <<otherVars, part>>
Of_txs(A) == part = "txs" /\ A /\ UNCHANGED <<vars, purse, part>>
Of_peg(A) == part = "peg" /\ A /\ UNCHANGED <<vars, part>>
Of_amp(A) == part = "amp" /\ A /\ UNCHANGED <<vars, saved, user, purse, part>>
Of_coins(A) == part = "coins" /\ A /\ UNCHANGED <<vars, saved, outside, user, purse, done, part>>
Of_payjoin(A) == part = "payjoin" /\ A /\ UNCHANGED <<vars, saved, outside, user, purse, done, part>>

ClientNext ==
    \/ Of_conn(Next) \/ Of_txs(T!Next) \/ Of_peg(P!Next)
    \/ Of_amp(M!Next) \/ Of_coins(C!Next) \/ Of_payjoin(J!Next)

ClientSpec ==
    /\ ClientInit /\ [][ClientNext]_allVars
    /\ WF_allVars(Of_conn(WsThread) \/ Of_txs(T!Worker) \/ Of_peg(P!Handlers) \/ Of_amp(M!Worker))
    /\ WF_allVars(Of_conn(\E r \in toServer : Server(r)) \/ Of_txs(T!Library) \/ Of_peg(P!Server) \/ Of_amp(M!Library))
    /\ WF_allVars(Of_conn(Worker))
-----------------------------------------------------------------------------
(* The shape of the state of each part; in WalletTxs also that no number   *)
(* of confirmations is negative, although a transaction is mined at a      *)
(* height the worker has not yet heard of.                                 *)
ClientTypeOK == TypeOK /\ (part = "txs" => T!TypeOK) /\ (part = "peg" => P!TypeOK)

(* A client with a wallet session is connected in the end, and every       *)
(* asynchronous request is answered or failed.                             *)
ConnSettles == Reconnects /\ CallbacksSettle

(* Whenever nothing is on its way, the user sees the wallet's transactions, *)
(* all of them and no others, of the wallet that is open.                  *)
TxsListIsCurrent == part = "txs" => T!ListIsCurrent

(* The user is told in the end of the transaction that was made, and never *)
(* of another one in its place.                                            *)
TxsSendsReported == [](part = "txs" => T!ReportIsOwn) /\ []<>(part = "txs" => T!SendReported)

(* A peg that was paid is in the saved settings, also after a kill, until  *)
(* the user logs out, and every saved peg is watched while there is a      *)
(* connection.                                                             *)
PegPaidPegsKept == part = "peg" => P!PaidPegsSaved /\ P!PegsWatched

(* A peg is paid once and with the amount the server was told, and a swap  *)
(* that was given up, by a time-out or a logout, is never signed.          *)
PegPaysAsAgreed == part = "peg" => P!PegPaysQuote /\ P!GivenUpNotSigned

(* The user is told how a swap or a peg ended, as long as no connection is *)
(* lost.                                                                   *)
PegWaitsEnd == []<>(part = "peg" => P!WaitEnded)

(* The AMP session the worker believes in is there, or its loss is still   *)
(* to be read, and requests that wait for the session are carried out.     *)
AmpRequestsServed == [](part = "amp" => M!FlagIsHonest) /\ []<>(part = "amp" => M!Served)

(* The coins selected for an order pay for it, none of them is spare, the  *)
(* selection never runs out of coins, and the whole balance can be         *)
(* swapped, but for a satoshi.                                             *)
CoinsPayForOrders == part = "coins" => C!EnoughNoMore /\ C!NeverShort /\ C!WholeBalanceFunded

(* A payjoin spends what its inputs hold, no difference wraps around, it   *)
(* costs the user what was shown, and is broadcast with all signatures.    *)
PayjoinAsShown == part = "payjoin" => J!Balanced /\ J!FeeAsShown /\ J!AllSigned
=============================================================================
