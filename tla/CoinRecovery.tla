---------------------------- MODULE CoinRecovery ----------------------------
(***************************************************************************)
(* The life of a coin: made for an address by a mint or a spend, found by  *)
(* the devices that scan the ledger with the right key, spent by one of    *)
(* them, and seen as spent by the others through its tag.                  *)
(*                                                                         *)
(* Group elements, hashes and ciphertexts are the terms they are computed  *)
(* from: two of them are equal when they are computed from the same.  The  *)
(* serial context is not part of a serialised coin; whoever reads a coin   *)
(* has to supply it.                                                       *)
(***************************************************************************)
EXTENDS Integers, Sequences, FiniteSets, FiniteSetsExt, Functions

CONSTANTS
  Devices, Keys, KeyOf,   (* several devices may hold the same key         *)
  Payments,               (* what coins are made for                       *)
  MaxMoney,               (* MAX_MONEY                                     *)
  MemoBytes,              (* get_memo_bytes()                              *)
  ChangeD,                (* SPARK_CHANGE_D                                *)
  MaxTxs                  (* bound: transactions on the ledger             *)

\* An address and what goes to it; a memo is its length.
Payment == [key : Keys, i : Nat, v : Nat, memo : Nat]

ASSUME RecoveryAssumption ==
  /\ KeyOf \in [Devices -> Keys]
  /\ Payments \subseteq Payment
  /\ MaxMoney \in Nat /\ MemoBytes \in 0 .. 255
  /\ ChangeD \in Nat /\ MaxTxs \in Nat

VARIABLES
  ledger,    (* transactions: context, tags, coins; and, unseen by anybody,
                which coins they spend and what their coins were made for  *)
  entries,   (* coins each device has recovered                            *)
  used,      (* coins each device has got back as usedCoins                *)
  hashed     (* tags each device has hashed                                *)

vars == <<ledger, entries, used, hashed>>

Txs == 1 .. Len(ledger)
AllTags == UNION {ledger[t].tags : t \in Txs}
AllSpent == UNION {ledger[t].spends : t \in Txs}

-----------------------------------------------------------------------------
(***************************************************************************)
(* Coins.                                                                  *)
(***************************************************************************)

\* Mutant of MemoFits: a memo is cut to its length byte only.
MemoFitsByte(memo) == memo <= 255

MemoFits(memo) == memo <= MemoBytes

\* The Coin constructor for a payment p: recovery key K, serial commitment S,
\* value commitment C, and the recipient data, encrypted under a key that the
\* recipient's s1 and K give again.
Coin(type, k, p, context) ==
  LET d == [key |-> p.key, i |-> p.i]
      K == [d |-> d, k |-> k]
  IN  [type |-> type, K |-> K,
       S |-> [k |-> k, context |-> context, key |-> p.key, i |-> p.i],
       C |-> [v |-> p.v, k |-> k],
       v |-> IF type = "mint" THEN p.v ELSE 0,
       r |-> [prekey |-> [key |-> p.key, K |-> K], additional |-> type,
              v |-> p.v, d |-> d, k |-> k, memo |-> p.memo]]

\* decrypt_and_verify of the recipient data, and its memo's length byte.
Decrypts(key, coin) ==
  /\ coin.r.prekey = [key |-> key, K |-> coin.K]
  /\ coin.r.additional = coin.type
  /\ MemoFits(coin.r.memo)

IdentifiedCoinData(coin) ==
  [d |-> coin.r.d, v |-> IF coin.type = "mint" THEN coin.v ELSE coin.r.v,
   k |-> coin.r.k, memo |-> coin.r.memo]

\* Mutant of validate: the value commitment is not looked at.
validateNoValue(key, coin, context, data) ==
  /\ coin.K = [d |-> data.d, k |-> data.k]
  /\ data.d.key = key
  /\ coin.S = [k |-> data.k, context |-> context, key |-> key, i |-> data.d.i]

\* Mutant of validate: the serial commitment is checked without the context.
validateAnyContext(key, coin, context, data) ==
  /\ coin.K = [d |-> data.d, k |-> data.k]
  /\ coin.C = [v |-> data.v, k |-> data.k]
  /\ data.d.key = key
  /\ [coin.S EXCEPT !.context = context]
       = [k |-> data.k, context |-> context, key |-> key, i |-> data.d.i]

\* A diversifier that another key encrypted decrypts to nothing.
validate(key, coin, context, data) ==
  /\ coin.K = [d |-> data.d, k |-> data.k]
  /\ coin.C = [v |-> data.v, k |-> data.k]
  /\ data.d.key = key
  /\ coin.S = [k |-> data.k, context |-> context, key |-> key, i |-> data.d.i]

\* The data of a coin that key identifies, if it does.
identify(key, coin, context) ==
  {data \in {IdentifiedCoinData(coin)} :
     Decrypts(key, coin) /\ validate(key, coin, context, data)}

\* The linking tag: a function of the serial number.
recover(key, context, data) ==
  [k |-> data.k, context |-> context, key |-> key, i |-> data.d.i]

\* idAndRecoverCoinByFullViewKey; nothing for a coin that is not ours.
idAndRecoverCoin(key, coin, context) ==
  {[coin |-> coin, context |-> context, value |-> data.v, memo |-> data.memo,
    diversifier |-> data.d.i, lTagHash |-> recover(key, context, data)] :
     data \in identify(key, coin, context)}

-----------------------------------------------------------------------------
(***************************************************************************)
(* Transactions.                                                           *)
(***************************************************************************)

\* A nonce is random, so it is new.
NewK(j) == <<Len(ledger) + 1, j>>

Post(context, tags, coins, spends, made) ==
  ledger' = Append(ledger,
    [context |-> context, tags |-> tags, coins |-> coins,
     spends |-> spends, made |-> made])

\* serializeMintContext of inputs nobody has spent before, then
\* createSparkMintRecipients with generate.
MintContext == [inputs |-> {Len(ledger) + 1}, tags |-> {}]

Mint(p) ==
  /\ Len(ledger) < MaxTxs
  /\ p.v <= MaxMoney /\ MemoFits(p.memo)
  /\ Post(MintContext, {}, <<Coin("mint", NewK(1), p, MintContext)>>, {}, <<p>>)
  /\ UNCHANGED <<entries, used, hashed>>

\* A coin made by other software that got one of its parts wrong.
Malformed(coin, flaw) ==
  CASE flaw = "value"    -> [coin EXCEPT !.r.v = @ + 1]
    [] flaw = "serial"   -> [coin EXCEPT !.S.i = @ + 1]
    [] flaw = "recovery" -> [coin EXCEPT !.K.k = NewK(2),
                                         !.r.prekey.K.k = NewK(2)]

PostMalformed(p, flaw) ==
  /\ Len(ledger) < MaxTxs /\ MemoFits(p.memo)
  /\ Post(MintContext, {},
          <<Malformed(Coin("spend", NewK(1), p, MintContext), flaw)>>, {}, <<>>)
  /\ UNCHANGED <<entries, used, hashed>>

\* The device offers a coin with some context of the ledger: the coin's own,
\* unless the two have been mixed up on the way.
Scan(dev, t, j, u) ==
  /\ entries' = [entries EXCEPT ![dev] = @ \cup
       idAndRecoverCoin(KeyOf[dev], ledger[t].coins[j], ledger[u].context)]
  /\ UNCHANGED <<ledger, used, hashed>>

\* hashTags: the tags of the ledger, to be compared with lTagHash.
HashTags(dev) ==
  /\ hashed' = [hashed EXCEPT ![dev] = AllTags]
  /\ UNCHANGED <<ledger, entries, used>>

Unspent(dev) ==
  {e \in entries[dev] : e.coin \notin used[dev] /\ e.lTagHash \notin hashed[dev]}

\* Mutant of getMetadata: setSerialContext is not called on the coin.
getMetadataNoContext(key, e) ==
  identify(key, e.coin, [inputs |-> {}, tags |-> {}])

\* toMintMetas identifies each coin of the device's list anew.
getMetadata(key, e) == identify(key, e.coin, e.context)

\* Mutant of InputTag: the tag is recovered from the coin of the cover set,
\* which has no context.
InputTagOfCoverSet(key, e, data) ==
  recover(key, [inputs |-> {}, tags |-> {}], data)

\* The tag of an input.
InputTag(key, e, data) == recover(key, e.context, data)

ListAccepted(dev) ==
  \A e \in Unspent(dev) : getMetadata(KeyOf[dev], e) # {}

\* What the coins of entries S are worth.
Worth(S) == MapThenSumSet(LAMBDA e : e.value, S)

\* Change goes back to the key's own change address.
Outputs(dev, S, p) ==
  IF Worth(S) > p.v
  THEN <<p, [key |-> KeyOf[dev], i |-> ChangeD, v |-> Worth(S) - p.v, memo |-> 0]>>
  ELSE <<p>>

\* createSparkSpendTransaction on the coins S, without a fee, and its
\* acceptance: a node refuses a tag it has seen.
Spend(dev, S, p) ==
  LET key     == KeyOf[dev]
      tags    == UNION {{InputTag(key, e, data) :
                           data \in getMetadata(key, e)} : e \in S}
      context == [inputs |-> {}, tags |-> tags]
      outs    == Outputs(dev, S, p)
  IN  /\ Len(ledger) < MaxTxs
      /\ ListAccepted(dev)
      /\ Worth(S) >= p.v /\ MemoFits(p.memo)
      /\ tags \cap AllTags = {}
      /\ Post(context, tags,
              [j \in 1 .. Len(outs) |-> Coin("spend", NewK(j), outs[j], context)],
              {e.coin : e \in S}, outs)
      /\ used' = [used EXCEPT ![dev] = @ \cup {e.coin : e \in S}]
      /\ UNCHANGED <<entries, hashed>>

-----------------------------------------------------------------------------
Flaws == {"value", "serial", "recovery"}

RecoveryInit ==
  /\ ledger = <<>>
  /\ entries = [dev \in Devices |-> {}]
  /\ used = [dev \in Devices |-> {}]
  /\ hashed = [dev \in Devices |-> {}]

RecoveryNext ==
  \/ \E p \in Payments : Mint(p)
  \/ \E p \in Payments, flaw \in Flaws : PostMalformed(p, flaw)
  \/ \E dev \in Devices :
       \/ HashTags(dev)
       \/ \E t \in Txs, u \in Txs : \E j \in DOMAIN ledger[t].coins :
            Scan(dev, t, j, u)
       \/ \E S \in SUBSET Unspent(dev) \ {{}}, p \in Payments : Spend(dev, S, p)

RecoverySpec == RecoveryInit /\ [][RecoveryNext]_vars

-----------------------------------------------------------------------------
\* Types: every memo this library writes fits its field and its length byte,
\* and devices only know of coins spent and tags seen on the ledger.
RecoveryTypeOK ==
  /\ Len(ledger) <= MaxTxs
  /\ \A t \in Txs : \A j \in DOMAIN ledger[t].coins :
       ledger[t].coins[j].r.memo \in 0 .. MemoBytes
  /\ \A dev \in Devices :
       /\ \A e \in entries[dev] : e.value \in Nat /\ e.memo \in 0 .. MemoBytes
       /\ used[dev] \subseteq AllSpent
       /\ hashed[dev] \subseteq AllTags

\* The payment a coin was made for, if it goes to key and was made properly.
MadeFor(t, j, key) ==
  {p \in {ledger[t].made[n] : n \in {j} \cap DOMAIN ledger[t].made} : p.key = key}

\* A coin this library made is found by the holders of the key it was made
\* for, with the amount, memo and diversifier it was made with, and by nobody
\* else; one that is wrong in any part is found by nobody
\* (idAndRecoverCoinByFullViewKey, Coin::identify, Coin::validate).
OnlyOwnerFinds ==
  \A t \in Txs : \A j \in DOMAIN ledger[t].coins, key \in Keys :
    {<<e.value, e.memo, e.diversifier>> :
       e \in idAndRecoverCoin(key, ledger[t].coins[j], ledger[t].context)}
    = {<<p.v, p.memo, p.i>> : p \in MadeFor(t, j, key)}

\* The tag hash a device stored when it found a coin, by whatever context it
\* was given, is on the ledger exactly when the coin has been spent, on this
\* device or on another: the tag recovered at the scan, the tag computed when
\* the coin is spent and the tag hashed from the ledger are the same.
SpentIsSeen ==
  \A dev \in Devices : \A e \in entries[dev] :
    e.lTagHash \in AllTags <=> e.coin \in AllSpent

\* What a device has recovered can be passed back: toMintMetas, which throws
\* at the first coin it cannot identify and takes the whole estimate or spend
\* with it, identifies every coin of the list with the context stored with it.
ListNeverRefused == \A dev \in Devices : ListAccepted(dev)

\* No coin is in a device's list twice, whatever it was offered and how
\* often: the contexts with which a coin is found give one entry.
NoCoinTwice ==
  \A dev \in Devices : \A e, f \in entries[dev] :
    e.coin = f.coin \/ e.lTagHash = f.lTagHash => e = f

=============================================================================
