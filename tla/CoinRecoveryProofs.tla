------------------------- MODULE CoinRecoveryProofs -------------------------
(***************************************************************************)
(* The safety properties of CoinRecovery, for any number of devices, keys  *)
(* and transactions.                                                       *)
(***************************************************************************)
EXTENDS CoinRecovery, AmountsProofs, SequenceTheorems

-----------------------------------------------------------------------------
(***************************************************************************)
(* What entries are worth.                                                 *)
(***************************************************************************)

\* The sum that Worth is.
LEMMA WorthNat ==
  ASSUME NEW S, IsFiniteSet(S), \A e \in S : e.value \in Nat
  PROVE  Worth(S) \in Nat
<1> DEFINE pick == [s \in SUBSET S |-> CHOOSE x \in s : TRUE]
           next == [x \in S |-> [v \in Nat |-> x.value + v]]
           Sums(g) == g = [s \in SUBSET S |->
                             IF s = {} THEN 0
                             ELSE (CHOOSE x \in s : TRUE).value
                                    + g[s \ {CHOOSE x \in s : TRUE}]]
<1>1. /\ \A s \in SUBSET S : s # {} => pick[s] \in s
      /\ next \in [S -> [Nat -> Nat]]
  OBVIOUS
<1>2. PICK g \in [SUBSET S -> Nat] : IsFold(S, 0, pick, next, g)
  <2> HIDE DEF pick, next
  <2> QED BY <1>1, FoldExists
<1>3. Sums(g)
  <2>1. ASSUME NEW s \in SUBSET S, s # {}
        PROVE  g[s] = (CHOOSE x \in s : TRUE).value + g[s \ {CHOOSE x \in s : TRUE}]
    <3>1. g[s] = next[pick[s]][g[s \ {pick[s]}]]
      BY <1>2, <2>1 DEF IsFold
    <3>2. pick[s] \in S /\ g[s \ {pick[s]}] \in Nat
      BY <1>1, <2>1
    <3> QED BY <3>1, <3>2
  <2>2. g[{}] = 0
    BY <1>2 DEF IsFold
  <2> QED BY <2>1, <2>2
<1> DEFINE sum == CHOOSE h : Sums(h)
<1>4. Sums(sum)
  BY <1>3, Zenon
<1>5. Worth(S) = sum[S]
  BY Zenon DEF Worth, MapThenSumSet, MapThenFoldSet
<1> DEFINE H == {s \in SUBSET S : sum[s] \in Nat}
<1>6. SUBSET S \subseteq H
  <2>1. {} \in H
    <3> HIDE DEF sum
    <3> QED BY <1>4
  <2>2. ASSUME NEW s \in SUBSET S, s # {}, sum[s \ {pick[s]}] \in Nat
        PROVE  sum[s] \in Nat
    <3> HIDE DEF sum
    <3>1. sum[s] = pick[s].value + sum[s \ {pick[s]}]
      BY <1>4, <2>2
    <3>2. pick[s].value \in Nat
      BY <1>1, <2>2
    <3> HIDE DEF pick
    <3> QED BY <2>2, <3>1, <3>2
  <2>3. \A s \in SUBSET S : s # {} /\ s \ {pick[s]} \in H => s \in H
    <3> HIDE DEF pick, sum
    <3> QED BY <2>2
  <2>4. FoldClosed(S, pick, H)
    BY <1>1, <2>1, <2>3, Zenon DEF FoldClosed
  <2> HIDE DEF pick, H
  <2> QED BY <2>4, FoldInduction
<1> QED BY <1>5, <1>6

-----------------------------------------------------------------------------
(***************************************************************************)
(* Coins.                                                                  *)
(***************************************************************************)

\* What a device keeps of a coin that is found: everything in it is in the
\* coin, and the tag is a function of the serial commitment.
EntryOf(coin) ==
  [coin |-> coin, context |-> coin.S.context, value |-> coin.C.v,
   memo |-> coin.r.memo, diversifier |-> coin.S.i, lTagHash |-> coin.S]

DataOf(k, p) == [d |-> [key |-> p.key, i |-> p.i], v |-> p.v, k |-> k, memo |-> p.memo]

\* The parts of a coin made of these.
MadeOf(c, type, k, p, context) ==
  /\ c.type = type
  /\ c.K = [d |-> [key |-> p.key, i |-> p.i], k |-> k]
  /\ c.S = [k |-> k, context |-> context, key |-> p.key, i |-> p.i]
  /\ c.C = [v |-> p.v, k |-> k]
  /\ c.v = IF type = "mint" THEN p.v ELSE 0
  /\ c.r.prekey = [key |-> p.key, K |-> c.K]
  /\ c.r.additional = type /\ c.r.v = p.v /\ c.r.memo = p.memo /\ c.r.k = k
  /\ c.r.d = [key |-> p.key, i |-> p.i]

LEMMA CoinParts ==
  ASSUME NEW type, NEW k, NEW p, NEW context
  PROVE  MadeOf(Coin(type, k, p, context), type, k, p, context)
BY DEF Coin, MadeOf

\* A coin is identified by its key in its context, as what it was made of, and
\* by no other key and in no other context.
LEMMA CoinIdentified ==
  ASSUME NEW type, NEW k, NEW p, NEW context, NEW c, MadeOf(c, type, k, p, context),
         MemoFits(p.memo), NEW key, NEW u
  PROVE  identify(key, c, u) =
           IF key = p.key /\ u = context THEN {DataOf(k, p)} ELSE {}
<1>1. IdentifiedCoinData(c) = DataOf(k, p)
  BY DEF MadeOf, IdentifiedCoinData, DataOf
<1>2. Decrypts(key, c) <=> key = p.key
  <2>1. c.r.prekey = [key |-> key, K |-> c.K] <=> key = p.key
    BY DEF MadeOf
  <2> QED BY <2>1 DEF Decrypts, MadeOf
<1>3. validate(key, c, u, DataOf(k, p)) <=> key = p.key /\ u = context
  <2>1. c.S = [k |-> k, context |-> u, key |-> key, i |-> p.i]
           <=> u = context /\ key = p.key
    BY DEF MadeOf
  <2>2. /\ c.K = [d |-> DataOf(k, p).d, k |-> DataOf(k, p).k]
        /\ c.C = [v |-> DataOf(k, p).v, k |-> DataOf(k, p).k]
        /\ DataOf(k, p).d.key = p.key /\ DataOf(k, p).d.i = p.i /\ DataOf(k, p).k = k
    BY DEF DataOf, MadeOf
  <2> QED BY <2>1, <2>2 DEF validate
<1> HIDE DEF DataOf
<1> QED BY <1>1, <1>2, <1>3 DEF identify

\* So it is recovered, as its entry.
LEMMA CoinRecovered ==
  ASSUME NEW type, NEW k, NEW p, NEW context, NEW c, MadeOf(c, type, k, p, context),
         MemoFits(p.memo), NEW key, NEW u
  PROVE  idAndRecoverCoin(key, c, u) =
           IF key = p.key /\ u = context THEN {EntryOf(c)} ELSE {}
<1>1. CASE key = p.key /\ u = context
  <2>1. identify(key, c, u) = {DataOf(k, p)}
    BY <1>1, CoinIdentified
  <2>2. recover(key, u, DataOf(k, p)) = c.S
    BY <1>1 DEF MadeOf, recover, DataOf
  <2>3. /\ DataOf(k, p).v = c.C.v /\ DataOf(k, p).memo = c.r.memo
        /\ DataOf(k, p).d.i = c.S.i /\ u = c.S.context
    BY <1>1 DEF MadeOf, DataOf
  <2> HIDE DEF DataOf
  <2>4. idAndRecoverCoin(key, c, u) =
          {[coin |-> c, context |-> u, value |-> DataOf(k, p).v,
            memo |-> DataOf(k, p).memo, diversifier |-> DataOf(k, p).d.i,
            lTagHash |-> recover(key, u, DataOf(k, p))]}
    BY <2>1 DEF idAndRecoverCoin
  <2> QED BY <1>1, <2>2, <2>3, <2>4 DEF EntryOf
<1>2. CASE ~(key = p.key /\ u = context)
  <2>1. identify(key, c, u) = {}
    BY <1>2, CoinIdentified
  <2> QED BY <1>2, <2>1 DEF idAndRecoverCoin
<1> QED BY <1>1, <1>2

\* A malformed coin is identified by nobody.
LEMMA MalformedUnidentified ==
  ASSUME NEW p \in Payment, NEW context, NEW flaw \in Flaws, NEW key, NEW u, NEW c,
         c = Malformed(Coin("spend", NewK(1), p, context), flaw)
  PROVE  identify(key, c, u) = {} /\ c.r.memo = p.memo
<1> DEFINE k == NewK(1)
           m == Coin("spend", k, p, context)
<1>1. NewK(1) # NewK(2)
  BY DEF NewK
<1>2. CASE flaw = "value"
  <2>1. c = [m EXCEPT !.r.v = @ + 1]
    BY <1>2, Zenon DEF Malformed
  <2>2. c.type = "spend" /\ c.r.v = p.v + 1 /\ c.C = [v |-> p.v, k |-> k] /\ c.r.memo = p.memo
    BY <2>1 DEF Coin
  <2>3. p.v + 1 # p.v
    BY DEF Payment
  <2>4. c.C.v # IdentifiedCoinData(c).v
    BY <2>2, <2>3 DEF IdentifiedCoinData
  <2> QED BY <2>2, <2>4 DEF identify, validate
<1>3. CASE flaw = "serial"
  <2>1. c = [m EXCEPT !.S.i = @ + 1]
    BY <1>3, Zenon DEF Malformed
  <2>2. c.S.i = p.i + 1 /\ c.r.d.i = p.i /\ c.r.memo = p.memo
    BY <2>1 DEF Coin
  <2>3. p.i + 1 # p.i
    BY DEF Payment
  <2>4. c.S.i # IdentifiedCoinData(c).d.i
    BY <2>2, <2>3 DEF IdentifiedCoinData
  <2> QED BY <2>2, <2>4 DEF identify, validate
<1>4. CASE flaw = "recovery"
  <2>1. c = [m EXCEPT !.K.k = NewK(2), !.r.prekey.K.k = NewK(2)]
    BY <1>4, Zenon DEF Malformed
  <2>2. c.K.k = NewK(2) /\ c.r.k = NewK(1) /\ c.r.memo = p.memo
    <3> DEFINE K == [m.K EXCEPT !.k = NewK(2)]
               r == [m.r EXCEPT !.prekey.K.k = NewK(2)]
    <3>1. m = [type |-> m.type, K |-> m.K, S |-> m.S, C |-> m.C, v |-> m.v, r |-> m.r]
      BY DEF Coin
    <3>2. K.k = NewK(2)
      BY DEF Coin
    <3>3. r.k = NewK(1) /\ r.memo = p.memo
      BY DEF Coin
    <3>4. c.K = K /\ c.r = r
      <4> HIDE DEF m
      <4> QED BY <2>1, <3>1
    <3> HIDE DEF K, r
    <3> QED BY <3>2, <3>3, <3>4
  <2>4. c.K.k # IdentifiedCoinData(c).k
    BY <1>1, <2>2 DEF IdentifiedCoinData
  <2> QED BY <2>2, <2>4 DEF identify, validate
<1> QED BY <1>2, <1>3, <1>4 DEF Flaws

-----------------------------------------------------------------------------
(***************************************************************************)
(* The inductive invariant.                                                *)
(***************************************************************************)

\* The coins of transaction t that were made properly; the others, which
\* nobody identifies, are in no list.
TxInOrder(tx, t) ==
  /\ DOMAIN tx.made \subseteq DOMAIN tx.coins
  /\ \A j \in DOMAIN tx.coins : tx.coins[j].r.memo \in 0 .. MemoBytes
  /\ \A j \in DOMAIN tx.made :
       /\ tx.made[j] \in Payment /\ MemoFits(tx.made[j].memo)
       /\ \E type \in {"mint", "spend"} :
            MadeOf(tx.coins[j], type, <<t, j>>, tx.made[j], tx.context)
  /\ \A j \in DOMAIN tx.coins \ DOMAIN tx.made :
       \A key \in Keys : \A u : identify(key, tx.coins[j], u) = {}

LedgerInOrder ==
  /\ ledger \in Seq(Range(ledger)) /\ Len(ledger) <= MaxTxs
  /\ \A t \in Txs : TxInOrder(ledger[t], t)

\* Coin j of transaction t was made for key.
IsFor(key, t, j) ==
  t \in Txs /\ j \in DOMAIN ledger[t].made /\ ledger[t].made[j].key = key

\* A device has entries of properly made coins of its key only.
EntriesInOrder ==
  /\ DOMAIN entries = Devices
  /\ \A dev \in Devices :
       /\ IsFiniteSet(entries[dev])
       /\ \A e \in entries[dev] : \E t, j :
            IsFor(KeyOf[dev], t, j) /\ e = EntryOf(ledger[t].coins[j])

\* What is spent was properly made, and its serial commitments are the tags.
TagsInOrder ==
  \A t \in Txs :
    /\ ledger[t].tags = {c.S : c \in ledger[t].spends}
    /\ \A c \in ledger[t].spends : \E key \in Keys : \E n, j :
         IsFor(key, n, j) /\ c = ledger[n].coins[j]

DevicesInOrder ==
  /\ used \in [Devices -> SUBSET AllSpent]
  /\ hashed \in [Devices -> SUBSET AllTags]

RecoveryInv == LedgerInOrder /\ EntriesInOrder /\ TagsInOrder /\ DevicesInOrder

LEMMA RecoveryInitInv == RecoveryInit => RecoveryInv
<1> SUFFICES ASSUME RecoveryInit PROVE RecoveryInv
  OBVIOUS
<1>1. /\ Len(ledger) = 0 /\ Txs = {} /\ ledger \in Seq(Range(ledger))
  BY DEF RecoveryInit, Txs
<1>2. LedgerInOrder /\ TagsInOrder
  BY <1>1, RecoveryAssumption DEF LedgerInOrder, TagsInOrder
<1>3. EntriesInOrder
  BY FS_EmptySet DEF RecoveryInit, EntriesInOrder
<1>4. DevicesInOrder
  BY DEF RecoveryInit, DevicesInOrder
<1> QED BY <1>2, <1>3, <1>4 DEF RecoveryInv

-----------------------------------------------------------------------------
(***************************************************************************)
(* A new transaction.                                                      *)
(***************************************************************************)

\* The ledger of n transactions is extended by one.
Extends(n, tx) ==
  /\ n \in Nat /\ Len(ledger') = n + 1 /\ Txs = 1 .. n /\ Txs' = 1 .. n + 1
  /\ ledger' \in Seq(Range(ledger')) /\ Len(ledger') <= MaxTxs
  /\ \A t \in 1 .. n : ledger'[t] = ledger[t]
  /\ ledger'[n + 1] = tx

\* The ledger after Post.
LEMMA PostFacts ==
  ASSUME RecoveryInv, NEW context, NEW tags, NEW coins, NEW spends, NEW made,
         Post(context, tags, coins, spends, made), Len(ledger) < MaxTxs
  PROVE  Extends(Len(ledger), [context |-> context, tags |-> tags, coins |-> coins,
                               spends |-> spends, made |-> made])
<1> DEFINE n == Len(ledger)
           tx == [context |-> context, tags |-> tags, coins |-> coins,
                  spends |-> spends, made |-> made]
           R == Range(ledger) \cup {tx}
<1>1. ledger' = Append(ledger, tx)
  BY DEF Post
<1>2. ledger \in Seq(R) /\ tx \in R /\ n \in Nat
  BY LenProperties DEF RecoveryInv, LedgerInOrder
<1> HIDE DEF tx, R
<1>3. /\ ledger' \in Seq(R) /\ Len(ledger') = n + 1 /\ ledger'[n + 1] = tx
      /\ \A t \in 1 .. n : ledger'[t] = ledger[t]
  BY <1>1, <1>2, AppendProperties
<1>4. ledger' \in Seq(Range(ledger'))
  BY <1>3, <1>2 DEF Range
<1>5. Len(ledger') <= MaxTxs
  BY <1>2, <1>3, RecoveryAssumption
<1> QED BY <1>2, <1>3, <1>4, <1>5 DEF Txs, tx, Extends

\* Post keeps the invariant when the new transaction is in order.
LEMMA PostInv ==
  ASSUME RecoveryInv, NEW context, NEW tags, NEW coins, NEW spends, NEW made,
         Post(context, tags, coins, spends, made), Len(ledger) < MaxTxs,
         TxInOrder([context |-> context, tags |-> tags, coins |-> coins,
                    spends |-> spends, made |-> made], Len(ledger) + 1),
         tags = {c.S : c \in spends},
         \A c \in spends : \E key \in Keys : \E n, j :
            IsFor(key, n, j) /\ c = ledger[n].coins[j],
         UNCHANGED <<entries, hashed>>,
         used' \in [Devices -> SUBSET (AllSpent \cup spends)]
  PROVE  RecoveryInv'
<1> DEFINE n == Len(ledger)
<1>1. /\ n \in Nat /\ Len(ledger') = n + 1 /\ Txs = 1 .. n /\ Txs' = 1 .. n + 1
      /\ ledger' \in Seq(Range(ledger')) /\ Len(ledger') <= MaxTxs
      /\ \A t \in 1 .. n : ledger'[t] = ledger[t]
      /\ ledger'[n + 1] = [context |-> context, tags |-> tags, coins |-> coins,
                           spends |-> spends, made |-> made]
  <2>1. Extends(n, [context |-> context, tags |-> tags, coins |-> coins,
                    spends |-> spends, made |-> made])
    BY PostFacts
  <2> QED BY <2>1 DEF Extends
<1> HIDE DEF n
<1>2. LedgerInOrder'
  <2>1. \A t \in 1 .. n + 1 : t \in 1 .. n \/ t = n + 1
    BY <1>1
  <2>2. \A t \in 1 .. n + 1 : TxInOrder(ledger'[t], t)
    BY <1>1, <2>1 DEF n, RecoveryInv, LedgerInOrder
  <2>3. (\A t \in Txs : TxInOrder(ledger[t], t))'
    BY <1>1, <2>2 DEF TxInOrder
  <2> QED BY <1>1, <2>3 DEF LedgerInOrder
<1>3. \A key, t, j : IsFor(key, t, j) =>
        IsFor(key, t, j)' /\ ledger'[t].coins = ledger[t].coins
  BY <1>1 DEF IsFor
<1>4. EntriesInOrder'
  <2>1. ASSUME NEW dev \in Devices, NEW e \in entries[dev]
        PROVE  \E t, j : IsFor(KeyOf[dev], t, j)' /\ e = EntryOf(ledger'[t].coins[j])
    <3>1. PICK t, j : IsFor(KeyOf[dev], t, j) /\ e = EntryOf(ledger[t].coins[j])
      BY DEF RecoveryInv, EntriesInOrder
    <3> QED BY <1>3, <3>1
  <2> QED BY <2>1, Zenon DEF RecoveryInv, EntriesInOrder
<1>5. TagsInOrder'
  <2> SUFFICES ASSUME NEW t \in 1 .. n + 1
               PROVE  /\ ledger'[t].tags = {c.S : c \in ledger'[t].spends}
                      /\ \A c \in ledger'[t].spends : \E key \in Keys : \E m, j :
                           IsFor(key, m, j)' /\ c = ledger'[m].coins[j]
    BY <1>1, Zenon DEF TagsInOrder
  <2>1. /\ ledger'[t].tags = {c.S : c \in ledger'[t].spends}
        /\ \A c \in ledger'[t].spends : \E key \in Keys : \E m, j :
             IsFor(key, m, j) /\ c = ledger[m].coins[j]
    <3>1. CASE t \in 1 .. n
      BY <1>1, <3>1 DEF RecoveryInv, TagsInOrder
    <3>2. CASE t = n + 1
      BY <1>1, <3>2
    <3> QED BY <1>1, <3>1, <3>2
  <2> QED BY <1>3, <2>1
<1>6. AllSpent' = AllSpent \cup spends /\ AllTags \subseteq AllTags'
  <2>1. AllSpent' = AllSpent \cup spends
    BY <1>1 DEF AllSpent
  <2>2. AllTags \subseteq AllTags'
    BY <1>1 DEF AllTags
  <2> QED BY <2>1, <2>2
<1>7. DevicesInOrder'
  BY <1>6 DEF RecoveryInv, DevicesInOrder
<1> QED BY <1>2, <1>4, <1>5, <1>7 DEF RecoveryInv

\* An element of a one-element list.
LEMMA OneOnly ==
  ASSUME NEW x
  PROVE  DOMAIN <<x>> = {1} /\ <<x>>[1] = x
OBVIOUS

LEMMA MintInv == ASSUME RecoveryInv, NEW p \in Payments, Mint(p) PROVE RecoveryInv'
<1> DEFINE c == Coin("mint", NewK(1), p, MintContext)
           tx == [context |-> MintContext, tags |-> {}, coins |-> <<c>>,
                  spends |-> {}, made |-> <<p>>]
<1>1. /\ Len(ledger) < MaxTxs /\ MemoFits(p.memo) /\ p \in Payment
      /\ Post(MintContext, {}, <<c>>, {}, <<p>>)
      /\ UNCHANGED <<entries, used, hashed>>
  BY RecoveryAssumption DEF Mint
<1>2. MadeOf(c, "mint", <<Len(ledger) + 1, 1>>, p, MintContext)
  BY CoinParts DEF NewK
<1>3. c.r.memo \in 0 .. MemoBytes
  BY <1>1, <1>2, RecoveryAssumption DEF MadeOf, MemoFits, Payment
<1>4. TxInOrder(tx, Len(ledger) + 1)
  <2> HIDE DEF c
  <2> QED BY <1>1, <1>2, <1>3, OneOnly DEF TxInOrder
<1>5. used' \in [Devices -> SUBSET (AllSpent \cup {})]
  BY <1>1 DEF RecoveryInv, DevicesInOrder
<1>6. UNCHANGED <<entries, hashed>> /\ {} = {d.S : d \in {}}
  BY <1>1
<1> HIDE DEF c
<1> QED BY <1>1, <1>4, <1>5, <1>6, PostInv

LEMMA PostMalformedInv ==
  ASSUME RecoveryInv, NEW p \in Payments, NEW flaw \in Flaws, PostMalformed(p, flaw)
  PROVE  RecoveryInv'
<1> DEFINE c == Malformed(Coin("spend", NewK(1), p, MintContext), flaw)
           tx == [context |-> MintContext, tags |-> {}, coins |-> <<c>>,
                  spends |-> {}, made |-> <<>>]
<1>1. /\ Len(ledger) < MaxTxs /\ MemoFits(p.memo) /\ p \in Payment
      /\ Post(MintContext, {}, <<c>>, {}, <<>>)
      /\ UNCHANGED <<entries, used, hashed>>
  BY RecoveryAssumption DEF PostMalformed
<1>2. c.r.memo = p.memo /\ \A key \in Keys : \A u : identify(key, c, u) = {}
  BY <1>1, MalformedUnidentified
<1>3. c.r.memo \in 0 .. MemoBytes
  BY <1>1, <1>2, RecoveryAssumption DEF MemoFits, Payment
<1>4. TxInOrder(tx, Len(ledger) + 1)
  <2>1. DOMAIN <<>> = {}
    OBVIOUS
  <2> HIDE DEF c
  <2> QED BY <1>2, <1>3, <2>1, OneOnly DEF TxInOrder
<1>5. used' \in [Devices -> SUBSET (AllSpent \cup {})]
  BY <1>1 DEF RecoveryInv, DevicesInOrder
<1>6. UNCHANGED <<entries, hashed>> /\ {} = {d.S : d \in {}}
  BY <1>1
<1> HIDE DEF c
<1> QED BY <1>1, <1>4, <1>5, <1>6, PostInv

-----------------------------------------------------------------------------
(***************************************************************************)
(* The devices.                                                            *)
(***************************************************************************)

\* A scan finds nothing, or the entry of a coin made for the device's key.
FindsOwn(key, t, j, u) ==
  idAndRecoverCoin(key, ledger[t].coins[j], u) =
    IF IsFor(key, t, j) /\ u = ledger[t].context THEN {EntryOf(ledger[t].coins[j])} ELSE {}

LEMMA ScanFinds ==
  ASSUME RecoveryInv, NEW key \in Keys, NEW t \in Txs, NEW j \in DOMAIN ledger[t].coins,
         NEW u
  PROVE  FindsOwn(key, t, j, u)
<1> DEFINE tx == ledger[t]
           c == ledger[t].coins[j]
<1>1. TxInOrder(tx, t)
  BY DEF RecoveryInv, LedgerInOrder
<1>2. CASE j \in DOMAIN tx.made
  <2>1. PICK type \in {"mint", "spend"} : MadeOf(c, type, <<t, j>>, tx.made[j], tx.context)
    BY <1>1, <1>2 DEF TxInOrder
  <2>2. MemoFits(tx.made[j].memo)
    BY <1>1, <1>2 DEF TxInOrder
  <2>3. idAndRecoverCoin(key, c, u) =
          IF key = tx.made[j].key /\ u = tx.context THEN {EntryOf(c)} ELSE {}
    BY <2>1, <2>2, CoinRecovered
  <2> QED BY <1>2, <2>3 DEF IsFor, FindsOwn
<1>3. CASE j \notin DOMAIN tx.made
  <2>1. identify(key, c, u) = {}
    BY <1>1, <1>3 DEF TxInOrder
  <2>2. idAndRecoverCoin(key, c, u) = {}
    BY <2>1 DEF idAndRecoverCoin
  <2> QED BY <1>3, <2>2 DEF IsFor, FindsOwn
<1> QED BY <1>2, <1>3

\* Steps that post nothing.
LEMMA NothingPosted ==
  ASSUME RecoveryInv, UNCHANGED ledger
  PROVE  /\ LedgerInOrder' /\ TagsInOrder'
         /\ AllTags' = AllTags /\ AllSpent' = AllSpent
         /\ entries' = entries => EntriesInOrder'
<1>1. Txs' = Txs
  BY DEF Txs
<1>2. AllTags' = AllTags /\ AllSpent' = AllSpent
  BY <1>1 DEF AllTags, AllSpent
<1>3. LedgerInOrder'
  <2>1. \A t \in Txs' : TxInOrder(ledger'[t], t)
    BY <1>1 DEF RecoveryInv, LedgerInOrder
  <2>2. (\A t \in Txs : TxInOrder(ledger[t], t))'
    BY <2>1 DEF TxInOrder
  <2> QED BY <2>2 DEF RecoveryInv, LedgerInOrder, Range
<1>4. \A key, t, j : IsFor(key, t, j)' = IsFor(key, t, j)
  BY <1>1 DEF IsFor
<1>5. TagsInOrder'
  <2>1. \A t \in Txs :
          /\ ledger'[t].tags = {c.S : c \in ledger'[t].spends}
          /\ \A c \in ledger'[t].spends : \E key \in Keys : \E n, j :
               IsFor(key, n, j)' /\ c = ledger'[n].coins[j]
    BY <1>4 DEF RecoveryInv, TagsInOrder
  <2> QED BY <1>1, <2>1, Zenon DEF TagsInOrder
<1>6. ASSUME entries' = entries PROVE EntriesInOrder'
  <2>1. \A dev \in Devices :
          /\ IsFiniteSet(entries'[dev])
          /\ \A e \in entries'[dev] : \E t, j :
               IsFor(KeyOf[dev], t, j)' /\ e = EntryOf(ledger'[t].coins[j])
    BY <1>4, <1>6 DEF RecoveryInv, EntriesInOrder
  <2> QED BY <1>6, <2>1, Zenon DEF RecoveryInv, EntriesInOrder
<1> QED BY <1>2, <1>3, <1>5, <1>6

LEMMA ScanInv ==
  ASSUME RecoveryInv, NEW dev \in Devices, NEW t \in Txs, NEW u \in Txs,
         NEW j \in DOMAIN ledger[t].coins, Scan(dev, t, j, u)
  PROVE  RecoveryInv'
<1> DEFINE found == idAndRecoverCoin(KeyOf[dev], ledger[t].coins[j], ledger[u].context)
<1>1. /\ entries' = [entries EXCEPT ![dev] = @ \cup found]
      /\ UNCHANGED <<ledger, used, hashed>> /\ KeyOf[dev] \in Keys
  BY RecoveryAssumption DEF Scan
<1>2. found = {} \/ (IsFor(KeyOf[dev], t, j) /\ found = {EntryOf(ledger[t].coins[j])})
  BY <1>1, ScanFinds DEF FindsOwn
<1> HIDE DEF found
<1>3. /\ DOMAIN entries' = Devices
      /\ \A d \in Devices : entries'[d] = IF d = dev THEN entries[d] \cup found
                                          ELSE entries[d]
  BY <1>1 DEF RecoveryInv, EntriesInOrder
<1>4. ASSUME NEW d \in Devices
      PROVE  /\ IsFiniteSet(entries'[d])
             /\ \A e \in entries'[d] : \E n, m :
                  IsFor(KeyOf[d], n, m) /\ e = EntryOf(ledger[n].coins[m])
  <2>1. IsFiniteSet(entries[d]) /\ IsFiniteSet(entries[d] \cup found)
    <3>1. IsFiniteSet(entries[d])
      BY DEF RecoveryInv, EntriesInOrder
    <3>2. IsFiniteSet(entries[d] \cup {EntryOf(ledger[t].coins[j])})
      BY <3>1, FS_AddElement
    <3>3. entries[d] \cup {} = entries[d]
      OBVIOUS
    <3> QED BY <1>2, <3>1, <3>2, <3>3
  <2>2. \A e \in entries[d] : \E n, m :
          IsFor(KeyOf[d], n, m) /\ e = EntryOf(ledger[n].coins[m])
    BY DEF RecoveryInv, EntriesInOrder
  <2>3. CASE d # dev
    <3>1. entries'[d] = entries[d]
      BY <1>3, <2>3
    <3> QED BY <2>1, <2>2, <3>1, Zenon
  <2>4. CASE d = dev
    <3>1. entries'[d] = entries[d] \cup found
      BY <1>3, <2>4
    <3>2. ASSUME NEW e \in found
          PROVE  \E n, m : IsFor(KeyOf[d], n, m) /\ e = EntryOf(ledger[n].coins[m])
      <4>1. IsFor(KeyOf[dev], t, j) /\ e = EntryOf(ledger[t].coins[j])
        BY <1>2
      <4> QED BY <2>4, <4>1, Zenon
    <3> QED BY <2>1, <2>2, <3>1, <3>2, Zenon
  <2> QED BY <2>3, <2>4
<1>5. EntriesInOrder'
  <2>1. \A key, n, m : IsFor(key, n, m)' = IsFor(key, n, m)
    BY <1>1 DEF IsFor, Txs
  <2>2. ASSUME NEW d \in Devices
        PROVE  /\ IsFiniteSet(entries'[d])
               /\ \A e \in entries'[d] : \E n, m :
                    IsFor(KeyOf[d], n, m)' /\ e = EntryOf(ledger'[n].coins[m])
    <3>1. /\ IsFiniteSet(entries'[d])
          /\ \A e \in entries'[d] : \E n, m :
               IsFor(KeyOf[d], n, m) /\ e = EntryOf(ledger[n].coins[m])
      BY <1>4
    <3>2. ledger' = ledger
      BY <1>1
    <3> QED BY <2>1, <3>1, <3>2
  <2> QED BY <1>3, <2>2, Zenon DEF EntriesInOrder
<1>6. LedgerInOrder' /\ TagsInOrder' /\ DevicesInOrder'
  BY <1>1, NothingPosted DEF RecoveryInv, DevicesInOrder
<1> QED BY <1>5, <1>6 DEF RecoveryInv

LEMMA HashTagsInv ==
  ASSUME RecoveryInv, NEW dev \in Devices, HashTags(dev)
  PROVE  RecoveryInv'
<1>1. /\ hashed' = [hashed EXCEPT ![dev] = AllTags]
      /\ UNCHANGED <<ledger, entries, used>>
  BY DEF HashTags
<1>2. DevicesInOrder'
  BY <1>1, NothingPosted DEF RecoveryInv, DevicesInOrder
<1>3. LedgerInOrder' /\ TagsInOrder' /\ EntriesInOrder'
  BY <1>1, NothingPosted
<1> QED BY <1>2, <1>3 DEF RecoveryInv

\* A coin that was made for key.
LEMMA OwnCoin ==
  ASSUME RecoveryInv, NEW key, NEW t, NEW j, IsFor(key, t, j)
  PROVE  \E type \in {"mint", "spend"}, p \in Payment :
           /\ MadeOf(ledger[t].coins[j], type, <<t, j>>, p, ledger[t].context)
           /\ MemoFits(p.memo) /\ p.key = key
<1>1. TxInOrder(ledger[t], t) /\ j \in DOMAIN ledger[t].made /\ ledger[t].made[j].key = key
  BY DEF RecoveryInv, LedgerInOrder, IsFor
<1>2. /\ ledger[t].made[j] \in Payment /\ MemoFits(ledger[t].made[j].memo)
      /\ \E type \in {"mint", "spend"} :
           MadeOf(ledger[t].coins[j], type, <<t, j>>, ledger[t].made[j], ledger[t].context)
  BY <1>1 DEF TxInOrder
<1> QED BY <1>1, <1>2, Zenon

\* What is known of an entry: whoever passes it back identifies its coin with
\* the context in it, and computes the tag in it.
EntryInOrder(e, key) ==
  /\ \E t, j : IsFor(key, t, j) /\ e.coin = ledger[t].coins[j]
  /\ e = EntryOf(e.coin) /\ e.lTagHash = e.coin.S
  /\ e.value \in Nat /\ e.memo \in 0 .. MemoBytes
  /\ \E data : getMetadata(key, e) = {data} /\ InputTag(key, e, data) = e.coin.S

LEMMA EntryFacts ==
  ASSUME RecoveryInv, NEW dev \in Devices, NEW e \in entries[dev]
  PROVE  EntryInOrder(e, KeyOf[dev])
<1> DEFINE key == KeyOf[dev]
<1>1. PICK t, j : IsFor(key, t, j) /\ e = EntryOf(ledger[t].coins[j])
  BY DEF RecoveryInv, EntriesInOrder
<1> DEFINE c == ledger[t].coins[j]
           context == ledger[t].context
<1>2. PICK type \in {"mint", "spend"}, p \in Payment :
        MadeOf(c, type, <<t, j>>, p, context) /\ MemoFits(p.memo) /\ p.key = key
  BY <1>1, OwnCoin
<1> DEFINE k == <<t, j>>
<1> HIDE DEF c, context, key, k
<1>3. MadeOf(c, type, k, p, context)
  BY <1>2 DEF k
<1>4. /\ e.coin = c /\ e.context = context /\ e.lTagHash = c.S /\ e.value = p.v
      /\ e.memo = p.memo
  <2>1. e = EntryOf(c)
    BY <1>1 DEF c
  <2>2. c.S.context = context /\ c.C.v = p.v /\ c.r.memo = p.memo
    BY <1>3 DEF MadeOf
  <2> QED BY <2>1, <2>2 DEF EntryOf
<1>5. p.v \in Nat /\ p.memo \in 0 .. MemoBytes
  BY <1>2, RecoveryAssumption DEF Payment, MemoFits
<1>6. getMetadata(key, e) = {DataOf(k, p)}
  <2>1. identify(key, c, context) = {DataOf(k, p)}
    BY <1>2, <1>3, CoinIdentified
  <2> QED BY <1>4, <2>1 DEF getMetadata
<1>7. InputTag(key, e, DataOf(k, p)) = c.S
  BY <1>2, <1>3, <1>4 DEF InputTag, recover, DataOf, MadeOf
<1> HIDE DEF DataOf
<1>8. \E data : getMetadata(key, e) = {data} /\ InputTag(key, e, data) = e.coin.S
  BY <1>4, <1>6, <1>7
<1>9. \E n, m : IsFor(key, n, m) /\ e.coin = ledger[n].coins[m]
  BY <1>1, <1>4 DEF c
<1> QED BY <1>1, <1>4, <1>5, <1>8, <1>9 DEF EntryInOrder, key, c

\* The tags of a spend are the serial commitments of its coins.
LEMMA SpendTags ==
  ASSUME RecoveryInv, NEW dev \in Devices, NEW S \in SUBSET entries[dev]
  PROVE  UNION {{InputTag(KeyOf[dev], e, data) : data \in getMetadata(KeyOf[dev], e)} :
                  e \in S}
           = {c.S : c \in {e.coin : e \in S}}
<1> DEFINE key == KeyOf[dev]
           tagsOf(e) == {InputTag(key, e, data) : data \in getMetadata(key, e)}
<1>1. \A e \in S : tagsOf(e) = {e.coin.S}
  <2> SUFFICES ASSUME NEW e \in S PROVE tagsOf(e) = {e.coin.S}
    OBVIOUS
  <2>1. PICK data : getMetadata(key, e) = {data} /\ InputTag(key, e, data) = e.coin.S
    BY EntryFacts DEF EntryInOrder
  <2> QED BY <2>1
<1> HIDE DEF tagsOf
<1>2. UNION {tagsOf(e) : e \in S} = {c.S : c \in {e.coin : e \in S}}
  BY <1>1
<1> QED BY <1>2 DEF tagsOf

\* What a spend makes coins for: the payment and the change.
LEMMA OutputsType ==
  ASSUME RecoveryInv, NEW dev \in Devices, NEW S \in SUBSET entries[dev],
         NEW p \in Payment, MemoFits(p.memo)
  PROVE  /\ Len(Outputs(dev, S, p)) \in Nat
         /\ DOMAIN Outputs(dev, S, p) = 1 .. Len(Outputs(dev, S, p))
         /\ \A j \in 1 .. Len(Outputs(dev, S, p)) :
              Outputs(dev, S, p)[j] \in Payment /\ MemoFits(Outputs(dev, S, p)[j].memo)
<1> DEFINE rest == [key |-> KeyOf[dev], i |-> ChangeD, v |-> Worth(S) - p.v, memo |-> 0]
<1>1. Worth(S) \in Nat
  <2>1. IsFiniteSet(S)
    BY FS_Subset DEF RecoveryInv, EntriesInOrder
  <2>2. \A e \in S : e.value \in Nat
    BY EntryFacts DEF EntryInOrder
  <2> QED BY <2>1, <2>2, WorthNat
<1>2. KeyOf[dev] \in Keys /\ p.v \in Nat
  BY RecoveryAssumption DEF Payment
<1>3. CASE Worth(S) > p.v
  <2>1. rest \in Payment /\ MemoFits(rest.memo)
    BY <1>1, <1>2, <1>3, RecoveryAssumption DEF Payment, MemoFits
  <2>2. Outputs(dev, S, p) = <<p, rest>>
    BY <1>3 DEF Outputs
  <2> HIDE DEF rest
  <2>3. /\ Len(<<p, rest>>) = 2 /\ DOMAIN <<p, rest>> = 1 .. 2
        /\ \A j \in 1 .. 2 : <<p, rest>>[j] = p \/ <<p, rest>>[j] = rest
    OBVIOUS
  <2> QED BY <2>1, <2>2, <2>3
<1>4. CASE ~(Worth(S) > p.v)
  <2>1. Outputs(dev, S, p) = <<p>>
    BY <1>4 DEF Outputs
  <2>2. Len(<<p>>) = 1 /\ DOMAIN <<p>> = 1 .. 1 /\ \A j \in 1 .. 1 : <<p>>[j] = p
    OBVIOUS
  <2> QED BY <2>1, <2>2
<1> QED BY <1>3, <1>4

LEMMA SpendCoinsInv ==
  ASSUME RecoveryInv, NEW dev \in Devices, NEW S \in SUBSET Unspent(dev),
         NEW p \in Payments, Spend(dev, S, p)
  PROVE  RecoveryInv'
<1> DEFINE key == KeyOf[dev]
           tags == UNION {{InputTag(key, e, data) : data \in getMetadata(key, e)} : e \in S}
           context == [inputs |-> {}, tags |-> tags]
           outs == Outputs(dev, S, p)
           coins == [j \in 1 .. Len(outs) |-> Coin("spend", NewK(j), outs[j], context)]
           spends == {e.coin : e \in S}
           tx == [context |-> context, tags |-> tags, coins |-> coins,
                  spends |-> spends, made |-> outs]
<1>1. /\ Len(ledger) < MaxTxs /\ MemoFits(p.memo) /\ p \in Payment
      /\ Post(context, tags, coins, spends, outs)
      /\ used' = [used EXCEPT ![dev] = @ \cup spends]
      /\ UNCHANGED <<entries, hashed>> /\ S \in SUBSET entries[dev]
  BY RecoveryAssumption DEF Spend, Unspent
<1>2. tags = {c.S : c \in spends}
  BY <1>1, SpendTags
<1>3. \A c \in spends : \E k \in Keys : \E n, j : IsFor(k, n, j) /\ c = ledger[n].coins[j]
  <2> SUFFICES ASSUME NEW e \in S
               PROVE  \E k \in Keys : \E n, j : IsFor(k, n, j) /\ e.coin = ledger[n].coins[j]
    OBVIOUS
  <2>1. \E n, j : IsFor(key, n, j) /\ e.coin = ledger[n].coins[j]
    BY <1>1, EntryFacts DEF EntryInOrder
  <2>2. key \in Keys
    BY RecoveryAssumption
  <2> QED BY <2>1, <2>2
<1>4. TxInOrder(tx, Len(ledger) + 1)
  <2>1. /\ Len(outs) \in Nat /\ DOMAIN outs = 1 .. Len(outs)
        /\ \A j \in 1 .. Len(outs) : outs[j] \in Payment /\ MemoFits(outs[j].memo)
    BY <1>1, OutputsType
  <2>2. ASSUME NEW j \in 1 .. Len(outs)
        PROVE  /\ MadeOf(coins[j], "spend", <<Len(ledger) + 1, j>>, outs[j], context)
               /\ coins[j].r.memo \in 0 .. MemoBytes
    <3> HIDE DEF outs, context
    <3>1. coins[j] = Coin("spend", <<Len(ledger) + 1, j>>, outs[j], context)
      BY DEF NewK
    <3>2. MadeOf(coins[j], "spend", <<Len(ledger) + 1, j>>, outs[j], context)
      BY <3>1, CoinParts
    <3> HIDE DEF coins
    <3>3. coins[j].r.memo = outs[j].memo
      BY <3>2 DEF MadeOf
    <3> QED BY <2>1, <3>2, <3>3, RecoveryAssumption DEF Payment, MemoFits
  <2>3. DOMAIN coins = 1 .. Len(outs)
    OBVIOUS
  <2> HIDE DEF outs, context, coins, tags, spends
  <2> QED BY <2>1, <2>2, <2>3 DEF TxInOrder
<1> HIDE DEF tags, coins, outs, spends
<1>5. used' \in [Devices -> SUBSET (AllSpent \cup spends)]
  BY <1>1 DEF RecoveryInv, DevicesInOrder
<1> HIDE DEF context
<1> QED BY <1>1, <1>2, <1>3, <1>4, <1>5, PostInv

-----------------------------------------------------------------------------
(***************************************************************************)
(* Theorems.                                                               *)
(***************************************************************************)

\* What is found, spent and hashed refers to properly made coins of the ledger
\* at all times: the inductive invariant, kept by Mint, PostMalformed, Scan,
\* HashTags and Spend.
THEOREM RecoveryInvariant == RecoverySpec => []RecoveryInv
<1>1. RecoveryInit => RecoveryInv
  BY RecoveryInitInv
<1>2. RecoveryInv /\ [RecoveryNext]_vars => RecoveryInv'
  <2> SUFFICES ASSUME RecoveryInv, [RecoveryNext]_vars PROVE RecoveryInv'
    OBVIOUS
  <2>1. ASSUME NEW p \in Payments, Mint(p) PROVE RecoveryInv'
    BY <2>1, MintInv
  <2>2. ASSUME NEW p \in Payments, NEW flaw \in Flaws, PostMalformed(p, flaw)
        PROVE  RecoveryInv'
    BY <2>2, PostMalformedInv
  <2>3. ASSUME NEW dev \in Devices, HashTags(dev) PROVE RecoveryInv'
    BY <2>3, HashTagsInv
  <2>4. ASSUME NEW dev \in Devices, NEW t \in Txs, NEW u \in Txs,
               NEW j \in DOMAIN ledger[t].coins, Scan(dev, t, j, u)
        PROVE  RecoveryInv'
    BY <2>4, ScanInv
  <2>5. ASSUME NEW dev \in Devices, NEW S \in SUBSET Unspent(dev) \ {{}},
               NEW p \in Payments, Spend(dev, S, p)
        PROVE  RecoveryInv'
    BY <2>5, SpendCoinsInv
  <2>6. CASE UNCHANGED vars
    <3>1. UNCHANGED <<ledger, entries, used, hashed>>
      BY <2>6 DEF vars
    <3>2. LedgerInOrder' /\ TagsInOrder' /\ EntriesInOrder' /\ DevicesInOrder'
      BY <3>1, NothingPosted DEF RecoveryInv, DevicesInOrder
    <3> QED BY <3>2 DEF RecoveryInv
  <2> QED BY <2>1, <2>2, <2>3, <2>4, <2>5, <2>6, Zenon DEF RecoveryNext
<1> QED BY <1>1, <1>2, PTL DEF RecoverySpec

LEMMA TypeOfInv == RecoveryInv => RecoveryTypeOK
<1> SUFFICES ASSUME RecoveryInv PROVE RecoveryTypeOK
  OBVIOUS
<1>1. Len(ledger) <= MaxTxs
  BY DEF RecoveryInv, LedgerInOrder
<1>2. \A t \in Txs : \A j \in DOMAIN ledger[t].coins :
        ledger[t].coins[j].r.memo \in 0 .. MemoBytes
  BY DEF RecoveryInv, LedgerInOrder, TxInOrder
<1>3. \A dev \in Devices : \A e \in entries[dev] :
        e.value \in Nat /\ e.memo \in 0 .. MemoBytes
  BY EntryFacts DEF EntryInOrder
<1>4. \A dev \in Devices : used[dev] \subseteq AllSpent /\ hashed[dev] \subseteq AllTags
  BY DEF RecoveryInv, DevicesInOrder
<1> QED BY <1>1, <1>2, <1>3, <1>4, Zenon DEF RecoveryTypeOK

\* Memos on the ledger and in entries fit their field, and devices know only
\* of spends and tags that are on the ledger.
THEOREM RecoveryTypeCorrect == RecoverySpec => []RecoveryTypeOK
BY RecoveryInvariant, TypeOfInv, PTL

LEMMA OwnerFindsOfInv == RecoveryInv => OnlyOwnerFinds
<1> SUFFICES ASSUME RecoveryInv, NEW t \in Txs, NEW j \in DOMAIN ledger[t].coins,
                    NEW key \in Keys
             PROVE  {<<e.value, e.memo, e.diversifier>> :
                       e \in idAndRecoverCoin(key, ledger[t].coins[j], ledger[t].context)}
                    = {<<p.v, p.memo, p.i>> : p \in MadeFor(t, j, key)}
  BY DEF OnlyOwnerFinds
<1> DEFINE c == ledger[t].coins[j]
           found == idAndRecoverCoin(key, c, ledger[t].context)
           q == ledger[t].made[j]
<1>1. found = IF IsFor(key, t, j) THEN {EntryOf(c)} ELSE {}
  BY ScanFinds DEF FindsOwn
<1>2. MadeFor(t, j, key) = IF IsFor(key, t, j) THEN {q} ELSE {}
  BY DEF MadeFor, IsFor
<1>3. CASE IsFor(key, t, j)
  <2>1. TxInOrder(ledger[t], t) /\ j \in DOMAIN ledger[t].made
    BY <1>3 DEF RecoveryInv, LedgerInOrder, IsFor
  <2>2. PICK type \in {"mint", "spend"} : MadeOf(c, type, <<t, j>>, q, ledger[t].context)
    BY <2>1 DEF TxInOrder
  <2>3. c.C.v = q.v /\ c.r.memo = q.memo /\ c.S.i = q.i
    BY <2>2 DEF MadeOf
  <2>4. /\ EntryOf(c).value = q.v /\ EntryOf(c).memo = q.memo
        /\ EntryOf(c).diversifier = q.i
    BY <2>3 DEF EntryOf
  <2> HIDE DEF found, q
  <2> QED BY <1>1, <1>2, <1>3, <2>4 DEF found
<1>4. CASE ~IsFor(key, t, j)
  <2> HIDE DEF found
  <2> QED BY <1>1, <1>2, <1>4 DEF found
<1> QED BY <1>3, <1>4

\* A coin is found by the holders of the key it was made for, as what it was
\* made with, and by nobody else; a coin that is wrong in a part by nobody.
THEOREM OnlyTheOwnerFinds == RecoverySpec => []OnlyOwnerFinds
BY RecoveryInvariant, OwnerFindsOfInv, PTL

\* A serial commitment belongs to one properly made coin: it has the nonce.
LEMMA SerialIsOneCoin ==
  ASSUME RecoveryInv, NEW key, NEW t, NEW j, IsFor(key, t, j),
         NEW other, NEW n, NEW m, IsFor(other, n, m),
         ledger[t].coins[j].S = ledger[n].coins[m].S
  PROVE  ledger[t].coins[j] = ledger[n].coins[m]
<1>1. ledger[t].coins[j].S.k = <<t, j>>
  <2>1. PICK type \in {"mint", "spend"}, p \in Payment :
          MadeOf(ledger[t].coins[j], type, <<t, j>>, p, ledger[t].context)
    BY OwnCoin
  <2> QED BY <2>1 DEF MadeOf
<1>2. ledger[n].coins[m].S.k = <<n, m>>
  <2>1. PICK type \in {"mint", "spend"}, p \in Payment :
          MadeOf(ledger[n].coins[m], type, <<n, m>>, p, ledger[n].context)
    BY OwnCoin
  <2> QED BY <2>1 DEF MadeOf
<1>3. t = n /\ j = m
  BY <1>1, <1>2
<1> QED BY <1>3

LEMMA SpentSeenOfInv == RecoveryInv => SpentIsSeen
<1> SUFFICES ASSUME RecoveryInv, NEW dev \in Devices, NEW e \in entries[dev]
             PROVE  e.lTagHash \in AllTags <=> e.coin \in AllSpent
  BY DEF SpentIsSeen
<1>1. PICK t, j : IsFor(KeyOf[dev], t, j) /\ e.coin = ledger[t].coins[j]
  BY EntryFacts DEF EntryInOrder
<1>2. e.lTagHash = e.coin.S
  BY EntryFacts DEF EntryInOrder
<1>3. ASSUME e.coin \in AllSpent PROVE e.lTagHash \in AllTags
  BY <1>2, <1>3 DEF AllSpent, AllTags, RecoveryInv, TagsInOrder
<1>4. ASSUME e.lTagHash \in AllTags PROVE e.coin \in AllSpent
  <2>1. PICK u \in Txs : e.coin.S \in ledger[u].tags
    BY <1>2, <1>4 DEF AllTags
  <2>2. PICK c \in ledger[u].spends : e.coin.S = c.S
    BY <2>1 DEF RecoveryInv, TagsInOrder
  <2>3. PICK key \in Keys : \E n, m : IsFor(key, n, m) /\ c = ledger[n].coins[m]
    BY <2>2 DEF RecoveryInv, TagsInOrder
  <2>4. PICK n, m : IsFor(key, n, m) /\ c = ledger[n].coins[m]
    BY <2>3
  <2>5. e.coin = c
    BY <1>1, <2>2, <2>4, SerialIsOneCoin
  <2> QED BY <2>2, <2>5 DEF AllSpent
<1> QED BY <1>3, <1>4

\* The tag a device stored at the scan is on the ledger exactly when the coin
\* has been spent, by this device or by another.
THEOREM SpendingIsSeen == RecoverySpec => []SpentIsSeen
BY RecoveryInvariant, SpentSeenOfInv, PTL

LEMMA NeverRefusedOfInv == RecoveryInv => ListNeverRefused
<1> SUFFICES ASSUME RecoveryInv, NEW dev \in Devices, NEW e \in Unspent(dev)
             PROVE  getMetadata(KeyOf[dev], e) # {}
  BY DEF ListNeverRefused, ListAccepted
<1>1. e \in entries[dev]
  BY DEF Unspent
<1>2. PICK data : getMetadata(KeyOf[dev], e) = {data}
  BY <1>1, EntryFacts DEF EntryInOrder
<1> QED BY <1>2

\* toMintMetas identifies every coin a device may pass back, so it never
\* throws on a list of recovered coins.
THEOREM ListIsNeverRefused == RecoverySpec => []ListNeverRefused
BY RecoveryInvariant, NeverRefusedOfInv, PTL

LEMMA NoTwiceOfInv == RecoveryInv => NoCoinTwice
<1> SUFFICES ASSUME RecoveryInv, NEW dev \in Devices, NEW e \in entries[dev],
                    NEW f \in entries[dev], e.coin = f.coin \/ e.lTagHash = f.lTagHash
             PROVE  e = f
  BY DEF NoCoinTwice
<1>1. /\ e = EntryOf(e.coin) /\ e.lTagHash = e.coin.S
      /\ f = EntryOf(f.coin) /\ f.lTagHash = f.coin.S
  BY EntryFacts DEF EntryInOrder
<1>2. PICK t, j : IsFor(KeyOf[dev], t, j) /\ e.coin = ledger[t].coins[j]
  BY EntryFacts DEF EntryInOrder
<1>3. PICK n, m : IsFor(KeyOf[dev], n, m) /\ f.coin = ledger[n].coins[m]
  BY EntryFacts DEF EntryInOrder
<1>4. e.coin = f.coin
  BY <1>1, <1>2, <1>3, SerialIsOneCoin
<1> QED BY <1>1, <1>4

\* Whatever contexts a device is offered with a coin, and however often, its
\* list has the coin once.
THEOREM NoCoinIsListedTwice == RecoverySpec => []NoCoinTwice
BY RecoveryInvariant, NoTwiceOfInv, PTL
=============================================================================
