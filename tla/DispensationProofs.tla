------------------------- MODULE DispensationProofs -------------------------
(***************************************************************************)
(* The drops, for every set of recipients and every list of outputs.       *)
(***************************************************************************)
EXTENDS Dispensation, Sums, TLAPS

\* Coins stored under a finite set of keys.
Ledger(f) == IsFiniteSet(DOMAIN f) /\ \A k \in DOMAIN f : f[k].coins \in Nat

Received(output) == {output[i].recipient : i \in DOMAIN output}

KeysOf(output, name, type) == {<<name, type, r>> : r \in Received(output)}

\* The inductive invariant: every variable the sums run over holds naturals
\* under finitely many keys, every key names a recipient, the balances are
\* natural, and the drops are accounted for.
DropInv ==
    /\ Ledger(pending)
    /\ \A k \in DOMAIN pending : k[3] \in Recipients
    /\ dropped \in [Recipients -> Nat]
    /\ paid \in [Recipients -> Nat]
    /\ refused \in [Recipients -> Nat]
    /\ module \in Nat
    /\ DropsAccountedFor

\* An output list is a ledger, and its recipients are finitely many.
LEMMA OutputLedger ==
    ASSUME NEW o \in Outputs
    PROVE  /\ Ledger(o)
           /\ \A i \in DOMAIN o : o[i].recipient \in Recipients
           /\ IsFiniteSet(Received(o))
<1>0. PICK R : R = [recipient : Recipients, coins : Nat]
  BY Zenon
<1>1. o \in Seq(R) /\ DOMAIN o = 1..Len(o) /\ Len(o) \in Nat /\ \A i \in DOMAIN o : o[i] \in R
  <2>1. o \in Seq(R)
    BY DropAssumption, <1>0, Zenon
  <2> QED BY <2>1
<1>2. \A i \in DOMAIN o : o[i].recipient \in Recipients /\ o[i].coins \in Nat
  BY <1>0, <1>1, Zenon
<1>3. IsFiniteSet(1..Len(o))
  <2>1. PICK n : n = Len(o)
    BY Zenon
  <2>2. 1 \in Int /\ n \in Int
    BY <2>1, <1>1
  <2>3. IsFiniteSet(1..n)
    BY <2>2, FS_Interval, Zenon
  <2> QED BY <2>1, <2>3, Zenon
<1>4. IsFiniteSet(DOMAIN o)
  BY <1>1, <1>3, Zenon
<1>5. IsFiniteSet(Received(o))
  <2> DEFINE f == [i \in DOMAIN o |-> o[i].recipient]
  <2>1. IsFiniteSet({f[i] : i \in DOMAIN o})
    <3> HIDE DEF f
    <3> QED BY <1>4, FiniteImage, Zenon
  <2>2. {f[i] : i \in DOMAIN o} = Received(o)
    BY Zenon DEF Received
  <2> QED BY <2>1, <2>2, Zenon
<1> QED BY <1>2, <1>4, <1>5, Zenon DEF Ledger

\* The coins of a ledger, and of any part of it, add up to a natural number.
LEMMA LedgerSum ==
    ASSUME NEW f, Ledger(f), NEW T \in SUBSET DOMAIN f
    PROVE  /\ IsFiniteSet(T)
           /\ \A k \in DOMAIN f : Coins(f)[k] = f[k].coins /\ Coins(f)[k] \in Nat
           /\ SumFunctionOnSet(Coins(f), T) \in Nat
<1>1. IsFiniteSet(T)
  BY FS_Subset, Zenon DEF Ledger
<1>2. \A k \in DOMAIN f : Coins(f)[k] = f[k].coins /\ Coins(f)[k] \in Nat
  BY Zenon DEF Ledger, Coins
<1>3. SumFunctionOnSet(Coins(f), T) \in Nat
  BY <1>1, <1>2, SumNat, Zenon
<1> QED BY <1>1, <1>2, <1>3, Zenon

\* What an output list drops is the sum of what it drops to each recipient.
LEMMA TotalByRecipient ==
    ASSUME NEW o \in Outputs, NEW h, h = [r \in Recipients |-> DropsTo(o, r)]
    PROVE  /\ \A r \in Recipients : DropsTo(o, r) \in Nat
           /\ SumFunction(Coins(o)) = SumFunctionOnSet(h, Recipients)
           /\ SumFunction(Coins(o)) \in Nat
<1>0. Ledger(o) /\ \A i \in DOMAIN o : o[i].recipient \in Recipients
  BY OutputLedger, Zenon
<1>1. \A r \in Recipients : DropsTo(o, r) \in Nat
  <2> TAKE r \in Recipients
  <2>1. PICK T : T = {i \in DOMAIN o : o[i].recipient = r}
    BY Zenon
  <2>2. SumFunctionOnSet(Coins(o), T) \in Nat
    BY <1>0, <2>1, LedgerSum, Zenon
  <2> QED BY <2>1, <2>2, Zenon DEF DropsTo
<1>2. PICK k : k = [i \in DOMAIN o |-> o[i].recipient]
  BY Zenon
<1>3. \A r \in Recipients :
        {i \in DOMAIN o : o[i].recipient = r} = {i \in DOMAIN o : k[i] = r}
  BY <1>2, Zenon
<1>4. \A r \in Recipients : h[r] = SumFunctionOnSet(Coins(o), {i \in DOMAIN o : k[i] = r})
  <2> TAKE r \in Recipients
  <2>1. h[r] = SumFunctionOnSet(Coins(o), {i \in DOMAIN o : o[i].recipient = r})
    BY Zenon DEF DropsTo
  <2> QED BY <2>1, <1>3, Zenon
<1>5. \A i \in DOMAIN o : Coins(o)[i] \in Int /\ k[i] \in Recipients
  BY <1>0, <1>2, LedgerSum
<1>6. Classes(k, Coins(o), DOMAIN o, h, Recipients)
  BY <1>4, <1>5, Zenon DEF Classes
<1>7. SumFunctionOnSet(h, Recipients) = SumFunctionOnSet(Coins(o), DOMAIN o)
  BY <1>0, <1>6, DropAssumption, SumByClass DEF Ledger
<1>8. DOMAIN Coins(o) = DOMAIN o
  BY Zenon DEF Coins
<1>9. SumFunction(Coins(o)) = SumFunctionOnSet(Coins(o), DOMAIN o)
  BY <1>8, Zenon DEF SumFunction
<1>10. SumFunctionOnSet(Coins(o), DOMAIN o) \in Nat
  BY <1>0, LedgerSum, Zenon
<1> QED BY <1>1, <1>7, <1>9, <1>10, Zenon

\* The records after a distribution: those of the recipients of the output get
\* what it drops to them on top of what was pending, the others stay.
LEMMA RecordsAfterCreate ==
    ASSUME NEW o, NEW n, NEW t, NEW w, CreateDrops(o, n, t, w)
    PROVE  /\ DOMAIN pending' = DOMAIN pending \cup KeysOf(o, n, t)
           /\ \A k \in KeysOf(o, n, t) : pending'[k].coins =
                DropsTo(o, k[3]) + (IF k \in DOMAIN pending THEN pending[k].coins ELSE 0)
           /\ \A k \in DOMAIN pending \ KeysOf(o, n, t) : pending'[k] = pending[k]
<1>0. PICK keys : keys = KeysOf(o, n, t)
  BY Zenon
<1>1. {<<n, t, o[i].recipient>> : i \in DOMAIN o} = keys
  BY <1>0, Zenon DEF Received, KeysOf
<1> DEFINE fresh == [k \in keys |->
               [coins |-> DropsTo(o, k[3]) + (IF k \in DOMAIN pending THEN pending[k].coins ELSE 0),
                runner |-> w]]
<1>2. pending' = Over(fresh, pending)
  BY <1>1, Zenon DEF CreateDrops
<1>3. /\ DOMAIN fresh = keys
      /\ \A k \in keys : fresh[k].coins =
           DropsTo(o, k[3]) + (IF k \in DOMAIN pending THEN pending[k].coins ELSE 0)
  BY Zenon
<1> HIDE DEF fresh
<1>4. /\ DOMAIN Over(fresh, pending) = DOMAIN fresh \cup DOMAIN pending
      /\ \A k \in DOMAIN fresh : Over(fresh, pending)[k] = fresh[k]
      /\ \A k \in DOMAIN pending \ DOMAIN fresh : Over(fresh, pending)[k] = pending[k]
  BY Zenon DEF Over
<1> QED BY <1>0, <1>2, <1>3, <1>4, Zenon

\* A distribution raises what is pending for a recipient by what it drops to
\* that recipient.
LEMMA HeldAfterCreate ==
    ASSUME NEW o \in Outputs, NEW n, NEW t, NEW w, CreateDrops(o, n, t, w),
           Ledger(pending), \A k \in DOMAIN pending : k[3] \in Recipients
    PROVE  /\ Ledger(pending')
           /\ \A k \in DOMAIN pending' : k[3] \in Recipients
           /\ \A r \in Recipients : Held(pending', r) = Held(pending, r) + DropsTo(o, r)
<1>1. PICK keys : keys = KeysOf(o, n, t)
  BY Zenon
<1>2. /\ DOMAIN pending' = DOMAIN pending \cup keys
      /\ \A k \in keys : pending'[k].coins =
           DropsTo(o, k[3]) + (IF k \in DOMAIN pending THEN pending[k].coins ELSE 0)
      /\ \A k \in DOMAIN pending \ keys : pending'[k] = pending[k]
  BY <1>1, RecordsAfterCreate, Zenon
<1>3. \A k \in keys : k[3] \in Received(o) /\ k = <<n, t, k[3]>>
  BY <1>1 DEF KeysOf
<1>4. Received(o) \subseteq Recipients
  BY OutputLedger, Zenon DEF Received
<1>5. \A r \in Recipients : DropsTo(o, r) \in Nat
  BY TotalByRecipient, Zenon
<1>6. IsFiniteSet(keys)
  <2> DEFINE f == [r \in Received(o) |-> <<n, t, r>>]
  <2>1. IsFiniteSet({f[r] : r \in Received(o)})
    <3> HIDE DEF f
    <3> QED BY OutputLedger, FiniteImage, Zenon
  <2>2. {f[r] : r \in Received(o)} = keys
    BY <1>1, Zenon DEF KeysOf
  <2> QED BY <2>1, <2>2, Zenon
<1>7. IsFiniteSet(DOMAIN pending')
  BY <1>2, <1>6, FS_Union, Zenon DEF Ledger
<1>8. \A k \in DOMAIN pending' : k[3] \in Recipients /\ pending'[k].coins \in Nat
  BY <1>2, <1>3, <1>4, <1>5 DEF Ledger
<1>9. Ledger(pending')
  BY <1>7, <1>8, Zenon DEF Ledger
<1>10. ASSUME NEW r \in Recipients
       PROVE  Held(pending', r) = Held(pending, r) + DropsTo(o, r)
  <2> DEFINE k == <<n, t, r>>
  <2>0. k[3] = r
    BY Zenon
  <2>1. PICK A : A = {l \in DOMAIN pending : l[3] = r}
    BY Zenon
  <2>2. PICK B : B = {l \in DOMAIN pending' : l[3] = r}
    BY Zenon
  <2>3. PICK f, g : f = Coins(pending) /\ g = Coins(pending')
    BY Zenon
  <2>4. Held(pending, r) = SumFunctionOnSet(f, A) /\ Held(pending', r) = SumFunctionOnSet(g, B)
    BY <2>1, <2>2, <2>3, Zenon DEF Held
  <2>5. /\ \A l \in DOMAIN pending : f[l] = pending[l].coins /\ f[l] \in Nat
        /\ \A l \in DOMAIN pending' : g[l] = pending'[l].coins /\ g[l] \in Nat
        /\ IsFiniteSet(A) /\ IsFiniteSet(B)
    BY <1>9, <2>1, <2>2, <2>3, LedgerSum, Zenon
  <2>6. \A l \in keys : l[3] = r => l = k
    BY <1>3, Zenon
  <2>7. \A l \in A \ {k} : l \in DOMAIN pending /\ l \in DOMAIN pending' /\ g[l] = f[l]
    BY <1>2, <2>1, <2>5, <2>6
  <2>8. ASSUME r \notin Received(o) PROVE Held(pending', r) = Held(pending, r) + DropsTo(o, r)
    <3>1. \A l \in keys : l[3] # r
      BY <1>3, <2>8, Zenon
    <3>2. B = A
      BY <3>1, <1>2, <2>1, <2>2, Zenon
    <3>3. \A l \in A : f[l] \in Int /\ g[l] = f[l]
      BY <3>1, <1>2, <2>1, <2>5
    <3>4. SumFunctionOnSet(g, A) = SumFunctionOnSet(f, A) /\ SumFunctionOnSet(f, A) \in Int
      BY <3>3, <2>5, SumCong, SumInt, Zenon
    <3>5. {i \in DOMAIN o : o[i].recipient = r} = {}
      BY <2>8, Zenon DEF Received
    <3>6. DropsTo(o, r) = 0
      BY <3>5, SumEmpty, Zenon DEF DropsTo
    <3> QED BY <2>4, <3>2, <3>4, <3>6
  <2>9. ASSUME r \in Received(o) PROVE Held(pending', r) = Held(pending, r) + DropsTo(o, r)
    <3>1. k \in keys /\ k \in DOMAIN pending'
      BY <2>9, <1>1, <1>2, Zenon DEF KeysOf
    <3>2. B = A \cup {k} /\ k \in B
      BY <3>1, <1>2, <2>0, <2>1, <2>2, <2>6, Zenon
    <3>3. g[k] = DropsTo(o, r) + (IF k \in DOMAIN pending THEN pending[k].coins ELSE 0)
      BY <3>1, <1>2, <2>0, <2>5, Zenon
    <3>4. DropsTo(o, r) \in Int /\ g[k] \in Int /\ \A l \in A : f[l] \in Int
      BY <1>5, <2>1, <2>5, <3>1
    <3> HIDE DEF k
    <3>5. CASE k \in DOMAIN pending
      <4>1. k \in A /\ B = A
        BY <3>2, <3>5, <2>0, <2>1, Zenon
      <4>2. g[k] = DropsTo(o, r) + f[k]
        BY <3>3, <3>5, <2>5, Zenon
      <4>3. SumFunctionOnSet(g, A) = SumFunctionOnSet(f, A) - f[k] + g[k]
        BY <4>1, <3>4, <2>5, <2>7, SumUpdate
      <4>4. SumFunctionOnSet(f, A) \in Int /\ f[k] \in Int
        BY <4>1, <3>4, <2>5, SumInt, Zenon
      <4> QED BY <4>1, <4>2, <4>3, <4>4, <3>4, <2>4
    <3>6. CASE k \notin DOMAIN pending
      <4>1. k \notin A
        BY <3>6, <2>1, Zenon
      <4>2. g[k] = DropsTo(o, r)
        BY <3>3, <3>4, <3>6
      <4>3. \A l \in A : f[l] \in Int /\ g[l] = f[l]
        BY <4>1, <3>4, <2>7, Zenon
      <4>4. SumFunctionOnSet(g, A) = SumFunctionOnSet(f, A)
        BY <4>3, <2>5, SumCong, Zenon
      <4>5. SumFunctionOnSet(g, A \cup {k}) = SumFunctionOnSet(g, A) + g[k]
        BY <4>1, <4>3, <3>4, <2>5, SumAdd
      <4> QED BY <4>2, <4>4, <4>5, <3>2, <2>4, Zenon
    <3> QED BY <3>5, <3>6, Zenon
  <2> QED BY <2>8, <2>9, Zenon
<1> QED BY <1>8, <1>9, <1>10, Zenon

\* A distribution keeps the invariant: what each recipient is dropped becomes
\* pending, and the module account takes in the sum of it.
LEMMA CreateKeeps ==
    ASSUME DropInv, NEW d, NEW t, NEW o \in Outputs, NEW w, CreateDistribution(d, t, o, w)
    PROVE  DropInv'
<1>0. /\ CreateDrops(o, <<height, d>>, t, w)
      /\ module' = module + SumFunction(Coins(o))
      /\ dropped' = [r \in Recipients |-> dropped[r] + DropsTo(o, r)]
      /\ UNCHANGED <<paid, refused>>
  BY Zenon DEF CreateDistribution
<1>1. /\ Ledger(pending)
      /\ \A k \in DOMAIN pending : k[3] \in Recipients
      /\ dropped \in [Recipients -> Nat] /\ paid \in [Recipients -> Nat]
      /\ refused \in [Recipients -> Nat] /\ module \in Nat
      /\ \A r \in Recipients : dropped[r] = paid[r] + Held(pending, r) + refused[r]
      /\ module = SumFunction([r \in Recipients |-> dropped[r] - paid[r]])
  BY Zenon DEF DropInv, DropsAccountedFor
<1>2. /\ Ledger(pending')
      /\ \A k \in DOMAIN pending' : k[3] \in Recipients
      /\ \A r \in Recipients : Held(pending', r) = Held(pending, r) + DropsTo(o, r)
  BY <1>0, <1>1, HeldAfterCreate, Zenon
<1>3. PICK h : h = [r \in Recipients |-> DropsTo(o, r)]
  BY Zenon
<1>4. /\ \A r \in Recipients : DropsTo(o, r) \in Nat
      /\ SumFunction(Coins(o)) = SumFunctionOnSet(h, Recipients)
      /\ SumFunction(Coins(o)) \in Nat
  BY <1>3, TotalByRecipient, Zenon
<1>5. \A r \in Recipients : Held(pending, r) \in Nat
  <2> TAKE r \in Recipients
  <2>1. PICK T : T = {k \in DOMAIN pending : k[3] = r}
    BY Zenon
  <2>2. SumFunctionOnSet(Coins(pending), T) \in Nat
    BY <1>1, <2>1, LedgerSum, Zenon
  <2> QED BY <2>1, <2>2, Zenon DEF Held
<1>6. dropped' \in [Recipients -> Nat] /\ module' \in Nat
  BY <1>0, <1>1, <1>4
<1>7. \A r \in Recipients : dropped'[r] = paid'[r] + Held(pending', r) + refused'[r]
  BY <1>0, <1>1, <1>2, <1>4, <1>5, SMTT(60)
<1>8. module' = SumFunction([r \in Recipients |-> dropped'[r] - paid'[r]])
  <2>1. PICK f : f = [r \in Recipients |-> dropped[r] - paid[r]]
    BY Zenon
  <2>2. PICK g : g = [r \in Recipients |-> dropped'[r] - paid'[r]]
    BY Zenon
  <2>3. \A r \in Recipients : f[r] \in Int /\ h[r] \in Int /\ g[r] = f[r] + h[r]
    BY <1>0, <1>1, <1>3, <1>4, <2>1, <2>2, SMTT(60)
  <2>4. SumFunctionOnSet(g, Recipients) = SumFunctionOnSet(f, Recipients) + SumFunctionOnSet(h, Recipients)
    BY <2>3, DropAssumption, SumPlus
  <2>5. DOMAIN f = Recipients /\ DOMAIN g = Recipients
    BY <2>1, <2>2, Zenon
  <2>6. SumFunction(f) = SumFunctionOnSet(f, Recipients) /\ SumFunction(g) = SumFunctionOnSet(g, Recipients)
    BY <2>5, Zenon DEF SumFunction
  <2>7. module = SumFunction(f)
    BY <1>1, <2>1, Zenon
  <2>8. module' = SumFunction(g)
    BY <1>0, <1>4, <2>4, <2>6, <2>7, Zenon
  <2> QED BY <2>2, <2>8, Zenon
<1>9. DropsAccountedFor'
  BY <1>7, <1>8, Zenon DEF DropsAccountedFor
<1> QED BY <1>0, <1>1, <1>2, <1>6, <1>9, Zenon DEF DropInv

\* A run of records that leave the pending ones keeps the invariant: each is
\* paid or refused, and the module account gives out what is paid.
LEMMA DistributeKeeps ==
    ASSUME DropInv, NEW run \in SUBSET DOMAIN pending, DistributeDrops(run), UNCHANGED dropped
    PROVE  DropInv'
<1>1. /\ Ledger(pending)
      /\ \A k \in DOMAIN pending : k[3] \in Recipients
      /\ dropped \in [Recipients -> Nat] /\ paid \in [Recipients -> Nat]
      /\ refused \in [Recipients -> Nat] /\ module \in Nat
      /\ \A r \in Recipients : dropped[r] = paid[r] + Held(pending, r) + refused[r]
      /\ module = SumFunction([r \in Recipients |-> dropped[r] - paid[r]])
  BY Zenon DEF DropInv, DropsAccountedFor
<1>2. PICK good : good = {k \in run : k[3] \notin Blocked}
  BY Zenon
<1>3. PICK bad : bad = run \ good
  BY Zenon
<1>4. PICK c : c = Coins(pending)
  BY Zenon
<1>5. /\ SumFunctionOnSet(c, good) <= module
      /\ pending' = Restrict(pending, DOMAIN pending \ run)
      /\ module' = module - SumFunctionOnSet(c, good)
      /\ paid' = [r \in Recipients |-> paid[r] + SumFunctionOnSet(c, {k \in good : k[3] = r})]
      /\ refused' = [r \in Recipients |-> refused[r] + SumFunctionOnSet(c, {k \in bad : k[3] = r})]
  BY <1>2, <1>3, <1>4, Zenon DEF DistributeDrops
<1>6. /\ good \subseteq DOMAIN pending /\ bad \subseteq DOMAIN pending
      /\ good \cap bad = {} /\ good \cup bad = run
  BY <1>2, <1>3, Zenon
<1>7. /\ \A k \in DOMAIN pending : c[k] = pending[k].coins /\ c[k] \in Nat
      /\ \A T \in SUBSET DOMAIN pending : IsFiniteSet(T) /\ SumFunctionOnSet(c, T) \in Nat
  BY <1>1, <1>4, LedgerSum, Zenon
<1>8. /\ DOMAIN pending' = DOMAIN pending \ run
      /\ \A k \in DOMAIN pending' : pending'[k] = pending[k]
  BY <1>5, Zenon DEF Restrict
<1>9. Ledger(pending') /\ \A k \in DOMAIN pending' : k[3] \in Recipients
  BY <1>1, <1>7, <1>8, Zenon DEF Ledger
<1>10. \A T \in SUBSET DOMAIN pending : \A r : {k \in T : k[3] = r} \in SUBSET DOMAIN pending
  BY Zenon
<1>11. paid' \in [Recipients -> Nat] /\ refused' \in [Recipients -> Nat]
  <2>1. \A r \in Recipients : /\ SumFunctionOnSet(c, {k \in good : k[3] = r}) \in Nat
                              /\ SumFunctionOnSet(c, {k \in bad : k[3] = r}) \in Nat
    BY <1>6, <1>7, <1>10, Zenon
  <2>2. PICK h : h = [r \in Recipients |-> SumFunctionOnSet(c, {k \in good : k[3] = r})]
    BY Zenon
  <2>3. PICK b : b = [r \in Recipients |-> SumFunctionOnSet(c, {k \in bad : k[3] = r})]
    BY Zenon
  <2>4. \A r \in Recipients : h[r] \in Nat /\ b[r] \in Nat
    BY <2>1, <2>2, <2>3, Zenon
  <2>5. /\ paid' = [r \in Recipients |-> paid[r] + h[r]]
        /\ refused' = [r \in Recipients |-> refused[r] + b[r]]
    BY <1>5, <2>2, <2>3, Zenon
  <2> QED BY <1>1, <2>4, <2>5
<1>12. module' \in Nat
  BY <1>1, <1>5, <1>6, <1>7, SMTT(60)
<1>13. ASSUME NEW r \in Recipients
       PROVE  dropped'[r] = paid'[r] + Held(pending', r) + refused'[r]
  <2>1. PICK G : G = {k \in good : k[3] = r}
    BY Zenon
  <2>2. PICK B : B = {k \in bad : k[3] = r}
    BY Zenon
  <2>3. PICK A : A = {k \in DOMAIN pending : k[3] = r}
    BY Zenon
  <2>4. PICK L : L = {k \in DOMAIN pending' : k[3] = r}
    BY Zenon
  <2>5. PICK e : e = Coins(pending')
    BY Zenon
  <2>6. Held(pending, r) = SumFunctionOnSet(c, A) /\ Held(pending', r) = SumFunctionOnSet(e, L)
    BY <1>4, <2>3, <2>4, <2>5, Zenon DEF Held
  <2>7. /\ paid'[r] = paid[r] + SumFunctionOnSet(c, G)
        /\ refused'[r] = refused[r] + SumFunctionOnSet(c, B)
    BY <1>5, <2>1, <2>2, Zenon
  <2>8. /\ A = (G \cup B) \cup L /\ (G \cup B) \cap L = {} /\ G \cap B = {}
        /\ G \in SUBSET DOMAIN pending /\ B \in SUBSET DOMAIN pending /\ L \in SUBSET DOMAIN pending
    BY <1>6, <1>8, <2>1, <2>2, <2>3, <2>4, Zenon
  <2>9. /\ IsFiniteSet(G) /\ IsFiniteSet(B) /\ IsFiniteSet(L) /\ IsFiniteSet(G \cup B)
        /\ SumFunctionOnSet(c, G) \in Nat /\ SumFunctionOnSet(c, B) \in Nat
        /\ SumFunctionOnSet(c, L) \in Nat
    <3>1. G \cup B \in SUBSET DOMAIN pending
      BY <2>8, Zenon
    <3> QED BY <1>7, <2>8, <3>1, Zenon
  <2>10. \A k \in DOMAIN pending : c[k] \in Int
    BY <1>7
  <2>11. SumFunctionOnSet(c, G \cup B) = SumFunctionOnSet(c, G) + SumFunctionOnSet(c, B)
    BY <2>8, <2>9, <2>10, SumDisjoint, Zenon
  <2>12. SumFunctionOnSet(c, A) = SumFunctionOnSet(c, G \cup B) + SumFunctionOnSet(c, L)
    <3>1. PICK U : U = G \cup B
      BY Zenon
    <3>2. SumFunctionOnSet(c, U \cup L) = SumFunctionOnSet(c, U) + SumFunctionOnSet(c, L)
      BY <3>1, <2>8, <2>9, <2>10, SumDisjoint, Zenon
    <3>3. A = U \cup L
      BY <3>1, <2>8, Zenon
    <3> QED BY <3>1, <3>2, <3>3, Zenon
  <2>13. \A k \in L : c[k] \in Int /\ e[k] = c[k]
    BY <1>7, <1>8, <2>4, <2>5, <2>8 DEF Coins
  <2>14. SumFunctionOnSet(e, L) = SumFunctionOnSet(c, L)
    BY <2>9, <2>13, SumCong, Zenon
  <2>15. paid[r] \in Nat /\ refused[r] \in Nat /\ dropped'[r] = paid[r] + Held(pending, r) + refused[r]
    BY <1>1, Zenon
  <2> QED BY <2>6, <2>7, <2>9, <2>11, <2>12, <2>14, <2>15, SMTT(60)
<1>14. module' = SumFunction([r \in Recipients |-> dropped'[r] - paid'[r]])
  <2>1. PICK f : f = [r \in Recipients |-> dropped[r] - paid[r]]
    BY Zenon
  <2>2. PICK g : g = [r \in Recipients |-> dropped'[r] - paid'[r]]
    BY Zenon
  <2>3. PICK h : h = [r \in Recipients |-> SumFunctionOnSet(c, {k \in good : k[3] = r})]
    BY Zenon
  <2>4. PICK p : p = [k \in good |-> k[3]]
    BY Zenon
  <2>5. \A r \in Recipients : {k \in good : p[k] = r} = {k \in good : k[3] = r}
    BY <2>4, Zenon
  <2>6. \A r \in Recipients : h[r] = SumFunctionOnSet(c, {k \in good : p[k] = r})
    <3> TAKE r \in Recipients
    <3>1. h[r] = SumFunctionOnSet(c, {k \in good : k[3] = r})
      BY <2>3, Zenon
    <3> QED BY <3>1, <2>5, Zenon
  <2>7. \A k \in good : c[k] \in Int /\ p[k] \in Recipients
    BY <1>1, <1>6, <1>7, <2>4, SMTT(60)
  <2>8. Classes(p, c, good, h, Recipients)
    BY <2>6, <2>7, Zenon DEF Classes
  <2>9. IsFiniteSet(good) /\ SumFunctionOnSet(c, good) \in Nat
    BY <1>6, <1>7, Zenon
  <2>10. SumFunctionOnSet(h, Recipients) = SumFunctionOnSet(c, good)
    BY <2>8, <2>9, DropAssumption, SumByClass
  <2>11. \A r \in Recipients : paid'[r] = paid[r] + h[r] /\ h[r] \in Nat
    <3>1. \A r \in Recipients : SumFunctionOnSet(c, {k \in good : k[3] = r}) \in Nat
      BY <1>6, <1>7, <1>10, Zenon
    <3> QED BY <3>1, <1>5, <2>3, Zenon
  <2>12. \A r \in Recipients : g[r] \in Int /\ h[r] \in Int /\ f[r] = g[r] + h[r]
    BY <1>1, <2>1, <2>2, <2>11
  <2>13. SumFunctionOnSet(f, Recipients) = SumFunctionOnSet(g, Recipients) + SumFunctionOnSet(h, Recipients)
    BY <2>12, DropAssumption, SumPlus, SMTT(60)
  <2>14. SumFunctionOnSet(g, Recipients) \in Int
    BY <2>12, DropAssumption, SumInt, Zenon
  <2>15. DOMAIN f = Recipients /\ DOMAIN g = Recipients
    BY <2>1, <2>2, Zenon
  <2>16. SumFunction(f) = SumFunctionOnSet(f, Recipients) /\ SumFunction(g) = SumFunctionOnSet(g, Recipients)
    BY <2>15, Zenon DEF SumFunction
  <2>17. module = SumFunction(f)
    BY <1>1, <2>1, Zenon
  <2>18. module' = SumFunction(g)
    BY <1>5, <2>9, <2>10, <2>13, <2>14, <2>16, <2>17
  <2> QED BY <2>2, <2>18, Zenon
<1>15. DropsAccountedFor'
  BY <1>13, <1>14, Zenon DEF DropsAccountedFor
<1> QED BY <1>1, <1>9, <1>11, <1>12, <1>15, Zenon DEF DropInv

\* Whatever a distribution drops to a recipient is paid, pending or refused,
\* exactly once, and the module account holds what was not paid, for all
\* distributors, runners, recipients, output lists and limits per message.
THEOREM EveryDropAccountedFor == Spec => []DropsAccountedFor
<1>1. Init => DropInv
  <2> SUFFICES ASSUME Init PROVE DropInv
    BY Zenon
  <2>1. /\ pending = << >> /\ module = 0
        /\ dropped = [r \in Recipients |-> 0]
        /\ paid = [r \in Recipients |-> 0]
        /\ refused = [r \in Recipients |-> 0]
    BY Zenon DEF Init
  <2>2. DOMAIN pending = {}
    BY <2>1
  <2>3. Ledger(pending)
    BY <2>2, FS_EmptySet, Zenon DEF Ledger
  <2>4. \A r \in Recipients : Held(pending, r) = 0
    <3> TAKE r \in Recipients
    <3>1. {k \in DOMAIN pending : k[3] = r} = {}
      BY <2>2, Zenon
    <3> QED BY <3>1, SumEmpty, Zenon DEF Held
  <2>5. module = SumFunction([r \in Recipients |-> dropped[r] - paid[r]])
    <3>1. PICK f : f = [r \in Recipients |-> dropped[r] - paid[r]]
      BY Zenon
    <3>2. DOMAIN f = Recipients /\ \A r \in Recipients : f[r] = 0
      BY <2>1, <3>1
    <3>3. SumFunction(f) = 0
      BY <3>2, DropAssumption, SumZero, Zenon DEF SumFunction
    <3> QED BY <2>1, <3>1, <3>3, Zenon
  <2>6. DropsAccountedFor
    <3>1. \A r \in Recipients : dropped[r] = paid[r] + Held(pending, r) + refused[r]
      BY <2>1, <2>4
    <3> QED BY <3>1, <2>5, Zenon DEF DropsAccountedFor
  <2> QED BY <2>1, <2>2, <2>3, <2>6, Zenon DEF DropInv
<1>2. DropInv /\ [Next]_vars => DropInv'
  <2> SUFFICES ASSUME DropInv, [Next]_vars PROVE DropInv'
    BY Zenon
  <2>1. ASSUME NEW d \in Distributors, NEW t \in Types, NEW o \in Outputs, NEW w \in Runners,
               CreateDistribution(d, t, o, w)
        PROVE  DropInv'
    BY <2>1, CreateKeeps, Zenon
  <2>2. ASSUME NEW n, NEW t, NEW w, NEW count, RunDistribution(n, t, w, count)
        PROVE  DropInv'
    <3>1. PICK run : run = GetLimitedRecordsForRunner(n, t, w, count)
      BY Zenon
    <3>2. DistributeDrops(run) /\ UNCHANGED dropped
      BY <2>2, <3>1, Zenon DEF RunDistribution
    <3>3. run \in SUBSET DOMAIN pending
      BY <3>1, Zenon DEF GetLimitedRecordsForRunner
    <3> QED BY <3>2, <3>3, DistributeKeeps, Zenon
  <2>3. CASE UNCHANGED <<pending, module, dropped, paid, refused>>
    BY <2>3, Zenon DEF DropInv, DropsAccountedFor, Held, Coins, Ledger
  <2>4. ASSUME NEW u, NEW t, CreateUserClaim(u, t) PROVE DropInv'
    BY <2>3, <2>4, Zenon DEF CreateUserClaim, recordVars, fundVars
  <2>5. CASE BeginBlock
    BY <2>3, <2>5, Zenon DEF BeginBlock, recordVars, fundVars
  <2>6. CASE UNCHANGED vars
    BY <2>3, <2>6, Zenon DEF vars, recordVars, fundVars
  <2> QED BY <2>1, <2>2, <2>4, <2>5, <2>6, Zenon DEF Next, Run
<1>3. DropInv => DropsAccountedFor
  BY Zenon DEF DropInv
<1> QED BY <1>1, <1>2, <1>3, PTL DEF Spec
=============================================================================
