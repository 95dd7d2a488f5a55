-------------------------- MODULE EmittedTxnProofs --------------------------
(***************************************************************************)
(* What EmittedTxn promises for any number of servers and transactions,    *)
(* once fixXahauV2 is enabled.  The directory of the last closed ledger is *)
(* tied to the open ledgers of the servers that are on it: what they hold  *)
(* is still in the directory, and their failures are of expired entries.   *)
(***************************************************************************)
EXTENDS EmittedTxn, TLAPS

\* What the open ledgers hold.  Servers that are not current may hold what the
\* network has applied since.
OpenInv ==
    \A n \in Node, t \in Tx :
        /\ Real(t) \in open[n] => t \in Emitted /\ txn[t].fls <= seq + 1
        /\ n \in Current /\ Real(t) \in open[n] => t \in dir
        /\ n \in Current /\ Failure(t) \in open[n] => t \in dir /\ Expired(t)

RetryInv ==
    \A t \in Tx : Real(t) \in retry => t \in Emitted /\ txn[t].fls <= seq + 1

\* A current server without a fault has marked every entry, and the failure of
\* every expired one.
FlagInv ==
    \A n \in Current : clean[n] =>
        \A t \in dir : /\ Real(t) \in flagged[n]
                       /\ Expired(t) => Failure(t) \in flagged[n]

\* Nothing has happened to a transaction before it is emitted.
UnemittedInv == \A t \in Tx \ Emitted : applied[t] = 0 /\ failed[t] = 0

IInv ==
    /\ TypeOK /\ AtMostOnce /\ DirectoryExact
    /\ OpenInv /\ RetryInv /\ FlagInv /\ UnemittedInv

\* Real and Failure items of different transactions differ.
LEMMA ItemsDiffer ==
    /\ \A t, u \in Tx : Real(t) # Failure(u)
    /\ \A t, u \in Tx : Real(t) = Real(u) => t = u
    /\ \A t, u \in Tx : Failure(t) = Failure(u) => t = u
    /\ \A t \in Tx : Real(t) \in Item /\ Failure(t) \in Item
BY Zenon DEF Real, Failure, Item

\* What emit() accepts is a well formed transaction with a ledger of its window
\* still to come, for any emitted parent.
LEMMA EmitRulesTyped ==
    ASSUME TypeOK, NEW p \in Emitted \cup {NoTxn}
    PROVE  /\ EmitRules(seq + 1, p) \subseteq TxnRecord
           /\ \A r \in EmitRules(seq + 1, p) : seq + 1 < r.lls
<1>1. seq \in Int /\ Lookback \in Int /\ EmitWindow \in Int
  BY EmissionAssumption DEF TypeOK
<1>2. p \in Tx \cup {NoTxn}
  BY Zenon DEF Emitted
<1>3. Generation(p) \in Nat
  BY Zenon DEF Generation, Emitted, TypeOK, TxnRecord
<1>4. EmitGeneration(p) \in Nat
  BY <1>3 DEF EmitGeneration
<1> QED
  BY <1>1, <1>2, <1>4 DEF EmitRules, TxnRecord

\* The hooks of transactions in the directory emit new, well formed ones.
LEMMA NewEmissionsTyped ==
    ASSUME TypeOK, DirectoryExact, NEW A \in SUBSET dir, NEW E \in NewEmissions(A)
    PROVE  /\ DOMAIN E \subseteq Tx \ Emitted
           /\ \A t \in DOMAIN E : E[t] \in TxnRecord /\ seq + 1 < E[t].lls
<1> DEFINE R == UNION {EmitRules(seq + 1, p) : p \in A \cup {NoTxn}}
<1>1. R \subseteq TxnRecord /\ \A r \in R : seq + 1 < r.lls
  <2>1. A \cup {NoTxn} \subseteq Emitted \cup {NoTxn}
    BY Zenon DEF DirectoryExact, TypeOK
  <2>2. \A p \in A \cup {NoTxn} : /\ EmitRules(seq + 1, p) \subseteq TxnRecord
                                  /\ \A r \in EmitRules(seq + 1, p) : seq + 1 < r.lls
    BY <2>1, EmitRulesTyped, Zenon
  <2> QED
    BY <2>2, Zenon
<1>2. PICK fresh \in {{}} \cup SUBSET (Tx \ Emitted) : E \in [fresh -> R]
  BY Zenon DEF NewEmissions
<1> QED
  BY <1>1, <1>2, Zenon

\* The genesis ledger and its empty routers satisfy the invariant.
LEMMA InitEstablishes == Init => IInv
<1> SUFFICES ASSUME Init PROVE IInv
  BY Zenon
<1>1. TypeOK
  BY EmissionAssumption DEF Init, TypeOK
<1>2. AtMostOnce /\ DirectoryExact
  BY DEF Init, AtMostOnce, DirectoryExact, Emitted
<1>3. OpenInv /\ RetryInv /\ FlagInv /\ UnemittedInv
  BY Zenon DEF Init, OpenInv, RetryInv, FlagInv, UnemittedInv, Current
<1> QED
  BY <1>1, <1>2, <1>3, Zenon DEF IInv

\* Everything the next ledger is built from: what is applied or fails is in the
\* directory, and nothing is both applied and failed.
LEMMA BuildInputs ==
    ASSUME IInv, FixXahauV2, NEW m \in Current, NEW S \in SUBSET Proposed,
           NEW A \in SUBSET Applicable(m, S)
    PROVE  /\ A \subseteq dir
           /\ Failing(m, S) \subseteq dir
           /\ A \cap Failing(m, S) = {}
           /\ \A t \in A : txn[t].fls <= seq + 1 /\ seq + 1 <= txn[t].lls
           /\ \A t \in Failing(m, S) : Expired(t)
<1>1. A \subseteq dir /\ \A t \in A : t \in Tx /\ seq + 1 <= txn[t].lls
  BY Zenon DEF Applicable, Preclaims, StillEmitted
<1>2. \A t \in A : txn[t].fls <= seq + 1
  BY Zenon DEF Applicable, Proposed, Current, IInv, OpenInv
<1>3. \A t \in Failing(m, S) : t \in dir /\ Expired(t)
  BY Zenon DEF Failing, Proposed, Current, IInv, OpenInv
<1>4. A \cap Failing(m, S) = {}
  <2> SUFFICES ASSUME NEW t \in A, t \in Failing(m, S) PROVE FALSE
    BY Zenon
  <2>1. t \in Emitted /\ t \in Tx
    BY <1>1, Zenon DEF IInv, DirectoryExact
  <2>2. txn[t].lls \in Int /\ seq \in Int
    BY <2>1 DEF IInv, TypeOK, Emitted, TxnRecord
  <2> QED
    BY <1>1, <1>3, <2>2 DEF Expired
<1> QED
  BY <1>1, <1>2, <1>3, <1>4, Zenon

\* Building the next ledger preserves the invariant.
LEMMA BuildPreserves ==
    ASSUME IInv, FixXahauV2, NEW m \in Current, NEW S \in SUBSET Proposed,
           NEW A \in SUBSET Applicable(m, S), NEW E \in NewEmissions(A),
           Build(m, S, A, E)
    PROVE  IInv'
<1> DEFINE F == Failing(m, S)
<1>1. A \subseteq dir /\ F \subseteq dir /\ A \cap F = {}
  BY BuildInputs, Zenon
<1>2. DOMAIN E \subseteq Tx \ Emitted /\ \A t \in DOMAIN E : E[t] \in TxnRecord
  BY <1>1, NewEmissionsTyped, Zenon DEF IInv
<1>3. dir \subseteq Tx /\ dir \subseteq Emitted /\ Emitted \subseteq Tx
  BY Zenon DEF IInv, TypeOK, DirectoryExact, Emitted
<1>4. Emitted' = Emitted \cup DOMAIN E
  BY <1>2, EmissionAssumption, Zenon DEF Build, Emitted
<1>5. seq' \in 1 .. SeqLimit + 1 /\ seq' >= seq /\ seq \in Int
  BY EmissionAssumption DEF IInv, TypeOK, Build, NextSeq
<1>6. applied' = [t \in Tx |-> IF t \in A THEN applied[t] + 1 ELSE applied[t]]
  BY Zenon DEF Build
<1>7. failed' = [t \in Tx |-> IF t \in F THEN failed[t] + 1 ELSE failed[t]]
  BY Zenon DEF Build
<1>8. dir' = (dir \ (A \cup F)) \cup DOMAIN E
  BY Zenon DEF Build, Remaining
<1>9. Current' = {}
  BY Zenon DEF Build, Current
<1>10. Proposed \subseteq Item
  BY DEF Proposed, Current, IInv, TypeOK
<1>a. TypeOK'
  <2>1. txn' \in [Tx -> TxnRecord \cup {NoTxn}]
    BY <1>2, Zenon DEF Build, IInv, TypeOK
  <2>2. dir' \in SUBSET Tx /\ lclTxs' \in SUBSET Tx
    BY <1>1, <1>2, <1>3, <1>8, Zenon DEF Build
  <2>3. applied' \in [Tx -> Nat] /\ failed' \in [Tx -> Nat]
    BY <1>6, <1>7 DEF IInv, TypeOK
  <2>4. callback' \in [Tx -> {"none", "found", "missing"}]
    BY Zenon DEF Build, SeenByCallback, IInv, TypeOK
  <2>5. role' \in [Node -> {"current", "built", "behind"}]
    BY Zenon DEF Build
  <2>6. flagged' \in [Node -> SUBSET Item]
    <3>1. {Real(t) : t \in DOMAIN E} \subseteq Item
      BY <1>2, ItemsDiffer, Zenon
    <3> QED
      BY <3>1, Zenon DEF Build, IInv, TypeOK
  <2>7. open' \in [Node -> SUBSET Item] /\ clean' \in [Node -> BOOLEAN] /\ faults' \in 0 .. FaultLimit
    BY Zenon DEF Build, IInv, TypeOK
  <2>8. retry' \in SUBSET Item
    BY <1>10, Zenon DEF Build
  <2> QED
    BY <1>5, <2>1, <2>2, <2>3, <2>4, <2>5, <2>6, <2>7, <2>8, Zenon DEF TypeOK
<1>b. AtMostOnce' /\ DirectoryExact'
  <2> SUFFICES ASSUME NEW t \in Tx
               PROVE  /\ applied'[t] + failed'[t] <= 1
                      /\ t \in dir' <=> t \in Emitted' /\ applied'[t] = 0 /\ failed'[t] = 0
    BY Zenon DEF AtMostOnce, DirectoryExact
  <2>1. applied[t] \in Nat /\ failed[t] \in Nat /\ applied[t] + failed[t] <= 1
    BY Zenon DEF IInv, TypeOK, AtMostOnce
  <2>2. t \in dir <=> t \in Emitted /\ applied[t] = 0 /\ failed[t] = 0
    BY Zenon DEF IInv, DirectoryExact
  <2>3. t \in DOMAIN E => t \notin dir /\ applied[t] = 0 /\ failed[t] = 0
    BY <1>2, <1>3, Zenon DEF IInv, UnemittedInv
  <2> HIDE DEF F
  <2> QED
    BY <1>1, <1>4, <1>6, <1>7, <1>8, <2>1, <2>2, <2>3
<1>c. OpenInv'
  <2> SUFFICES ASSUME NEW n \in Node, NEW t \in Tx, Real(t) \in open'[n]
               PROVE  t \in Emitted' /\ txn'[t].fls <= seq' + 1
    BY <1>9, Zenon DEF OpenInv
  <2>1. t \in Emitted /\ txn[t].fls <= seq + 1
    BY Zenon DEF Build, IInv, OpenInv
  <2>2. txn'[t] = txn[t]
    BY <1>2, <2>1, Zenon DEF Build
  <2>3. txn[t].fls \in Int
    BY <2>1, Zenon DEF IInv, TypeOK, Emitted, TxnRecord
  <2> QED
    BY <1>4, <1>5, <2>1, <2>2, <2>3
<1>d. RetryInv'
  <2> SUFFICES ASSUME NEW t \in Tx, Real(t) \in retry'
               PROVE  t \in Emitted' /\ txn'[t].fls <= seq' + 1
    BY Zenon DEF RetryInv
  <2>1. t \in Emitted /\ txn[t].fls <= seq + 1
    <3>1. Real(t) \in Proposed
      BY Zenon DEF Build
    <3>2. PICK n \in Node : Real(t) \in open[n]
      BY <3>1, Zenon DEF Proposed, Current
    <3> QED
      BY <3>2, Zenon DEF IInv, OpenInv
  <2>2. txn'[t] = txn[t]
    BY <1>2, <2>1, Zenon DEF Build
  <2>3. txn[t].fls \in Int /\ seq \in Int
    <3>1. txn[t] \in TxnRecord /\ seq \in 1 .. SeqLimit + 1
      BY <2>1, Zenon DEF IInv, TypeOK, Emitted
    <3> QED
      BY <3>1 DEF TxnRecord
  <2>4. t \in Emitted'
    BY <1>4, <2>1, Zenon
  <2> HIDE DEF F
  <2>5. txn[t].fls <= seq' + 1
    BY <1>5, <2>1, <2>3
  <2> QED
    BY <2>2, <2>4, <2>5, Zenon
<1>e. FlagInv'
  BY <1>9, Zenon DEF FlagInv
<1>f. UnemittedInv'
  BY <1>1, <1>3, <1>4, <1>6, <1>7, Zenon DEF IInv, UnemittedInv
<1> QED
  BY <1>a, <1>b, <1>c, <1>d, <1>e, <1>f, Zenon DEF IInv

\* Opening the next ledger re-establishes what a current server promises: what
\* it keeps is in the directory, and TxQ::accept marks the rest.
LEMMA AcceptPreserves ==
    ASSUME IInv, FixXahauV2, NEW n \in Node, Accept(n)
    PROVE  IInv'
<1> DEFINE candidates == open[n] \cup (IF role[n] = "built" THEN retry ELSE {})
<1>1. PICK kept \in SUBSET {t \in Tx \ lclTxs : Real(t) \in candidates /\ Preclaims(n, t)} :
          /\ open' = [open EXCEPT ![n] = {Real(t) : t \in kept} \cup Injections(dir \ kept)]
          /\ flagged' = [flagged EXCEPT ![n] = {i \in @ : i[1] = "txn"} \cup Marked(dir \ kept)]
  BY Zenon DEF Accept
<1>2. UNCHANGED <<ledger, retry, faults>> /\ role' = [role EXCEPT ![n] = "current"]
      /\ clean' = [clean EXCEPT ![n] = TRUE]
  BY Zenon DEF Accept
<1>3. seq' = seq /\ txn' = txn /\ dir' = dir /\ lclTxs' = lclTxs /\ applied' = applied
      /\ failed' = failed /\ callback' = callback /\ retry' = retry /\ faults' = faults
  BY <1>2, Zenon DEF ledger
<1>4. Emitted' = Emitted /\ \A t : Expired(t)' <=> Expired(t)
  BY <1>3, Zenon DEF Emitted, Expired
<1>5. \A k \in Node : k # n => (k \in Current' <=> k \in Current)
  BY <1>2, Zenon DEF Current, IInv, TypeOK
<1>6. \A t \in kept : /\ t \in Tx /\ t \in dir /\ Real(t) \in flagged[n]
                      /\ seq + 1 <= txn[t].lls /\ Real(t) \in candidates
  BY Zenon DEF Preclaims, StillEmitted
<1>7. \A t \in kept : txn[t].fls <= seq + 1
  BY <1>6, Zenon DEF IInv, OpenInv, RetryInv
<1>8. dir \subseteq Tx /\ dir \subseteq Emitted
  BY Zenon DEF IInv, TypeOK, DirectoryExact
<1>9. \A t \in kept : ~Expired(t)
  <2> SUFFICES ASSUME NEW t \in kept PROVE ~Expired(t)
    BY Zenon
  <2>1. txn[t].lls \in Int /\ seq \in Int
    BY <1>6, <1>8 DEF IInv, TypeOK, Emitted, TxnRecord
  <2> QED
    BY <1>6, <2>1 DEF Expired
<1>10. open'[n] = {Real(t) : t \in kept} \cup Injections(dir \ kept)
       /\ flagged'[n] = {i \in flagged[n] : i[1] = "txn"} \cup Marked(dir \ kept)
  BY <1>1, Zenon DEF IInv, TypeOK
<1>11. \A t \in Tx : Real(t) \in open'[n] => t \in kept \/ (t \in dir /\ Injected(t))
  <2> SUFFICES ASSUME NEW t \in Tx, Real(t) \in open'[n], t \notin kept
               PROVE  t \in dir /\ Injected(t)
    BY Zenon
  <2>1. Real(t) \notin {Real(u) : u \in kept}
    BY <1>6, ItemsDiffer, Zenon
  <2>2. Real(t) \in Injections(dir \ kept)
    BY <1>10, <2>1, Zenon
  <2> QED
    BY <1>8, <2>2, ItemsDiffer, Zenon DEF Injections
<1>12. \A t \in Tx : Failure(t) \in open'[n] => t \in dir /\ Expired(t)
  <2> SUFFICES ASSUME NEW t \in Tx, Failure(t) \in open'[n]
               PROVE  t \in dir /\ Expired(t)
    BY Zenon
  <2>1. Failure(t) \notin {Real(u) : u \in kept}
    BY <1>6, ItemsDiffer, Zenon
  <2>2. Failure(t) \in Injections(dir \ kept)
    BY <1>10, <2>1, Zenon
  <2> QED
    BY <1>8, <2>2, ItemsDiffer, Zenon DEF Injections
<1>a. TypeOK'
  <2>1. Injections(dir \ kept) \subseteq Item /\ Marked(dir \ kept) \subseteq Item
    BY <1>8, ItemsDiffer DEF Injections, Marked
  <2>2. {Real(t) : t \in kept} \subseteq Item
    BY <1>6, ItemsDiffer, Zenon
  <2>3. open' \in [Node -> SUBSET Item]
    BY <1>1, <2>1, <2>2, Zenon DEF IInv, TypeOK
  <2>4. flagged' \in [Node -> SUBSET Item]
    <3>1. {i \in flagged[n] : i[1] = "txn"} \subseteq Item
      BY Zenon DEF IInv, TypeOK
    <3> QED
      BY <1>1, <2>1, <3>1, Zenon DEF IInv, TypeOK
  <2>5. role' \in [Node -> {"current", "built", "behind"}] /\ clean' \in [Node -> BOOLEAN]
    BY <1>2, Zenon DEF IInv, TypeOK
  <2> QED
    BY <1>3, <2>3, <2>4, <2>5, Zenon DEF IInv, TypeOK
<1>b. AtMostOnce' /\ DirectoryExact' /\ UnemittedInv' /\ RetryInv'
  BY <1>3, <1>4, Zenon DEF IInv, AtMostOnce, DirectoryExact, UnemittedInv, RetryInv
<1>c. OpenInv'
  <2> SUFFICES ASSUME NEW k \in Node, NEW t \in Tx
               PROVE  /\ Real(t) \in open'[k] => t \in Emitted /\ txn[t].fls <= seq + 1
                      /\ k \in Current' /\ Real(t) \in open'[k] => t \in dir
                      /\ k \in Current' /\ Failure(t) \in open'[k] => t \in dir /\ Expired(t)
    BY <1>3, <1>4, Zenon DEF OpenInv
  <2>1. CASE k # n
    <3>1. open'[k] = open[k]
      BY <1>1, <2>1, Zenon DEF IInv, TypeOK
    <3> QED
      BY <1>5, <2>1, <3>1, Zenon DEF IInv, OpenInv
  <2>2. CASE k = n
    <3>1. t \in dir /\ Injected(t) => txn[t].fls <= seq + 1
      <4> SUFFICES ASSUME t \in dir, Injected(t) PROVE txn[t].fls <= seq + 1
        BY Zenon
      <4>1. txn[t].fls \in Int /\ seq \in Int
        BY <1>8 DEF IInv, TypeOK, Emitted, TxnRecord
      <4> QED
        BY <4>1 DEF Injected
    <3>2. Real(t) \in open'[n] => t \in dir /\ txn[t].fls <= seq + 1
      BY <1>6, <1>7, <1>11, <3>1, Zenon
    <3> QED
      BY <1>8, <1>12, <2>2, <3>2, Zenon
  <2> QED
    BY <2>1, <2>2, Zenon
<1>d. FlagInv'
  <2> SUFFICES ASSUME NEW k \in Current', clean'[k], NEW t \in dir
               PROVE  Real(t) \in flagged'[k] /\ (Expired(t) => Failure(t) \in flagged'[k])
    BY <1>3, <1>4, Zenon DEF FlagInv
  <2>0. k \in Node
    BY Zenon DEF Current
  <2>1. CASE k # n
    <3>1. flagged'[k] = flagged[k] /\ clean'[k] = clean[k]
      BY <1>1, <1>2, <2>0, <2>1, Zenon DEF IInv, TypeOK
    <3> QED
      BY <1>5, <2>0, <2>1, <3>1, Zenon DEF IInv, FlagInv
  <2>2. CASE k = n
    <3>1. CASE t \in kept
      <4>1. Real(t)[1] = "txn"
        BY Zenon DEF Real
      <4> QED
        BY <1>6, <1>9, <1>10, <2>2, <3>1, <4>1, Zenon
    <3>2. CASE t \notin kept
      BY <1>10, <2>2, <3>2, Zenon DEF Marked, Injections
    <3> QED
      BY <3>1, <3>2, Zenon
  <2> QED
    BY <2>1, <2>2, Zenon
<1> QED
  BY <1>a, <1>b, <1>c, <1>d, Zenon DEF IInv

\* A step that leaves the ledger and the retries alone, and at every server
\* only forgets: open ledgers and flags shrink, and where flags were lost the
\* server is no longer clean or no longer current.
LEMMA ForgettingPreserves ==
    ASSUME IInv, TypeOK',
           UNCHANGED <<seq, txn, dir, lclTxs, applied, failed, retry>>,
           \A n \in Node : open'[n] \subseteq open[n],
           \A n \in Node : n \in Current' => n \in Current \/ open'[n] = {},
           \A n \in Node : n \in Current' /\ clean'[n] =>
                               n \in Current /\ clean[n] /\ flagged'[n] = flagged[n]
    PROVE  IInv'
<1>1. Emitted' = Emitted /\ \A t : Expired(t)' <=> Expired(t)
  BY Zenon DEF Emitted, Expired
<1>2. AtMostOnce' /\ DirectoryExact' /\ UnemittedInv' /\ RetryInv'
  BY <1>1, Zenon DEF IInv, AtMostOnce, DirectoryExact, UnemittedInv, RetryInv
<1>3. OpenInv'
  BY <1>1, Zenon DEF IInv, OpenInv
<1>4. FlagInv'
  <2> SUFFICES ASSUME NEW n \in Current', clean'[n], NEW t \in dir
               PROVE  Real(t) \in flagged'[n] /\ (Expired(t) => Failure(t) \in flagged'[n])
    BY <1>1, Zenon DEF FlagInv
  <2>1. n \in Node
    BY Zenon DEF Current
  <2> QED
    BY <2>1, Zenon DEF IInv, FlagInv
<1> QED
  BY <1>2, <1>3, <1>4, Zenon DEF IInv

\* Restarts, expiries and aborted builds only forget.
LEMMA FaultPreserves ==
    ASSUME IInv, Abort \/ \E n \in Node : Restart(n) \/ Expire(n)
    PROVE  IInv'
<1>1. ASSUME NEW n \in Node, Restart(n) PROVE IInv'
  <2>1. PICK r \in {"behind", "current"} : role' = [role EXCEPT ![n] = r]
    BY <1>1, Zenon DEF Restart
  <2>2. TypeOK'
    <3>1. /\ open' \in [Node -> SUBSET Item] /\ flagged' \in [Node -> SUBSET Item]
          /\ clean' \in [Node -> BOOLEAN]
      BY <1>1, Zenon DEF Restart, IInv, TypeOK
    <3>2. role' \in [Node -> {"current", "built", "behind"}]
      BY <2>1, Zenon DEF IInv, TypeOK
    <3>3. faults' \in 0 .. FaultLimit
      BY <1>1, EmissionAssumption DEF Restart, IInv, TypeOK
    <3>4. UNCHANGED <<ledger, retry>>
      BY <1>1, Zenon DEF Restart
    <3> QED
      BY <3>1, <3>2, <3>3, <3>4, Zenon DEF ledger, IInv, TypeOK
  <2>3. \A k \in Node : /\ k # n => open'[k] = open[k] /\ flagged'[k] = flagged[k]
                                    /\ clean'[k] = clean[k] /\ role'[k] = role[k]
                        /\ k = n => open'[k] = {} /\ clean'[k] = FALSE
    BY <1>1, <2>1, Zenon DEF Restart, IInv, TypeOK
  <2>4. UNCHANGED <<seq, txn, dir, lclTxs, applied, failed, retry>>
    BY <1>1, Zenon DEF Restart, ledger
  <2>5. \A k \in Node : k # n => (k \in Current' <=> k \in Current)
    BY <2>3, Zenon DEF Current
  <2> QED
    BY <2>2, <2>3, <2>4, <2>5, ForgettingPreserves, Zenon
<1>2. ASSUME NEW n \in Node, Expire(n) PROVE IInv'
  <2>1. TypeOK'
    <3>1. flagged' \in [Node -> SUBSET Item] /\ clean' \in [Node -> BOOLEAN]
      BY <1>2 DEF Expire, IInv, TypeOK
    <3>2. faults' \in 0 .. FaultLimit
      <4>1. faults \in 0 .. FaultLimit /\ faults < FaultLimit /\ faults' = faults + 1
        BY <1>2, Zenon DEF Expire, IInv, TypeOK
      <4> QED
        BY <4>1, EmissionAssumption, SMTT(30)
    <3>3. UNCHANGED <<ledger, role, open, retry>>
      BY <1>2, Zenon DEF Expire
    <3> QED
      BY <3>1, <3>2, <3>3, Zenon DEF ledger, IInv, TypeOK
  <2>2. \A k \in Node : /\ k # n => flagged'[k] = flagged[k] /\ clean'[k] = clean[k]
                        /\ k = n => clean'[k] = FALSE
    <3>1. PICK f : flagged' = [flagged EXCEPT ![n] = f]
      BY <1>2, Zenon DEF Expire
    <3>2. /\ clean' = [clean EXCEPT ![n] = FALSE]
          /\ DOMAIN flagged = Node /\ DOMAIN clean = Node
      BY <1>2, Zenon DEF Expire, IInv, TypeOK
    <3> QED
      BY <3>1, <3>2, Zenon
  <2>3. UNCHANGED <<seq, txn, dir, lclTxs, applied, failed, retry>> /\ UNCHANGED <<role, open>>
    BY <1>2, Zenon DEF Expire, ledger
  <2>4. Current' = Current
    BY <2>3, Zenon DEF Current
  <2> QED
    BY <2>1, <2>2, <2>3, <2>4, ForgettingPreserves, Zenon
<1>3. ASSUME Abort PROVE IInv'
  <2>1. TypeOK'
    <3>0. /\ open' = [n \in Node |-> IF n \in Current THEN {} ELSE open[n]]
          /\ flagged' = [n \in Node |-> IF n \in Current THEN {} ELSE flagged[n]]
          /\ clean' = [n \in Node |-> n \notin Current /\ clean[n]]
      BY <1>3, Zenon DEF Abort
    <3>1. /\ open' \in [Node -> SUBSET Item] /\ flagged' \in [Node -> SUBSET Item]
          /\ clean' \in [Node -> BOOLEAN]
      BY <3>0, Zenon DEF IInv, TypeOK
    <3>2. PICK m \in Current, S \in SUBSET Proposed : callback' = SeenByCallback(Failing(m, S))
      BY <1>3, Zenon DEF Abort
    <3>3. callback' \in [Tx -> {"none", "found", "missing"}]
      BY <3>2, Zenon DEF SeenByCallback, IInv, TypeOK
    <3>4. UNCHANGED <<seq, txn, dir, lclTxs, applied, failed, role, retry>>
      BY <1>3, Zenon DEF Abort
    <3>5. faults < FaultLimit /\ faults' = faults + 1
      BY <1>3, Zenon DEF Abort
    <3>6. faults' \in 0 .. FaultLimit
      BY <3>5, EmissionAssumption DEF IInv, TypeOK
    <3> QED
      BY <3>1, <3>3, <3>4, <3>6, Zenon DEF IInv, TypeOK
  <2>2. UNCHANGED <<seq, txn, dir, lclTxs, applied, failed, retry>> /\ UNCHANGED role
    BY <1>3, Zenon DEF Abort
  <2>3. Current' = Current
    BY <2>2, Zenon DEF Current
  <2>4. \A k \in Node : open'[k] \subseteq open[k] /\ (k \in Current => ~clean'[k])
    BY <1>3, Zenon DEF Abort
  <2> QED
    BY <2>1, <2>2, <2>3, <2>4, ForgettingPreserves, Zenon
<1> QED
  BY <1>1, <1>2, <1>3, Zenon

\* The inductive step.
LEMMA Inductive ==
    ASSUME FixXahauV2
    PROVE  IInv /\ [Next]_vars => IInv'
<1> SUFFICES ASSUME IInv, [Next]_vars PROVE IInv'
  BY Zenon
<1>1. CASE CloseLedger
  <2>1. PICK m \in Current, S \in SUBSET Proposed :
            \E A \in SUBSET Applicable(m, S) : \E E \in NewEmissions(A) : Build(m, S, A, E)
    BY <1>1, Zenon DEF CloseLedger
  <2>2. PICK A \in SUBSET Applicable(m, S) : \E E \in NewEmissions(A) : Build(m, S, A, E)
    BY <2>1, Zenon
  <2>3. PICK E \in NewEmissions(A) : Build(m, S, A, E)
    BY <2>2, Zenon
  <2> QED
    BY <2>3, BuildPreserves, Zenon
<1>2. CASE \E n \in Node : Accept(n)
  BY <1>2, AcceptPreserves, Zenon
<1>3. CASE Abort \/ \E n \in Node : Restart(n) \/ Expire(n)
  BY <1>3, FaultPreserves, Zenon
<1>4. CASE UNCHANGED vars
  BY <1>4, Zenon DEF vars, ledger, servers, IInv, TypeOK, AtMostOnce, DirectoryExact, OpenInv,
              RetryInv, FlagInv, UnemittedInv, Emitted, Current, Expired
<1> QED
  BY <1>1, <1>2, <1>3, <1>4, Zenon DEF Next

\* The invariant holds in every reachable state, with fixXahauV2.
LEMMA InvariantHolds ==
    ASSUME FixXahauV2
    PROVE  Spec => []IInv
BY InitEstablishes, Inductive, PTL DEF Spec

-----------------------------------------------------------------------------
\* With fixXahauV2 the state of ledgers, open ledgers and routers keeps its type.
THEOREM EmittedTypeCorrect ==
    ASSUME FixXahauV2
    PROVE  Spec => []TypeOK
<1>1. IInv => TypeOK
  BY Zenon DEF IInv
<1> QED
  BY <1>1, InvariantHolds, PTL

\* With fixXahauV2 an emitted transaction is applied once, or fails once, or is
\* still pending, however servers fall behind, restart or lose router flags:
\* tefNONDIR_EMIT and the directory entry are what makes it so.
THEOREM EmittedAtMostOnce ==
    ASSUME FixXahauV2
    PROVE  Spec => []AtMostOnce
<1>1. IInv => AtMostOnce
  BY Zenon DEF IInv
<1> QED
  BY <1>1, InvariantHolds, PTL

\* With fixXahauV2 removeEmissionEntry and applyEmitFailure together keep the
\* emitted directory equal to the set of pending transactions.
THEOREM DirectoryAlwaysExact ==
    ASSUME FixXahauV2
    PROVE  Spec => []DirectoryExact
<1>1. IInv => DirectoryExact
  BY Zenon DEF IInv
<1> QED
  BY <1>1, InvariantHolds, PTL

\* With fixXahauV2 a server without a fault since its last accept has marked
\* SF_EMITTED all that any current server's open ledger can propose.
THEOREM RouterAlwaysCovers ==
    ASSUME FixXahauV2
    PROVE  Spec => []RouterCoversPositions
<1>1. IInv => RouterCoversPositions
  <2> SUFFICES ASSUME IInv, NEW n \in Current, NEW m \in Current, clean[n], NEW i \in open[m]
               PROVE  i \in flagged[n]
    BY Zenon DEF RouterCoversPositions
  <2>1. m \in Node /\ i \in Item
    BY Zenon DEF Current, IInv, TypeOK
  <2>2. PICK t \in Tx : i = Real(t) \/ i = Failure(t)
    BY <2>1 DEF Item, Real, Failure
  <2> QED
    BY <2>1, <2>2, Zenon DEF IInv, OpenInv, FlagInv
<1> QED
  BY <1>1, InvariantHolds, PTL

\* What one step does to the history variables, from a state of the invariant.
LEMMA HistoryStep ==
    ASSUME FixXahauV2, IInv, [Next]_vars, NEW t \in Tx
    PROVE  /\ applied'[t] # applied[t] => txn[t].fls <= seq + 1 /\ seq + 1 <= txn[t].lls
           /\ failed'[t] # failed[t] => txn[t].lls < seq + 1
<1>1. CASE CloseLedger
  <2>1. PICK m \in Current, S \in SUBSET Proposed :
            \E A \in SUBSET Applicable(m, S) : \E E \in NewEmissions(A) : Build(m, S, A, E)
    BY <1>1, Zenon DEF CloseLedger
  <2>2. PICK A \in SUBSET Applicable(m, S) : \E E \in NewEmissions(A) : Build(m, S, A, E)
    BY <2>1, Zenon
  <2>2a. PICK E \in NewEmissions(A) : Build(m, S, A, E)
    BY <2>2, Zenon
  <2> DEFINE F == Failing(m, S)
  <2>2b. /\ applied' = [u \in Tx |-> IF u \in A THEN applied[u] + 1 ELSE applied[u]]
         /\ failed' = [u \in Tx |-> IF u \in F THEN failed[u] + 1 ELSE failed[u]]
    BY <2>2a, Zenon DEF Build
  <2> HIDE DEF F
  <2>3. applied'[t] # applied[t] => t \in A
    BY <2>2b, Zenon
  <2>4. failed'[t] # failed[t] => t \in F
    BY <2>2b, Zenon
  <2> USE DEF F
  <2>5. /\ \A u \in A : txn[u].fls <= seq + 1 /\ seq + 1 <= txn[u].lls
        /\ \A u \in Failing(m, S) : Expired(u)
    BY BuildInputs, Zenon
  <2> QED
    BY <2>3, <2>4, <2>5, Zenon DEF Expired
<1>2. CASE ~CloseLedger
  <2>1. applied' = applied /\ failed' = failed
    BY <1>2, Zenon DEF Next, vars, ledger, Accept, Restart, Expire, Abort
  <2> QED
    BY <2>1, Zenon
<1> QED
  BY <1>1, <1>2, Zenon

\* With fixXahauV2 no ledger outside FirstLedgerSequence..LastLedgerSequence
\* applies an emitted transaction, although only TxQ::accept looks at the first:
\* everything a server can propose went through an injection in its window.
THEOREM AppliedOnlyInWindow ==
    ASSUME FixXahauV2
    PROVE  Spec => AppliedInWindow
<1>1. IInv /\ [Next]_vars =>
          [\A t \in Tx : applied'[t] # applied[t] =>
               txn[t].fls <= seq + 1 /\ seq + 1 <= txn[t].lls]_vars
  BY HistoryStep, Zenon
<1> QED
  BY <1>1, InvariantHolds, PTL DEF Spec, AppliedInWindow

\* With fixXahauV2 EMIT_FAILURE takes effect only after the last ledger of the
\* transaction it is for.
THEOREM FailedOnlyAfterWindow ==
    ASSUME FixXahauV2
    PROVE  Spec => FailedAfterWindow
<1>1. IInv /\ [Next]_vars =>
          [\A t \in Tx : failed'[t] # failed[t] => txn[t].lls < seq + 1]_vars
  BY HistoryStep, Zenon
<1> QED
  BY <1>1, InvariantHolds, PTL DEF Spec, FailedAfterWindow
-----------------------------------------------------------------------------
(* EmittedTxn implements Emission.                                         *)

\* In a state of the invariant, what Status says of a transaction.
LEMMA StatusIs ==
    ASSUME IInv, NEW t \in Tx
    PROVE  /\ Status[t] = "pending" <=> t \in dir
           /\ Status[t] = "none" <=> t \notin Emitted
           /\ Status[t] = "applied" <=> applied[t] > 0
           /\ Status[t] = "failed" <=> failed[t] > 0
<1>1. applied[t] \in Nat /\ failed[t] \in Nat /\ applied[t] + failed[t] <= 1
  BY Zenon DEF IInv, TypeOK, AtMostOnce
<1>2. t \in dir <=> t \in Emitted /\ applied[t] = 0 /\ failed[t] = 0
  BY Zenon DEF IInv, DirectoryExact
<1>3. t \notin Emitted => applied[t] = 0 /\ failed[t] = 0
  BY Zenon DEF IInv, UnemittedInv
<1> QED
  BY <1>1, <1>2, <1>3 DEF Status

\* The ledger that Build makes is a ledger of Emission.
LEMMA BuildIsLedger ==
    ASSUME IInv, FixXahauV2, NEW m \in Current, NEW S \in SUBSET Proposed,
           NEW A \in SUBSET Applicable(m, S), NEW E \in NewEmissions(A),
           Build(m, S, A, E)
    PROVE  Promise!Next
<1> DEFINE F == Failing(m, S)
           D == DOMAIN E
<1>1. /\ A \subseteq dir /\ F \subseteq dir /\ A \cap F = {}
      /\ \A t \in A : txn[t].fls <= seq + 1 /\ seq + 1 <= txn[t].lls
      /\ \A t \in F : txn[t].lls < seq + 1
  BY BuildInputs, Zenon DEF Expired
<1>2. D \subseteq Tx \ Emitted
  BY <1>1, NewEmissionsTyped, Zenon DEF IInv
<1>3. dir \subseteq Tx /\ dir \subseteq Emitted
  BY Zenon DEF IInv, TypeOK, DirectoryExact
<1>4. /\ seq' = NextSeq(seq)
      /\ txn' = [t \in Tx |-> IF t \in D THEN E[t] ELSE txn[t]]
      /\ dir' = (dir \ (A \cup F)) \cup D
      /\ applied' = [t \in Tx |-> IF t \in A THEN applied[t] + 1 ELSE applied[t]]
      /\ failed' = [t \in Tx |-> IF t \in F THEN failed[t] + 1 ELSE failed[t]]
  BY Zenon DEF Build, Remaining
<1>6. \A t \in D : E[t] \in TxnRecord /\ seq + 1 < E[t].lls
  BY <1>1, NewEmissionsTyped, Zenon DEF IInv
<1>7. A \in SUBSET Promise!Applicable
  BY <1>1, <1>3, StatusIs, Zenon DEF Promise!Applicable, Promise!Is
<1>8. F \in SUBSET Promise!Expired
  BY <1>1, <1>3, StatusIs, Zenon DEF Promise!Expired, Promise!Is
<1>9. D \in SUBSET Promise!Is("none")
  BY <1>2, StatusIs, Zenon DEF Promise!Is
<1>10. \A t \in Tx :
           Status'[t] = CASE t \in A -> "applied" [] t \in F -> "failed" [] t \in D -> "pending"
                          [] OTHER -> Status[t]
  <2> SUFFICES ASSUME NEW t \in Tx
               PROVE  Status'[t] = CASE t \in A -> "applied" [] t \in F -> "failed"
                                     [] t \in D -> "pending" [] OTHER -> Status[t]
    BY Zenon
  <2>1. applied[t] \in Nat /\ failed[t] \in Nat
    BY Zenon DEF IInv, TypeOK
  <2>2. Status'[t] = CASE t \in dir' -> "pending" [] applied'[t] > 0 -> "applied"
                       [] failed'[t] > 0 -> "failed" [] OTHER -> "none"
    BY Zenon DEF Status
  <2>3. t \in dir => applied[t] = 0 /\ failed[t] = 0
    BY Zenon DEF IInv, DirectoryExact
  <2>4. CASE t \in A
    BY <1>1, <1>2, <1>3, <1>4, <2>1, <2>2, <2>3, <2>4
  <2>5. CASE t \in F
    BY <1>1, <1>2, <1>3, <1>4, <2>1, <2>2, <2>3, <2>5
  <2>6. CASE t \in D
    <3>1. t \notin A /\ t \notin F /\ applied[t] = 0 /\ failed[t] = 0
      BY <1>1, <1>2, <1>3, <2>6, Zenon DEF IInv, UnemittedInv
    <3>2. t \in dir' /\ applied'[t] = 0 /\ failed'[t] = 0
      BY <1>4, <2>6, <3>1, Zenon
    <3> QED
      BY <2>2, <2>6, <3>1, <3>2
  <2>7. CASE t \notin A \cup F \cup D
    <3>1. (t \in dir' <=> t \in dir) /\ applied'[t] = applied[t] /\ failed'[t] = failed[t]
      BY <1>4, <2>7, Zenon
    <3> QED
      BY <2>2, <2>7, <3>1 DEF Status
  <2> QED
    BY <2>4, <2>5, <2>6, <2>7, Zenon
<1>11. seq' \in {seq, seq + 1}
  BY <1>4, Zenon DEF NextSeq
<1>12. \A t \in Tx \ D : txn'[t] = txn[t]
  BY <1>4, Zenon
<1>13. \A t \in D : txn'[t] # NoTxn /\ seq + 1 < txn'[t].lls
  BY <1>2, <1>4, <1>6, EmissionAssumption, Zenon
<1>14. Status' = [t \in Tx |-> CASE t \in A -> "applied" [] t \in F -> "failed"
                                 [] t \in D -> "pending" [] OTHER -> Status[t]]
  BY <1>10, Zenon DEF Status
<1>15. Promise!Ledger(A, F, D)
  BY <1>11, <1>12, <1>13, <1>14, Zenon DEF Promise!Ledger
<1> QED
  BY <1>7, <1>8, <1>9, <1>15, Zenon DEF Promise!Next

\* With fixXahauV2 the network of servers implements Emission: the promise of
\* emit() holds for any number of servers, transactions, faults and any window.
THEOREM EmissionImplemented ==
    ASSUME FixXahauV2
    PROVE  Spec => KeepsPromise
<1>1. Init => Promise!Init
  BY DEF Init, Promise!Init, Status
<1>2. IInv /\ [Next]_vars => [Promise!Next]_(Promise!vars)
  <2> SUFFICES ASSUME IInv, [Next]_vars PROVE [Promise!Next]_(Promise!vars)
    BY Zenon
  <2>1. CASE CloseLedger
    <3>1. PICK m \in Current, S \in SUBSET Proposed :
              \E A \in SUBSET Applicable(m, S) : \E E \in NewEmissions(A) : Build(m, S, A, E)
      BY <2>1, Zenon DEF CloseLedger
    <3>2. PICK A \in SUBSET Applicable(m, S) : \E E \in NewEmissions(A) : Build(m, S, A, E)
      BY <3>1, Zenon
    <3>3. PICK E \in NewEmissions(A) : Build(m, S, A, E)
      BY <3>2, Zenon
    <3> QED
      BY <3>3, BuildIsLedger, Zenon
  <2>2. CASE ~CloseLedger
    <3>1. seq' = seq /\ txn' = txn /\ dir' = dir /\ applied' = applied /\ failed' = failed
      BY <2>2, Zenon DEF Next, vars, ledger, Accept, Restart, Expire, Abort
    <3> QED
      BY <3>1 DEF Promise!vars, Status
  <2> QED
    BY <2>1, <2>2, Zenon
<1> QED
  BY <1>1, <1>2, InvariantHolds, PTL DEF Spec, KeepsPromise, Promise!Spec

-----------------------------------------------------------------------------
(* Generations.                                                            *)

\* s is the chain of emissions that led to t, for the transactions f emitted in S.
ChainTo(f, S, t, s) ==
    /\ s \in [1 .. f[t].gen -> S]
    /\ s[f[t].gen] = t
    /\ \A i \in 1 .. f[t].gen : f[s[i]].parent = IF i = 1 THEN NoTxn ELSE s[i - 1]

Chained(f, S) ==
    \A t \in S : f[t].gen \in 1 .. GenerationLimit - 1 /\ \E s : ChainTo(f, S, t, s)

\* A chain remains one when transactions are added.
LEMMA ChainKept ==
    ASSUME NEW f, NEW g, NEW S, NEW T, S \subseteq T, \A u \in S : g[u] = f[u],
           NEW t \in S, NEW s, ChainTo(f, S, t, s)
    PROVE  ChainTo(g, T, t, s)
<1>1. g[t] = f[t]
  BY Zenon
<1>2. \A i \in 1 .. f[t].gen : s[i] \in S /\ g[s[i]] = f[s[i]]
  BY Zenon DEF ChainTo
<1>3. s \in [1 .. f[t].gen -> T]
  BY Zenon DEF ChainTo
<1> QED
  BY <1>1, <1>2, <1>3, Zenon DEF ChainTo

\* What a transaction emits continues its chain.
LEMMA ChainGrows ==
    ASSUME NEW g, NEW T, NEW t \in T, NEW p \in T, NEW s, ChainTo(g, T, p, s),
           g[p].gen \in Nat \ {0}, g[t].gen = g[p].gen + 1, g[t].parent = p
    PROVE  \E r : ChainTo(g, T, t, r)
<1> DEFINE n == g[p].gen
           r == [i \in 1 .. n + 1 |-> IF i = n + 1 THEN t ELSE s[i]]
<1>1. n \in Nat \ {0} /\ g[t].gen = n + 1 /\ n # n + 1
  OBVIOUS
<1>2. s[n] = p /\ \A i \in 1 .. n : s[i] \in T /\ g[s[i]].parent = IF i = 1 THEN NoTxn ELSE s[i - 1]
  BY Zenon DEF ChainTo
<1> HIDE DEF n
<1>3. r \in [1 .. n + 1 -> T] /\ r[n + 1] = t /\ \A i \in 1 .. n : r[i] = s[i]
  BY <1>1, <1>2
<1> HIDE DEF r
<1>4. ASSUME NEW i \in 1 .. n + 1
      PROVE  g[r[i]].parent = IF i = 1 THEN NoTxn ELSE r[i - 1]
  <2>1. CASE i = n + 1
    <3>1. i # 1 /\ i - 1 = n /\ n \in 1 .. n
      BY <1>1, <2>1
    <3>2. r[i] = t /\ r[i - 1] = p
      BY <1>2, <1>3, <2>1, <3>1, Zenon
    <3> QED
      BY <3>1, <3>2, Zenon
  <2>2. CASE i # n + 1
    <3>1. i \in 1 .. n /\ (i # 1 => i - 1 \in 1 .. n)
      BY <1>1, <2>2
    <3> QED
      BY <1>2, <1>3, <3>1, Zenon
  <2> QED
    BY <2>1, <2>2, Zenon
<1> QED
  BY <1>1, <1>3, <1>4 DEF ChainTo

\* A transaction that a hook emits for one that was not emitted starts a chain.
LEMMA ChainStarts ==
    ASSUME NEW g, NEW T, NEW t \in T, g[t].gen = 1, g[t].parent = NoTxn
    PROVE  \E r : ChainTo(g, T, t, r)
<1> DEFINE r == [i \in 1 .. 1 |-> t]
<1>1. 1 .. 1 = {1}
  OBVIOUS
<1>2. r \in [1 .. 1 -> T] /\ r[1] = t
  BY <1>1, Zenon
<1> HIDE DEF r
<1> QED
  BY <1>1, <1>2, Zenon DEF ChainTo

\* A new ledger keeps all chains and continues some.
LEMMA BuildChains ==
    ASSUME IInv, FixXahauV2, Chained(txn, Emitted), NEW m \in Current, NEW S \in SUBSET Proposed,
           NEW A \in SUBSET Applicable(m, S), NEW E \in NewEmissions(A),
           Build(m, S, A, E)
    PROVE  Chained(txn', Emitted')
<1>1. A \subseteq Emitted
  BY BuildInputs, Zenon DEF IInv, DirectoryExact, TypeOK
<1>2. DOMAIN E \subseteq Tx \ Emitted /\ \A t \in DOMAIN E : E[t] \in TxnRecord
  BY BuildInputs, NewEmissionsTyped, Zenon DEF IInv
<1>3. /\ Emitted' = Emitted \cup DOMAIN E
      /\ \A t \in Emitted : txn'[t] = txn[t]
      /\ \A t \in DOMAIN E : txn'[t] = E[t]
  BY <1>2, EmissionAssumption, Zenon DEF Build, Emitted
<1>4. \A t \in DOMAIN E : \E p \in A \cup {NoTxn} : E[t] \in EmitRules(seq + 1, p)
  <2> DEFINE R == UNION {EmitRules(seq + 1, p) : p \in A \cup {NoTxn}}
  <2>1. PICK fresh \in {{}} \cup SUBSET (Tx \ Emitted) : E \in [fresh -> R]
    BY Zenon DEF NewEmissions
  <2> QED
    BY <2>1, Zenon
<1>5. GenerationLimit \in Nat
  BY EmissionAssumption, Zenon
<1> DEFINE g == txn'
           T == Emitted'
<1>6. ASSUME NEW t \in Emitted
      PROVE  g[t].gen \in 1 .. GenerationLimit - 1 /\ \E s : ChainTo(g, T, t, s)
  <2>1. PICK s : ChainTo(txn, Emitted, t, s)
    BY Zenon DEF Chained
  <2>2. Emitted \subseteq T /\ \A u \in Emitted : g[u] = txn[u]
    BY <1>3, Zenon
  <2> HIDE DEF g, T
  <2>3. ChainTo(g, T, t, s)
    BY <2>1, <2>2, ChainKept, Zenon
  <2>4. g[t].gen \in 1 .. GenerationLimit - 1
    BY <2>2, Zenon DEF Chained
  <2> QED
    BY <2>3, <2>4, Zenon
<1>7. ASSUME NEW t \in DOMAIN E
      PROVE  g[t].gen \in 1 .. GenerationLimit - 1 /\ \E s : ChainTo(g, T, t, s)
  <2>1. PICK p \in A \cup {NoTxn} : E[t] \in EmitRules(seq + 1, p)
    BY <1>4, <1>7, Zenon
  <2>2. /\ E[t].gen = EmitGeneration(p) /\ E[t].parent = p /\ EmitGeneration(p) < GenerationLimit
    BY <2>1 DEF EmitRules
  <2>3. g[t] = E[t] /\ t \in T
    BY <1>3, <1>7, Zenon
  <2>4. CASE p = NoTxn
    <3>1. g[t].gen = 1 /\ g[t].parent = NoTxn /\ 1 < GenerationLimit
      BY <2>2, <2>3, <2>4 DEF EmitGeneration, Generation
    <3> HIDE DEF g, T
    <3>2. \E s : ChainTo(g, T, t, s)
      BY <2>3, <3>1, ChainStarts, Zenon
    <3> QED
      BY <1>5, <3>1, <3>2
  <2>5. CASE p # NoTxn
    <3>1. p \in Emitted /\ p \in T /\ g[p] = txn[p]
      BY <1>1, <1>3, <2>5, Zenon
    <3>2. g[t].gen = g[p].gen + 1 /\ g[t].parent = p /\ g[p].gen + 1 < GenerationLimit
      BY <2>2, <2>3, <2>5, <3>1, Zenon DEF EmitGeneration, Generation
    <3> HIDE DEF g, T
    <3>3. g[p].gen \in 1 .. GenerationLimit - 1 /\ \E s : ChainTo(g, T, p, s)
      BY <1>6, <3>1, Zenon
    <3>4. g[p].gen \in Nat \ {0} /\ g[t].gen \in 1 .. GenerationLimit - 1
      BY <1>5, <3>2, <3>3
    <3>5. \E s : ChainTo(g, T, t, s)
      BY <2>3, <3>1, <3>2, <3>3, <3>4, ChainGrows, Zenon
    <3> QED
      BY <3>4, <3>5, Zenon
  <2> QED
    BY <2>4, <2>5, Zenon
<1> QED
  BY <1>3, <1>6, <1>7, Zenon DEF Chained

\* With fixXahauV2 every emitted transaction ends a chain of emissions as long as
\* its generation says, which is below the limit of emit(), in any network: hooks
\* that trigger each other come to an end.
THEOREM ChainAlwaysBounded ==
    ASSUME FixXahauV2
    PROVE  Spec => []ChainBounded
<1> DEFINE C == Chained(txn, Emitted)
<1>1. Init => C
  BY DEF Init, Emitted, Chained
<1>2. IInv /\ C /\ [Next]_vars => C'
  <2> SUFFICES ASSUME IInv, C, [Next]_vars PROVE Chained(txn', Emitted')
    BY Zenon DEF Chained, ChainTo
  <2>1. CASE CloseLedger
    <3>1. PICK m \in Current, S \in SUBSET Proposed :
              \E A \in SUBSET Applicable(m, S) : \E E \in NewEmissions(A) : Build(m, S, A, E)
      BY <2>1, Zenon DEF CloseLedger
    <3>2. PICK A \in SUBSET Applicable(m, S) : \E E \in NewEmissions(A) : Build(m, S, A, E)
      BY <3>1, Zenon
    <3>3. PICK E \in NewEmissions(A) : Build(m, S, A, E)
      BY <3>2, Zenon
    <3> QED
      BY <3>3, BuildChains, Zenon
  <2>2. CASE ~CloseLedger
    <3>1. txn' = txn
      BY <2>2, Zenon DEF Next, vars, ledger, Accept, Restart, Expire, Abort
    <3>2. Emitted' = Emitted
      BY <3>1, Zenon DEF Emitted
    <3> QED
      BY <3>1, <3>2, Zenon
  <2> QED
    BY <2>1, <2>2, Zenon
<1>3. C => ChainBounded
  BY Zenon DEF Chained, ChainTo, ChainBounded
<1> QED
  BY <1>1, <1>2, <1>3, InvariantHolds, PTL DEF Spec
=============================================================================
