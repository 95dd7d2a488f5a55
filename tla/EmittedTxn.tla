----------------------------- MODULE EmittedTxn -----------------------------
(***************************************************************************)
(* The life of a transaction emitted by a hook.  emit() checks it, the     *)
(* execution that emitted it puts it in the emitted directory of the       *)
(* ledger being built, every server's TxQ::accept copies it into the open  *)
(* ledger when its first ledger comes, consensus agrees on a set, and the  *)
(* transaction is applied, which removes its directory entry.  When its    *)
(* last ledger has passed, TxQ::accept inserts an EMIT_FAILURE             *)
(* pseudo-transaction that removes the entry instead.                      *)
(*                                                                         *)
(* There is one chain of closed ledgers; every server has an open ledger   *)
(* and a hash router of its own, may fall behind, restart, or lose router  *)
(* flags to their expiry.                                                  *)
(***************************************************************************)
EXTENDS Integers, FiniteSets

CONSTANTS
    Node,             \* servers
    Tx,               \* transaction IDs a hook may emit
    NoTxn,            \* txn[t] before t is emitted
    EmitWindow,       \* how far ahead LastLedgerSequence may be (5)
    GenerationLimit,  \* first sfEmitGeneration that emit() refuses (10)
    FixXahauV2,       \* amendment fixXahauV2
    CallbackTx,       \* transactions emitted by a hook with a cbak function
    Lookback,         \* bound: how far back FirstLedgerSequence may be
    SeqLimit,         \* bound: sequence numbers are told apart up to here
    FaultLimit        \* bound: restarts, expiries and aborts

VARIABLES
    seq,       \* sequence number of the last closed ledger
    txn,       \* the emitted transactions: ledger bounds, generation, parent
    dir,       \* the emitted directory of the last closed ledger
    lclTxs,    \* emitted transactions in the last closed ledger
    applied,   \* history: closed ledgers each transaction was applied in
    failed,    \* history: closed ledgers with its EMIT_FAILURE
    callback,  \* history: what the failure callback found of the entry
    role,      \* "current": open ledger on the last closed ledger;
               \* "built": built that ledger itself, not accepted it yet;
               \* "behind": anything else
    open,      \* transactions in each server's open ledger
    flagged,   \* items each server's hash router has marked SF_EMITTED
    clean,     \* history: no fault at this server since its last accept
    retry,     \* retriable and disputed transactions of the last round
    faults     \* restarts, expiries and aborts so far

ledger == <<seq, txn, dir, lclTxs, applied, failed, callback>>
servers == <<role, open, flagged, clean>>
vars == <<ledger, servers, retry, faults>>

Real(t) == <<"txn", t>>
Failure(t) == <<"fail", t>>
Item == {"txn", "fail"} \X Tx

TxnRecord == [fls : Int, lls : Int, gen : Nat, at : Int, parent : Tx \cup {NoTxn}]

Emitted == {t \in Tx : txn[t] # NoTxn}
Current == {n \in Node : role[n] = "current"}

ASSUME EmissionAssumption ==
    /\ EmitWindow \in Nat \ {0} /\ GenerationLimit \in Nat
    /\ Lookback \in Nat /\ SeqLimit \in Nat /\ FaultLimit \in Nat
    /\ FixXahauV2 \in BOOLEAN
    /\ CallbackTx \subseteq Tx
    /\ NoTxn \notin Tx /\ NoTxn \notin TxnRecord

\* Past SeqLimit every emitted transaction has expired, and one more ledger
\* changes no comparison of sequence numbers.
NextSeq(s) == IF s < SeqLimit THEN s + 1 ELSE s

-----------------------------------------------------------------------------
(* emit(): what a hook running in ledger s may emit.                       *)

Generation(p) == IF p = NoTxn THEN 0 ELSE txn[p].gen

\* Mutant of EmitGeneration: the generation of the parent is passed on.
EmitGenerationKept(p) == Generation(p)

EmitGeneration(p) == Generation(p) + 1

\* Rules 5, 6 and 8; the other rules are about fields this model leaves out.
EmitRules(s, p) ==
    LET window == (s - Lookback .. s + EmitWindow) \X (s + 1 .. s + EmitWindow)
    IN  {[fls |-> w[1], lls |-> w[2], gen |-> EmitGeneration(p), at |-> s, parent |-> p] :
             w \in {v \in window : v[1] <= v[2] /\ EmitGeneration(p) < GenerationLimit}}

-----------------------------------------------------------------------------
(* Preflight and preclaim of an item in the ledger that follows seq.       *)

\* Mutant of StillEmitted: an entry is never looked up.
StillEmittedUnchecked(t) == TRUE

\* tefNONDIR_EMIT, which fixXahauV2 introduced.
StillEmitted(t) == FixXahauV2 => t \in dir

\* telNON_LOCAL_EMITTED_TXN without the flag, tefMAX_LEDGER, tefNONDIR_EMIT.
Preclaims(n, t) ==
    /\ Real(t) \in flagged[n]
    /\ seq + 1 <= txn[t].lls
    /\ StillEmitted(t)

\* The bar at the top of Transactor::operator() on an unmarked pseudo-transaction.
FailureApplies(n, t) == Failure(t) \in flagged[n]

-----------------------------------------------------------------------------
(* TxQ::accept on an open ledger of sequence number seq + 1.               *)

\* Mutants of Expired: off by one, and only in the ledger after the last.
ExpiredEarly(t) == txn[t].lls <= seq + 1
ExpiredOnce(t) == txn[t].lls = seq

Expired(t) == txn[t].lls < seq + 1

\* Mutant of Injected: transactions are not held for their first ledger.
InjectedUnheld(t) == ~Expired(t) /\ txn[t].fls >= seq + 1

Injected(t) ==
    /\ ~Expired(t)
    /\ ~(txn[t].fls > seq + 1)
    /\ txn[t].fls >= seq + 1

Injections(entries) ==
    {Real(t) : t \in {u \in entries : Injected(u)}} \cup
    {Failure(t) : t \in {u \in entries : Expired(u)}}

\* Mutant of Marked: only what is inserted is marked.
MarkedInserted(entries) == Injections(entries)

\* SF_EMITTED is set for every entry seen, and for the failures inserted.
Marked(entries) == {Real(t) : t \in entries} \cup Injections(entries)

-----------------------------------------------------------------------------
(* Consensus and the building of the next ledger.                          *)

Proposed == UNION {open[n] : n \in Current}
Unanimous == {i \in Proposed : \A n \in Current : i \in open[n]}

\* Consensus keeps what every position holds, as nothing of it is disputed; a
\* dispute may end either way.  The servers taking part are a majority, less than
\* the quorum that the code asks for.
Agreement(S) ==
    /\ 2 * Cardinality(Current) > Cardinality(Node)
    /\ S \subseteq Proposed
    /\ Unanimous \subseteq S

Applicable(n, S) == {t \in Tx : Real(t) \in S /\ Preclaims(n, t)}
Failing(n, S) == {t \in Tx : Failure(t) \in S /\ FailureApplies(n, t)}

\* removeEmissionEntry for what was applied, applyEmitFailure for what failed.
Remaining(A, F) == dir \ (A \cup F)

\* The failure callback runs after applyEmitFailure, in the same view.
SeenByCallback(F) ==
    [t \in Tx |-> IF t \notin F \cap CallbackTx THEN callback[t]
                  ELSE IF t \in dir \ F THEN "found" ELSE "missing"]

\* Transactions that the hooks of applied transactions emit in the new ledger.
NewEmissions(A) ==
    UNION {[fresh -> UNION {EmitRules(seq + 1, p) : p \in A \cup {NoTxn}}] :
               fresh \in {{}} \cup {f \in SUBSET (Tx \ Emitted) : seq + 1 + EmitWindow <= SeqLimit}}

\* The network builds the ledger that server m builds; a server whose router
\* has other flags for the agreed set builds another ledger and falls behind.
Build(m, S, A, E) ==
    LET F == Failing(m, S)
        SameBuild(n) == n \in Current /\ flagged[n] \cap S = flagged[m] \cap S
    IN  /\ seq' = NextSeq(seq)
        /\ txn' = [t \in Tx |-> IF t \in DOMAIN E THEN E[t] ELSE txn[t]]
        /\ dir' = Remaining(A, F) \cup DOMAIN E
        /\ lclTxs' = A
        /\ applied' = [t \in Tx |-> IF t \in A THEN applied[t] + 1 ELSE applied[t]]
        /\ failed' = [t \in Tx |-> IF t \in F THEN failed[t] + 1 ELSE failed[t]]
        /\ callback' = SeenByCallback(F)
        /\ role' = [n \in Node |-> IF SameBuild(n) THEN "built" ELSE "behind"]
        /\ flagged' = [n \in Node |-> IF SameBuild(n)
                                      THEN flagged[n] \cup {Real(t) : t \in DOMAIN E}
                                      ELSE flagged[n]]
        /\ retry' = {i \in Proposed : i[1] = "txn" /\ i[2] \notin A}
        /\ UNCHANGED <<open, clean, faults>>

\* A transaction that passes preclaim may still be refused by its own rules.
CloseLedger ==
    \E m \in Current, S \in SUBSET Proposed :
        /\ Agreement(S)
        /\ \E A \in SUBSET Applicable(m, S) :
               \E E \in NewEmissions(A) : Build(m, S, A, E)

\* OpenLedger::accept: the old open ledger, and what the round left over, are
\* applied to the new open ledger if they can be, which an EMIT_FAILURE never
\* can; then TxQ::accept runs.  An EMIT_FAILURE has another ID in every ledger.
Accept(n) ==
    /\ role[n] # "current"
    /\ LET candidates == open[n] \cup (IF role[n] = "built" THEN retry ELSE {})
       IN  \E kept \in SUBSET {t \in Tx \ lclTxs : Real(t) \in candidates /\ Preclaims(n, t)} :
               /\ open' = [open EXCEPT ![n] = {Real(t) : t \in kept} \cup Injections(dir \ kept)]
               /\ flagged' = [flagged EXCEPT ![n] = {i \in @ : i[1] = "txn"} \cup Marked(dir \ kept)]
    /\ role' = [role EXCEPT ![n] = "current"]
    /\ clean' = [clean EXCEPT ![n] = TRUE]
    /\ UNCHANGED <<ledger, retry, faults>>

-----------------------------------------------------------------------------
(* Faults.                                                                 *)

\* A restarted server has an empty hash router, and an empty open ledger on
\* the last ledger it stored.
Restart(n) ==
    /\ faults < FaultLimit
    /\ faults' = faults + 1
    /\ \E r \in {"behind"} \cup (IF role[n] = "behind" THEN {} ELSE {"current"}) :
           role' = [role EXCEPT ![n] = r]
    /\ open' = [open EXCEPT ![n] = {}]
    /\ flagged' = [flagged EXCEPT ![n] = {}]
    /\ clean' = [clean EXCEPT ![n] = FALSE]
    /\ UNCHANGED <<ledger, retry>>

\* The hash router drops entries it has not touched for its hold time.
Expire(n) ==
    /\ faults < FaultLimit
    /\ faults' = faults + 1
    /\ \E lost \in SUBSET flagged[n] \ {{}} :
           flagged' = [flagged EXCEPT ![n] = @ \ lost]
    /\ clean' = [clean EXCEPT ![n] = FALSE]
    /\ UNCHANGED <<ledger, role, open, retry>>

\* hook::apply dereferences the entry for the failure callback.  When it is
\* missing, the dereference either raises an exception that doHookCallback
\* catches (as in CloseLedger) or ends every server that builds this ledger.
Abort ==
    \E m \in Current, S \in SUBSET Proposed :
        /\ faults < FaultLimit
        /\ faults' = faults + 1
        /\ Agreement(S)
        /\ \E t \in Failing(m, S) : SeenByCallback({t})[t] = "missing"
        /\ callback' = SeenByCallback(Failing(m, S))
        /\ open' = [n \in Node |-> IF n \in Current THEN {} ELSE open[n]]
        /\ flagged' = [n \in Node |-> IF n \in Current THEN {} ELSE flagged[n]]
        /\ clean' = [n \in Node |-> n \notin Current /\ clean[n]]
        /\ UNCHANGED <<seq, txn, dir, lclTxs, applied, failed, role, retry>>

-----------------------------------------------------------------------------
Init ==
    /\ seq = 1
    /\ txn = [t \in Tx |-> NoTxn]
    /\ dir = {}
    /\ lclTxs = {}
    /\ applied = [t \in Tx |-> 0]
    /\ failed = [t \in Tx |-> 0]
    /\ callback = [t \in Tx |-> "none"]
    /\ role = [n \in Node |-> "current"]
    /\ open = [n \in Node |-> {}]
    /\ flagged = [n \in Node |-> {}]
    /\ clean = [n \in Node |-> TRUE]
    /\ retry = {}
    /\ faults = 0

Next ==
    \/ CloseLedger
    \/ \E n \in Node : Accept(n)
    \/ \E n \in Node : Restart(n)
    \/ \E n \in Node : Expire(n)
    \/ Abort

Spec == Init /\ [][Next]_vars

\* The consensus timer closes ledgers for ever, and a server that has built or
\* fetched a ledger goes on to open the next one.
Fairness == WF_vars(CloseLedger) /\ \A n \in Node : WF_vars(Accept(n))

FairSpec == Spec /\ Fairness

-----------------------------------------------------------------------------
(* Properties.                                                             *)

TypeOK ==
    /\ seq \in 1 .. SeqLimit + 1
    /\ txn \in [Tx -> TxnRecord \cup {NoTxn}]
    /\ dir \in SUBSET Tx /\ lclTxs \in SUBSET Tx
    /\ applied \in [Tx -> Nat] /\ failed \in [Tx -> Nat]
    /\ callback \in [Tx -> {"none", "found", "missing"}]
    /\ role \in [Node -> {"current", "built", "behind"}]
    /\ open \in [Node -> SUBSET Item]
    /\ flagged \in [Node -> SUBSET Item]
    /\ clean \in [Node -> BOOLEAN]
    /\ retry \in SUBSET Item
    /\ faults \in 0 .. FaultLimit

\* An emitted transaction takes effect at most once: it is applied in one
\* closed ledger, or fails in one, and never both.
AtMostOnce == \A t \in Tx : applied[t] + failed[t] <= 1

\* The emitted directory holds exactly the transactions that were emitted and
\* have neither been applied nor failed, so no entry is lost or left behind.
DirectoryExact ==
    \A t \in Tx : t \in dir <=> t \in Emitted /\ applied[t] = 0 /\ failed[t] = 0

\* A transaction is applied in no ledger before its FirstLedgerSequence, which
\* only TxQ::accept looks at, nor after its LastLedgerSequence.
AppliedInWindow ==
    [][\A t \in Tx : applied'[t] # applied[t] =>
           txn[t].fls <= seq + 1 /\ seq + 1 <= txn[t].lls]_vars

\* EMIT_FAILURE is applied only once the last ledger of the transaction is past.
FailedAfterWindow ==
    [][\A t \in Tx : failed'[t] # failed[t] => txn[t].lls < seq + 1]_vars

\* A server that had no fault since it accepted the last closed ledger has the
\* flags for whatever any position may bring into the agreed set, so it builds
\* the same ledger as the others.
RouterCoversPositions ==
    \A n, m \in Current : clean[n] => open[m] \subseteq flagged[n]

\* sfEmitGeneration counts the emissions that led to a transaction, from one by a
\* transaction that was not emitted, so a chain of hooks that trigger each other is
\* shorter than the generation limit of emit() (etxn_generation, emit rule 5).
ChainBounded ==
    \A t \in Emitted :
        LET n == txn[t].gen
        IN  /\ n \in 1 .. GenerationLimit - 1
            /\ \E s \in [1 .. n -> Emitted] :
                   /\ s[n] = t
                   /\ \A i \in 1 .. n : txn[s[i]].parent = IF i = 1 THEN NoTxn ELSE s[i - 1]

\* What has become of each transaction, and the promise kept about it.
Status ==
    [t \in Tx |-> CASE t \in dir -> "pending" [] applied[t] > 0 -> "applied"
                    [] failed[t] > 0 -> "failed" [] OTHER -> "none"]

Promise == INSTANCE Emission WITH window <- txn, status <- Status

\* Directory, open ledgers, routers and consensus implement the promise of
\* emit(): each transaction goes from pending to applied within its window,
\* or to failed after it, and to nothing else (TxQ::accept, preclaim,
\* removeEmissionEntry, applyEmitFailure).
KeepsPromise == Promise!Spec

\* Every emitted transaction is eventually applied or failed, whatever servers
\* fell behind or restarted on the way (TxQ::accept, OpenLedger::accept).
EventuallyResolved == Promise!EveryPendingEnds

\* The failure callback finds the entry of the transaction that failed:
\* HookContext::emitFailure is to be populated with it.
CallbackFindsEntry == \A t \in Tx : callback[t] # "missing"
=============================================================================
