------------------------------ MODULE WriteLock ------------------------------
(***************************************************************************)
(* The lock every write of the process goes through                        *)
(* (integrations/drizzle-orm/database.factory.ts): runWrite, transaction   *)
(* and the chain of promises they wait on.                                 *)
(*                                                                         *)
(* An operation is one call of runWrite or transaction.  It is issued in   *)
(* an async context: that of no other operation, or that of another's      *)
(* callback, which the continuations of the callback keep after its end.   *)
(*                                                                         *)
(* Assumed of the callers: an operation ends after those that run inline   *)
(* in its scope or under its lock.  What a callback leaves behind may      *)
(* issue operations after the end, and no holder of the lock waits for     *)
(* these.                                                                  *)
(***************************************************************************)
EXTENDS Integers

CONSTANTS
    Op,             \* bound: the operations of a behaviour
    NoOp

ASSUME WriteLockAssumption == NoOp \notin Op

VARIABLES
    transactionLock, \* the last promise of the chain, by its number
    released,       \* the promises that are resolved
    ticket,         \* the promise an operation made, 0 if it made none
    phase,
    lockScope,      \* writeLockStore in its callback: the operation that made the scope
    txScope,        \* als in its callback: likewise
    open,           \* operations whose scope is open
    under           \* history: the operation whose lock it works under

lockVars == <<transactionLock, released, ticket, phase, lockScope, txScope, open, under>>

Scope == Op \cup {NoOp}

LockTypeOK ==
    /\ transactionLock \in Nat
    /\ released \in SUBSET (0..transactionLock)
    /\ ticket \in [Op -> 0..transactionLock]
    /\ phase \in [Op -> {"unissued", "waiting", "running", "ended"}]
    /\ lockScope \in [Op -> Scope]
    /\ txScope \in [Op -> Scope]
    /\ open \in SUBSET Op
    /\ under \in [Op -> Scope]
-----------------------------------------------------------------------------
LockInit ==
    /\ transactionLock = 0
    /\ released = {0}
    /\ ticket = [o \in Op |-> 0]
    /\ phase = [o \in Op |-> "unissued"]
    /\ lockScope = [o \in Op |-> NoOp]
    /\ txScope = [o \in Op |-> NoOp]
    /\ open = {}
    /\ under = [o \in Op |-> NoOp]

Issuers == {NoOp} \cup {q \in Op : phase[q] \in {"running", "ended"}}

\* The stores of the context an operation is issued in.
LockStore(p) == IF p = NoOp THEN NoOp ELSE lockScope[p]
TxStore(p) == IF p = NoOp THEN NoOp ELSE txScope[p]

HoldsWriteLock(p) == LockStore(p) \in open
InTransaction(p) == TxStore(p) \in open

\* acquireWriteLock: the promise made last is the one to wait for.
EnqueueWriter(o, tx) ==
    /\ transactionLock' = transactionLock + 1
    /\ ticket' = [ticket EXCEPT ![o] = transactionLock + 1]
    /\ phase' = [phase EXCEPT ![o] = "waiting"]
    /\ lockScope' = [lockScope EXCEPT ![o] = o]
    /\ txScope' = [txScope EXCEPT ![o] = tx]
    /\ under' = [under EXCEPT ![o] = o]
    /\ UNCHANGED <<released, open>>

\* A nested operation runs at once; its callback sees the scopes lock and tx.
Inline(o, p, lock, tx) ==
    /\ phase' = [phase EXCEPT ![o] = "running"]
    /\ lockScope' = [lockScope EXCEPT ![o] = lock]
    /\ txScope' = [txScope EXCEPT ![o] = tx]
    /\ under' = [under EXCEPT ![o] = under[LockStore(p)]]
    /\ UNCHANGED <<transactionLock, released, ticket>>

RunWrite(o, p) ==
    /\ phase[o] = "unissued"
    /\ p \in Issuers
    /\ \/ /\ HoldsWriteLock(p)
          /\ Inline(o, p, LockStore(p), TxStore(p))
          /\ UNCHANGED open
       \/ /\ ~HoldsWriteLock(p)
          /\ EnqueueWriter(o, TxStore(p))

\* A savepoint of the open transaction.
Savepoint(o, p) ==
    /\ phase[o] = "unissued"
    /\ p \in Issuers
    /\ InTransaction(p)
    /\ Inline(o, p, LockStore(p), TxStore(p))
    /\ UNCHANGED open

\* A transaction of its own: under the lock of the write it is in, or queued.
Transaction(o, p) ==
    /\ phase[o] = "unissued"
    /\ p \in Issuers
    /\ ~InTransaction(p)
    /\ \/ /\ HoldsWriteLock(p)
          /\ Inline(o, p, o, o)
          /\ open' = open \cup {o}
       \/ /\ ~HoldsWriteLock(p)
          /\ EnqueueWriter(o, o)

\* The promise waited for is resolved: the scope is opened, the callback called.
Acquire(o) ==
    /\ phase[o] = "waiting"
    /\ ticket[o] - 1 \in released
    /\ phase' = [phase EXCEPT ![o] = "running"]
    /\ open' = open \cup {o}
    /\ UNCHANGED <<transactionLock, released, ticket, lockScope, txScope, under>>

\* Faulty variant: a scope stays open after its operation.
LeaveOpen(o, ok) ==
    /\ released' = IF ticket[o] = 0 THEN released ELSE released \cup {ticket[o]}
    /\ UNCHANGED open

\* Faulty variant: the lock is released after a success only.
CloseOnSuccess(o, ok) ==
    /\ open' = open \ {o}
    /\ released' = IF ticket[o] = 0 \/ ~ok THEN released ELSE released \cup {ticket[o]}

\* The finally block, reached by a success (ok) and by an error alike.
Close(o, ok) ==
    /\ open' = open \ {o}
    /\ released' = IF ticket[o] = 0 THEN released ELSE released \cup {ticket[o]}

End(o, ok) ==
    /\ phase[o] = "running"
    /\ \A q \in Op \ {o} : o \in {lockScope[q], under[q]} => phase[q] # "running"
    /\ phase' = [phase EXCEPT ![o] = "ended"]
    /\ Close(o, ok)
    /\ UNCHANGED <<transactionLock, ticket, lockScope, txScope, under>>

LockNext ==
    \E o \in Op :
        \/ \E p \in Scope : RunWrite(o, p) \/ Savepoint(o, p) \/ Transaction(o, p)
        \/ Acquire(o)
        \/ \E ok \in BOOLEAN : End(o, ok)

LockSpec == LockInit /\ [][LockNext]_lockVars

\* A promise that is resolved is seen, and every callback ends.
LockFairness ==
    \A o \in Op :
        /\ WF_lockVars(Acquire(o))
        /\ WF_lockVars(\E ok \in BOOLEAN : End(o, ok))
-----------------------------------------------------------------------------
Running == {o \in Op : phase[o] = "running"}

\* What runs at one time runs under one acquisition of the lock: a callback's nested operations share
\* it, a continuation that outlives its operation does not (database.factory.ts:82-86, 409-420).
WritesAlone == \A a, b \in Running : under[a] = under[b]

\* Every queued operation runs in the end, whatever becomes of those before it
\* (database.factory.ts:396-399, 424-427).
QueuedRuns == \A o \in Op : phase[o] = "waiting" ~> phase[o] = "running"
=============================================================================
