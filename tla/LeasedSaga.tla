----------------------------- MODULE LeasedSaga -----------------------------
(***************************************************************************)
(* SagaExecutor composed with the leases of its saga: a worker no longer   *)
(* knows that nobody runs the saga, it finds that the row has no lease or  *)
(* one that has expired, and takes it.  Workers are the polls of the       *)
(* recovery workers; OwnerOf gives the worker whose ownerId a poll uses.   *)
(***************************************************************************)
EXTENDS SagaExecutor

CONSTANTS
    OwnerOf,        \* poll -> ownerId
    NoOwner,        \* owner_id IS NULL
    LongLease,      \* does a lease outlast the resume it was taken for?
    Orphaned        \* is the application gone when recovery takes the saga?

ASSUME LeaseAssumption ==
    /\ \A p \in Workers : OwnerOf[p] # NoOwner
    /\ {LongLease, Orphaned} \subseteq BOOLEAN

VARIABLES
    owner,          \* owner_id
    live,           \* locked_until is in the future
    holding         \* polls that have claimed the saga and not yet released it

lease     == <<owner, live, holding>>
leaseVars == <<vars, lease>>

LeasedInit ==
    /\ Init
    /\ owner = NoOwner
    /\ live = FALSE
    /\ holding = {}

\* Wrong on purpose: only a released saga is taken, or any.
FreeIfReleased == owner = NoOwner
FreeAlways == TRUE

\* locked_until IS NULL OR locked_until < NOW(), also for one's own lease.
Free == ~live

\* claimOrphanedSagas takes the lease, recoverOnce will call resume.
ClaimOrphaned(p) ==
    /\ status \in Claimable
    /\ Free
    /\ pc[p] = "idle"
    /\ p \notin holding
    /\ Orphaned => pc[Caller] = "idle"
    /\ claims < MaxClaims
    /\ claims' = claims + 1
    /\ Goto(p, "getSaga")
    /\ owner' = OwnerOf[p]
    /\ live' = TRUE
    /\ holding' = holding \cup {p}
    /\ UNCHANGED <<store, world, locals, result, crashes, rejects, resumes>>

\* The finally block of recoverOnce: resume has returned or thrown.  Another
\* owner's lease stays.
ReleaseSaga(p) ==
    /\ p \in holding
    /\ pc[p] = "idle"
    /\ holding' = holding \ {p}
    /\ IF owner = OwnerOf[p]
          THEN owner' = NoOwner /\ live' = FALSE
          ELSE UNCHANGED <<owner, live>>
    /\ UNCHANGED vars

\* releaseSaga rejects, or the process dies before it: the lease runs out.
ReleaseLost(p) ==
    /\ p \in holding
    /\ pc[p] = "idle"
    /\ holding' = holding \ {p}
    /\ UNCHANGED <<vars, owner, live>>

Expire ==
    /\ live
    /\ LongLease => holding = {}
    /\ live' = FALSE
    /\ UNCHANGED <<vars, owner, holding>>

\* A process that dies holds nothing any more, but its lease is in the row.
CrashHolding(p) ==
    /\ Crash(p)
    /\ holding' = holding \ {p}
    /\ UNCHANGED <<owner, live>>

LeasedNext ==
    \/ /\ \/ Create \/ Resume
          \/ \E p \in Proc : Run(p) \/ Reject(p) \/ ReplyLost(p)
          \/ \E call \in Call : CompletesLate(call)
       /\ UNCHANGED lease
    \/ \E p \in Proc : CrashHolding(p)
    \/ \E p \in Workers : ClaimOrphaned(p) \/ ReleaseSaga(p) \/ ReleaseLost(p)
    \/ Expire

LeasedSpec == LeasedInit /\ [][LeasedNext]_leaseVars

\* Processes that are alive go on, polls keep coming and time passes.
LeasedFairSpec ==
    /\ LeasedSpec
    /\ \A p \in Proc : WF_leaseVars(Run(p) /\ UNCHANGED lease)
    /\ \A p \in Workers : WF_leaseVars(ReleaseSaga(p))
    /\ WF_leaseVars(\E p \in Workers : ClaimOrphaned(p))
    /\ WF_leaseVars(Expire)

-----------------------------------------------------------------------------
\* Leases do what SagaExecutor asks of its environment when Exclusive is TRUE:
\* every behaviour of the composition is one of an executor whose saga is
\* resumed only while no process runs it.
LeasesExclude == Spec
=============================================================================
