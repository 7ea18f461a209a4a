-------------------------- MODULE EmergencyControl --------------------------
(***************************************************************************)
(* The administrators and the emergency switch of the earn-quest contract  *)
(* (contracts/earn-quest/src/admin.rs, security.rs and the storage helpers *)
(* they use).  A contract call is atomic and a call that returns an error  *)
(* is rolled back, so every action below is one successful call; a         *)
(* rejected call is a stuttering step.  The caller of a call has           *)
(* authenticated (require_auth), which is why "caller" is a parameter that *)
(* a client cannot forge.                                                  *)
(***************************************************************************)
EXTENDS Integers, FiniteSets

CONSTANTS
    Addresses,      \* the accounts that can sign calls
    Nobody,         \* "no contract admin yet"
    Deployers,      \* the addresses that may be the first to initialize
    Candidates,     \* the addresses that admins add and remove
    MaxTime,        \* bound on the ledger timestamp
    MaxRound,       \* bound on the number of unpause rounds
    Thresholds,     \* the values an admin may set the unpause threshold to
    Timelocks       \* the values an admin may set the unpause timelock to

ASSUME EmergencyAssumption ==
    /\ Nobody \notin Addresses
    /\ IsFiniteSet(Addresses)
    /\ Deployers \subseteq Addresses
    /\ Candidates \subseteq Addresses
    /\ MaxTime \in Nat
    /\ MaxRound \in Nat
    /\ Thresholds \subseteq Nat
    /\ Timelocks \subseteq Nat

VARIABLES
    now,                  \* the ledger timestamp
    contractAdmin,        \* the admin given to initialize
    admins,               \* addresses with the admin flag
    paused,               \* the global pause flag
    unpauseApprovals,     \* the stored approvals: pairs <<round, admin>>
    unpauseRound,         \* the current round
    unpauseApprovalCount, \* the counter kept beside the approvals
    unpauseThreshold,     \* approvals needed to schedule an unpause
    unpauseTimelock,      \* seconds between scheduling and unpausing
    scheduledUnpause      \* when the unpause may run, or NotScheduled

controlVars == <<contractAdmin, admins, paused, unpauseApprovals, unpauseRound,
                 unpauseApprovalCount, unpauseThreshold, unpauseTimelock,
                 scheduledUnpause>>

emergencyVars == <<now, controlVars>>

NotScheduled == -1
DefaultThreshold == 2
DefaultTimelock == 0

ControlTypeOK ==
    /\ now \in Nat
    /\ contractAdmin \in Addresses \cup {Nobody}
    /\ admins \subseteq Addresses
    /\ paused \in BOOLEAN
    /\ unpauseApprovals \subseteq Nat \X Addresses
    /\ unpauseRound \in Nat
    /\ unpauseApprovalCount \in Nat
    /\ unpauseThreshold \in Nat
    /\ unpauseTimelock \in Nat
    /\ scheduledUnpause \in Nat \cup {NotScheduled}

ControlInit ==
    /\ now = 0
    /\ contractAdmin = Nobody
    /\ admins = {}
    /\ paused = FALSE
    /\ unpauseApprovals = {}
    /\ unpauseRound = 0
    /\ unpauseApprovalCount = 0
    /\ unpauseThreshold = DefaultThreshold
    /\ unpauseTimelock = DefaultTimelock
    /\ scheduledUnpause = NotScheduled

-----------------------------------------------------------------------------
(* Mutant: the pause flag is never looked at.                              *)
PauseIgnored == TRUE

RequireNotPaused == ~paused

IsAdmin(caller) == caller \in admins

HasUnpauseApproval(a) == <<unpauseRound, a>> \in unpauseApprovals

(* One-time setup: the first admin is also the contract admin. *)
Initialize(admin) ==
    /\ contractAdmin = Nobody
    /\ contractAdmin' = admin
    /\ admins' = admins \cup {admin}
    /\ UNCHANGED <<now, paused, unpauseApprovals, unpauseRound,
                   unpauseApprovalCount, unpauseThreshold, unpauseTimelock,
                   scheduledUnpause>>

AddAdmin(caller, newAdmin) ==
    /\ RequireNotPaused
    /\ IsAdmin(caller)
    /\ admins' = admins \cup {newAdmin}
    /\ UNCHANGED <<now, contractAdmin, paused, unpauseApprovals, unpauseRound,
                   unpauseApprovalCount, unpauseThreshold, unpauseTimelock,
                   scheduledUnpause>>

(* Mutant: remove_admin does not look at the pause flag.                   *)
RemoveAdminAnytime(caller, admin) ==
    /\ IsAdmin(caller)
    /\ admins' = admins \ {admin}
    /\ UNCHANGED <<now, contractAdmin, paused, unpauseApprovals, unpauseRound,
                   unpauseApprovalCount, unpauseThreshold, unpauseTimelock,
                   scheduledUnpause>>

(* An admin may remove any admin, itself and the last one included. *)
RemoveAdmin(caller, admin) ==
    /\ RequireNotPaused
    /\ IsAdmin(caller)
    /\ admins' = admins \ {admin}
    /\ UNCHANGED <<now, contractAdmin, paused, unpauseApprovals, unpauseRound,
                   unpauseApprovalCount, unpauseThreshold, unpauseTimelock,
                   scheduledUnpause>>

(* The bound on rounds never keeps a pause from being lifted.              *)
RoundsLeft == paused \/ unpauseRound < MaxRound

(* Pausing leaves the approvals and the schedule of the round as they are. *)
EmergencyPause(caller) ==
    /\ IsAdmin(caller)
    /\ RoundsLeft
    /\ paused' = TRUE
    /\ UNCHANGED <<now, contractAdmin, admins, unpauseApprovals, unpauseRound,
                   unpauseApprovalCount, unpauseThreshold, unpauseTimelock,
                   scheduledUnpause>>

(* The approval that reaches the threshold schedules the unpause, and so   *)
(* does every later one: the timelock starts again.                        *)
EmergencyApproveUnpause(caller) ==
    /\ IsAdmin(caller)
    /\ ~HasUnpauseApproval(caller)
    /\ unpauseApprovals' = unpauseApprovals \cup {<<unpauseRound, caller>>}
    /\ unpauseApprovalCount' = unpauseApprovalCount + 1
    /\ scheduledUnpause' = IF unpauseApprovalCount' >= unpauseThreshold
                             THEN now + unpauseTimelock
                             ELSE scheduledUnpause
    /\ UNCHANGED <<now, contractAdmin, admins, paused, unpauseRound,
                   unpauseThreshold, unpauseTimelock>>

(* Mutants: the counter or the round survives the unpause, or the counter  *)
(* only loses what the unpause needed.                                     *)
ClearKeepsCount ==
    /\ unpauseRound' = unpauseRound + 1
    /\ scheduledUnpause' = NotScheduled
    /\ UNCHANGED unpauseApprovalCount

ClearKeepsRound ==
    /\ unpauseApprovalCount' = 0
    /\ scheduledUnpause' = NotScheduled
    /\ UNCHANGED unpauseRound

ClearSubtractsThreshold ==
    /\ unpauseRound' = unpauseRound + 1
    /\ unpauseApprovalCount' = unpauseApprovalCount - unpauseThreshold
    /\ scheduledUnpause' = NotScheduled

(* storage::clear_unpause_approvals: the old approvals stay stored under   *)
(* the old round.                                                          *)
ClearUnpauseApprovals ==
    /\ unpauseRound' = unpauseRound + 1
    /\ unpauseApprovalCount' = 0
    /\ scheduledUnpause' = NotScheduled

EmergencyUnpause(caller) ==
    /\ IsAdmin(caller)
    /\ scheduledUnpause # NotScheduled
    /\ now >= scheduledUnpause
    /\ RoundsLeft
    /\ paused' = FALSE
    /\ ClearUnpauseApprovals
    /\ UNCHANGED <<now, contractAdmin, admins, unpauseApprovals,
                   unpauseThreshold, unpauseTimelock>>

(* Neither setter looks at the approvals already given. *)
SetUnpauseThreshold(caller, threshold) ==
    /\ IsAdmin(caller)
    /\ unpauseThreshold' = threshold
    /\ UNCHANGED <<now, contractAdmin, admins, paused, unpauseApprovals,
                   unpauseRound, unpauseApprovalCount, unpauseTimelock,
                   scheduledUnpause>>

SetUnpauseTimelock(caller, seconds) ==
    /\ IsAdmin(caller)
    /\ unpauseTimelock' = seconds
    /\ UNCHANGED <<now, contractAdmin, admins, paused, unpauseApprovals,
                   unpauseRound, unpauseApprovalCount, unpauseThreshold,
                   scheduledUnpause>>

(* The ledger closes with a later timestamp. *)
Tick ==
    /\ now < MaxTime
    /\ now' = now + 1
    /\ UNCHANGED controlVars

ControlNext ==
    \/ Tick
    \/ \E deployer \in Deployers : Initialize(deployer)
    \/ \E caller \in Addresses :
         \/ EmergencyPause(caller)
         \/ EmergencyApproveUnpause(caller)
         \/ EmergencyUnpause(caller)
         \/ \E other \in Candidates : AddAdmin(caller, other)
         \/ \E other \in Candidates : RemoveAdmin(caller, other)
         \/ \E t \in Thresholds : SetUnpauseThreshold(caller, t)
         \/ \E s \in Timelocks : SetUnpauseTimelock(caller, s)

ControlSpec == ControlInit /\ [][ControlNext]_emergencyVars

-----------------------------------------------------------------------------
(* The counter kept beside the approvals is the number of approvals stored *)
(* under the current round, and no approval is stored under a later round: *)
(* storage.rs keeps the three under different keys.                        *)
CurrentApprovals == {a \in Addresses : HasUnpauseApproval(a)}

ApprovalCountExact ==
    /\ unpauseApprovalCount = Cardinality(CurrentApprovals)
    /\ \A p \in unpauseApprovals : p[1] <= unpauseRound

(* An unpause is never scheduled without an approval of the current round, *)
(* so nothing is left scheduled when clear_unpause_approvals starts a new  *)
(* round.                                                                  *)
ScheduleBacked ==
    scheduledUnpause # NotScheduled => unpauseApprovalCount > 0

(* A paused contract always has an admin: remove_admin is refused while    *)
(* paused, and only an admin can pause.                                    *)
PausedHasAdmin == paused => admins # {}

(* A pause ends only through a schedule that is due, backed by an approval *)
(* of the round it ends, and no later call finds that round current again: *)
(* the same approvals never lift two pauses.                               *)
UnpauseIsFresh ==
    [][paused /\ ~paused' =>
          /\ CurrentApprovals # {}
          /\ scheduledUnpause # NotScheduled /\ scheduledUnpause <= now
          /\ CurrentApprovals' = {}
          /\ unpauseRound' > unpauseRound]_emergencyVars

=============================================================================
