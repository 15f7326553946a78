---------------------------- MODULE OnchainRoles ----------------------------
(***************************************************************************)
(* AccessControl, which every contract inherits: a contract keeps its own  *)
(* roles and its own pause, so that a role granted on one contract counts  *)
(* for nothing on another.  A transaction succeeds as a whole or reverts   *)
(* as a whole, and is one step.                                            *)
(***************************************************************************)
EXTENDS Integers, FiniteSets

CONSTANTS
    Deals,          \* deal ids, each also standing for its DealContract
    Accounts,       \* the accounts that send transactions
    Owner,          \* the account that deployed the contracts
    Granted,        \* roles held from the start, besides the owner's
    Grants,         \* the roles that may be granted or revoked later
    Pausable,       \* the contracts that may be paused
    MaxChanges      \* bound on the changes

Contracts == {"registry", "factory", "escrow", "profits"} \cup Deals
Roles == {"OWNER", "ORACLE", "PAUSER"}
Principals == Accounts \cup Contracts

\* A role held is a triple of the contract, the role and the holder.
AllRoles == Contracts \X Roles \X Principals

ASSUME RoleAssumption ==
    /\ Owner \in Accounts
    /\ Granted \subseteq AllRoles
    /\ Grants \subseteq AllRoles
    /\ Pausable \subseteq Contracts
    /\ MaxChanges \in Nat

VARIABLES
    roles,      \* the roles held
    paused,     \* the contracts that are paused
    changes     \* grants, revocations, pauses and verifications withdrawn so far

roleVars == <<roles, paused, changes>>

HasRole(contract, role, sender) == <<contract, role, sender>> \in roles

\* The constructors.
RolesInit ==
    /\ roles = Granted \cup (Contracts \X {"OWNER", "PAUSER"} \X {Owner})
    /\ paused = {}
    /\ changes = 0

Change == changes < MaxChanges /\ changes' = changes + 1

GrantRole(sender, grant) ==
    /\ HasRole(grant[1], "OWNER", sender)
    /\ roles' = roles \cup {grant}
    /\ Change
    /\ UNCHANGED paused

RevokeRole(sender, grant) ==
    /\ HasRole(grant[1], "OWNER", sender)
    /\ roles' = roles \ {grant}
    /\ Change
    /\ UNCHANGED paused

Pause(sender, contract) ==
    /\ HasRole(contract, "PAUSER", sender)
    /\ paused' = paused \cup {contract}
    /\ Change
    /\ UNCHANGED roles

Unpause(sender, contract) ==
    /\ HasRole(contract, "PAUSER", sender)
    /\ paused' = paused \ {contract}
    /\ Change
    /\ UNCHANGED roles

RoleStep ==
    \E sender \in Accounts :
        \/ \E grant \in Grants : GrantRole(sender, grant) \/ RevokeRole(sender, grant)
        \/ \E contract \in Pausable : Pause(sender, contract) \/ Unpause(sender, contract)

RolesTypeOK ==
    /\ roles \subseteq AllRoles
    /\ paused \subseteq Contracts
    /\ changes \in 0 .. MaxChanges
=============================================================================
