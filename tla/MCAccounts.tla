---------------------------- MODULE MCAccounts ----------------------------
(***************************************************************************)
(* What the rows of one account go through: paying, guessing its password, *)
(* changing its factors.  The three modules share no variable, so each is  *)
(* explored by itself: `scene' picks the one that moves, the others keep   *)
(* their start.                                                            *)
(***************************************************************************)
EXTENDS Billing, PasswordLockout, SecurityChanges, TLC

VARIABLE scene

AccountsInit ==
    /\ scene \in {"paying", "guessing", "factors"}
    /\ Init /\ LockoutInit
    /\ IF scene = "factors" THEN SecurityInit ELSE SecurityStart(0, {})

AccountsNext ==
    /\ UNCHANGED scene
    /\ \/ scene = "paying" /\ Next /\ UNCHANGED <<lockoutVars, securityVars>>
       \/ scene = "guessing" /\ LockoutNext /\ UNCHANGED <<vars, securityVars>>
       \/ scene = "factors" /\ SecurityNext /\ UNCHANGED <<vars, lockoutVars>>

AccountsSpec == AccountsInit /\ [][AccountsNext]_<<vars, lockoutVars, securityVars, scene>>

AccountsSymmetry == Permutations(Slots) \cup Permutations(Callers)
=============================================================================
