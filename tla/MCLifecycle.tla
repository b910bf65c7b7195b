---------------------------- MODULE MCLifecycle ----------------------------
(***************************************************************************)
(* Three generations over one address: two configs that share everything   *)
(* but the ticket policy, and one without listener and tickets whose       *)
(* managed plan is another, so that sharing, replacement and return of     *)
(* every resource happen.                                                  *)
(***************************************************************************)
EXTENDS Lifecycle

CONSTANTS address, plan1, plan2, policy1, policy2

MCKeys == {address}
NoKeys == {}
Snapshot(keys, plan, policy) == [keys |-> keys, plan |-> plan, policy |-> policy]
MCConfigs == {Snapshot({address}, plan1, policy1), Snapshot({address}, plan1, policy2),
              Snapshot({}, plan2, none)}
=============================================================================
